--------------------------- MODULE TaskCodecProofs ---------------------------
(****************************************************************************)
(* What the conversions of TaskCodec keep of a status or a priority, and    *)
(* what they lose, for every number a client may have sent.                 *)
(****************************************************************************)
EXTENDS TaskCodec, TLAPS

\* What a row of PostgreSQL (postgres_storage.go:90-98, 135-136) keeps of a
\* status: all of it if the number has a name, and Pending otherwise.
THEOREM StatusThroughRow ==
    \A s \in Int :
        ParseStatus(StatusString(s)) = IF s \in StatusCodes THEN s ELSE StatusPending
  BY DEF ParseStatus, StatusString, StatusCodes, StatusPending, StatusRunning,
         StatusCompleted, StatusFailed, StatusTimeout

\* What it keeps of a priority: a number without a name comes back as Low.
THEOREM PriorityThroughRow ==
    \A p \in Int :
        ParsePriority(PriorityString(p)) = IF p \in PriorityCodes THEN p ELSE PriorityLow
  BY DEF ParsePriority, PriorityString, PriorityCodes, PriorityLow,
         PriorityMedium, PriorityHigh

\* A gRPC client that is shown anything but PENDING is shown the truth
\* (server.go:233-246), and a task it finds by status under any other status
\* than PENDING is shown to it with that status (server.go:104-123).
THEOREM GrpcShowsNoFalseProgress ==
    /\ \A s \in Int : convertProtoStatus(s) # "STATUS_PENDING"
                          => convertStatus(convertProtoStatus(s)) = s
    /\ \A t \in ProtoStatuses \ {"STATUS_UNSPECIFIED"} :
           convertProtoStatus(convertStatus(t)) = t
<1> USE DEF convertProtoStatus, convertStatus, StatusPending, StatusRunning,
            StatusCompleted, StatusFailed
<1>1. ASSUME NEW s \in Int, convertProtoStatus(s) # "STATUS_PENDING"
      PROVE  convertStatus(convertProtoStatus(s)) = s
  BY <1>1
<1>2. ASSUME NEW t \in ProtoStatuses \ {"STATUS_UNSPECIFIED"}
      PROVE  convertProtoStatus(convertStatus(t)) = t
  BY <1>2 DEF ProtoStatuses
<1> QED
  BY <1>1, <1>2

\* What it is not shown: a task that timed out, or has a status without a
\* name, looks as if it were waiting, over gRPC and, in the second case, after
\* it was rebuilt from its row (server.go:233-246, types.go:84).
THEOREM GrpcHidesTimeouts ==
    \A s \in Int : s \notin StatusPending..StatusFailed
                       => convertProtoStatus(s) = convertProtoStatus(StatusPending)
  BY DEF convertProtoStatus, StatusPending, StatusRunning, StatusCompleted, StatusFailed

\* A priority comes back from a gRPC round trip, and no choice of the client
\* puts a task ahead of the one it asked for: without a choice it is Low.
THEOREM GrpcPriorityRoundTrip ==
    /\ \A p \in PriorityCodes : convertPriority(convertProtoPriority(p)) = p
    /\ \A q \in ProtoPriorities :
           convertPriority(q) > PriorityLow => convertProtoPriority(convertPriority(q)) = q
  BY DEF convertPriority, convertProtoPriority, PriorityCodes, ProtoPriorities,
         PriorityLow, PriorityMedium, PriorityHigh

==============================================================================
