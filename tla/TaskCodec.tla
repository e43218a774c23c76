------------------------------ MODULE TaskCodec ------------------------------
(****************************************************************************)
(* How the status and the priority of a task change form on their way: they *)
(* are numbers in memory and in the JSON of Redis (types.go), texts in the  *)
(* rows of PostgreSQL, and enumerations of their own in the gRPC interface. *)
(* Nothing keeps a client from sending a number without a meaning: the PUT  *)
(* handler copies what the JSON says (api.go:316-324).                      *)
(****************************************************************************)
EXTENDS Integers

\* type Status and type Priority.
StatusPending == 0
StatusRunning == 1
StatusCompleted == 2
StatusFailed == 3
StatusTimeout == 4
StatusCodes == StatusPending..StatusTimeout

PriorityLow == 0
PriorityMedium == 1
PriorityHigh == 2
PriorityCodes == PriorityLow..PriorityHigh

\* Status.String and Priority.String.
StatusString(s) ==
    CASE s = StatusPending -> "pending"
      [] s = StatusRunning -> "running"
      [] s = StatusCompleted -> "completed"
      [] s = StatusFailed -> "failed"
      [] s = StatusTimeout -> "timeout"
      [] OTHER -> "unknown"

PriorityString(p) ==
    CASE p = PriorityHigh -> "high"
      [] p = PriorityMedium -> "medium"
      [] p = PriorityLow -> "low"
      [] OTHER -> "unknown"

\* Mutated ParseStatus: the case of the newest status is missing.
ParseStatusNoTimeout(t) ==
    CASE t = "pending" -> StatusPending
      [] t = "running" -> StatusRunning
      [] t = "completed" -> StatusCompleted
      [] t = "failed" -> StatusFailed
      [] OTHER -> StatusPending

ParseStatus(t) ==
    CASE t = "pending" -> StatusPending
      [] t = "running" -> StatusRunning
      [] t = "completed" -> StatusCompleted
      [] t = "failed" -> StatusFailed
      [] t = "timeout" -> StatusTimeout
      [] OTHER -> StatusPending

ParsePriority(t) ==
    CASE t = "high" -> PriorityHigh
      [] t = "medium" -> PriorityMedium
      [] t = "low" -> PriorityLow
      [] OTHER -> PriorityLow

------------------------------------------------------------------------------
(* The gRPC interface.                                                      *)

\* The enumerations of scheduler.proto, in their order.
ProtoStatuses ==
    {"STATUS_UNSPECIFIED", "STATUS_PENDING", "STATUS_RUNNING",
     "STATUS_COMPLETED", "STATUS_FAILED"}
ProtoPriorities ==
    {"PRIORITY_UNSPECIFIED", "PRIORITY_LOW", "PRIORITY_MEDIUM", "PRIORITY_HIGH"}

convertStatus(s) ==
    CASE s = "STATUS_PENDING" -> StatusPending
      [] s = "STATUS_RUNNING" -> StatusRunning
      [] s = "STATUS_COMPLETED" -> StatusCompleted
      [] s = "STATUS_FAILED" -> StatusFailed
      [] OTHER -> StatusPending

convertProtoStatus(s) ==
    CASE s = StatusPending -> "STATUS_PENDING"
      [] s = StatusRunning -> "STATUS_RUNNING"
      [] s = StatusCompleted -> "STATUS_COMPLETED"
      [] s = StatusFailed -> "STATUS_FAILED"
      [] OTHER -> "STATUS_PENDING"

convertPriority(p) ==
    CASE p = "PRIORITY_HIGH" -> PriorityHigh
      [] p = "PRIORITY_MEDIUM" -> PriorityMedium
      [] p = "PRIORITY_LOW" -> PriorityLow
      [] OTHER -> PriorityLow

convertProtoPriority(p) ==
    CASE p = PriorityHigh -> "PRIORITY_HIGH"
      [] p = PriorityMedium -> "PRIORITY_MEDIUM"
      [] p = PriorityLow -> "PRIORITY_LOW"
      [] OTHER -> "PRIORITY_LOW"

==============================================================================
