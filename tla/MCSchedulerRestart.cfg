CONSTANTS
    Ids = {a}
    Copies = 3
    Workers = {w1}
    StoreMayFail = TRUE
    None = None
    Requests = {r1}
    MaxQueueSize = 1
    ApiIds = {a}
    ApiStatuses = {"failed"}
    MaxRestarts = 1
    LenRelocks = {TRUE, FALSE}
SPECIFICATION NodeSpec
INVARIANTS NodeTypeOK RelockedNodeDoesNothing AckedSurvivesRestart UnfinishedIsInHand
PROPERTIES PersistedTaskRuns
\* The node really does stop: once the queue is wedged everybody waits.
CHECK_DEADLOCK FALSE
