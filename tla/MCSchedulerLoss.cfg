CONSTANTS
    Ids = {a}
    Copies = 2
    Workers = {w1}
    StoreMayFail = FALSE
    None = None
    Requests = {r1}
    MaxQueueSize = 1
    ApiIds = {}
    ApiStatuses = {}
    MaxRestarts = 1
    LenRelocks = {FALSE}
SPECIFICATION NodeSpec
INVARIANT AckedTaskNotLost
