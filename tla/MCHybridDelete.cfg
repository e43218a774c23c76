CONSTANTS
    Clients = {c1, c2}
    MaxWrites = 1
    Given <- GivenPending
    MayFail = FALSE
SPECIFICATION Spec
INVARIANT DeletedTaskIsGone
