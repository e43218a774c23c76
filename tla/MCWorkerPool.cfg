CONSTANTS
    Ids = {a}
    Copies = 3
    Workers = {w1, w2}
    StoreMayFail = TRUE
    None = None
SPECIFICATION Spec
INVARIANTS TypeOK TaskHasOnePlace InProgressExact OutcomesCounted
INVARIANTS FinalOutcomeStored StopQuiesces
PROPERTIES StopReturns
