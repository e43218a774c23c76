CONSTANTS
    Clients = {c1, c2, c3}
    MaxWrites = 3
    Given <- GivenStatuses
    MayFail = TRUE
SPECIFICATION Spec
INVARIANTS TypeOK LastSuccessIsShown TaskKeptWhole PostgresNeverAhead FallbackKeepsStatus DeletedRowStaysDeleted
