CONSTANTS
    Nodes = {n1, n2}
    Beaters = {n1}
    Watchers = {n2}
    Submitters = {}
    Storages = {"redis"}
    Beat = 1
    Check = 2
    TTL = 6
    FailAfter = 6
    Latency = 1
    Tolerated = 2
    MaxDeaths = 1
SPECIFICATION Spec
PROPERTY DeathNoticed
