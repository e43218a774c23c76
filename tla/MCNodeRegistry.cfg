CONSTANTS
    Nodes = {n1, n2}
    Beaters = {n1}
    Watchers = {n2}
    Submitters = {n2}
    Storages = {"redis", "hybrid"}
    Beat = 1
    Check = 2
    TTL = 6
    FailAfter = 6
    Latency = 1
    Tolerated = 2
    MaxDeaths = 2
SPECIFICATION Spec
INVARIANTS TypeOK AccusedHadLapsed
PROPERTIES DeadNodeNoticed
