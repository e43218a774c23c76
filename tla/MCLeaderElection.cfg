CONSTANTS
    Nodes = {seed, joiner}
    Seeds = {seed}
    MaxElections = 2
SPECIFICATION Spec
INVARIANTS TypeOK OnlySeedsLead FlagFollowsRaft
PROPERTIES RecordSettles
