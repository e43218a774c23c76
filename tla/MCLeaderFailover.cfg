CONSTANTS
    Nodes = {seed, joiner}
    Seeds = {seed}
    MaxElections = 1
SPECIFICATION Spec
PROPERTY FailoverHappens
