CONSTANTS
    Ids = {a, b, c}
    Copies = 2
    Keys <- MCKeys
    None = None
SPECIFICATION Spec
INVARIANTS TypeOK HeapOrder IndexAgrees MapPointsIntoHeap GetShowsForemost
PROPERTIES ImplementsTaskQueue
SYMMETRY IdSymmetry
