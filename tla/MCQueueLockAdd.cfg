CONSTANTS
    Procs = {p1, p2}
    Tasks = {t1}
    None = None
SPECIFICATION Spec
PROPERTY AddReturns
CHECK_DEADLOCK FALSE
