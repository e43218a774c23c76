CONSTANTS
    Procs = {p1, p2, p3}
    Tasks = {t1}
    None = None
SPECIFICATION Spec
INVARIANTS TypeOK MutatorsAreAlone NoReaderSeesATask
PROPERTIES WedgeIsForever CallsReturnUnlessWedged
\* The queue really does stop: once wedged, every goroutine ends up waiting.
CHECK_DEADLOCK FALSE
