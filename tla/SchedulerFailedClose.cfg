\* A close may fail while a Query is on screen.
SPECIFICATION Spec
CONSTANTS
    Queries = {q1, q2}
    CloseCanFail = TRUE
    MaxRevision = 3
    MaxGeneration = 4
    MaxBatches = 2
CHECK_DEADLOCK FALSE
INVARIANTS
    WantedQueriesAreCurrent
