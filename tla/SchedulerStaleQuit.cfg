\* A quit whose close fails, and a close after it.
SPECIFICATION Spec
CONSTANTS
    Queries = {q1, q2}
    CloseCanFail = TRUE
    MaxRevision = 3
    MaxGeneration = 4
    MaxBatches = 2
CHECK_DEADLOCK FALSE
PROPERTIES
    ExitsOnlyWhenAsked
