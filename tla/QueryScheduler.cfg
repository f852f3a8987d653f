\* Two Queries of two batches, two commits, closes that succeed.
SPECIFICATION Spec
CONSTANTS
    Queries = {q1, q2}
    CloseCanFail = FALSE
    MaxRevision = 3
    MaxGeneration = 4
    MaxBatches = 2
CHECK_DEADLOCK FALSE
INVARIANTS
    TypeOK
    NoTaskWithoutSession
    WorkerNotIdle
    WantedQueriesAreCurrent
    RowsOfOneRevision
PROPERTIES
    LoadingEnds
    CloseHappens
    ExitsOnlyWhenAsked
