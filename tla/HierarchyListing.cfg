\* Names with a hyphen sort between a name and the names below it.
SPECIFICATION ReadsSpec
CONSTANTS
    MaxIds = 4
    Names = {"a", "a-b", "a/c"}
    Calendar <- MCCalendar
    References <- MCNone
    PropertyKeys <- MCNone
    Spelling <- Hyphened
    Typed <- MCTyped
    MaxText = 2
    Ticks = {1}
    Tracks <- HistoryTracks
    HistoryBudget = 2
    InitialStores <- ThreePages
    MaxClock = 1
    MaxRevision = 2
    BatchSize = 3
    OccurrenceBatch = 2
    Requests <- HierarchyRequests
INVARIANTS
    ListingAgreesWithLookup
