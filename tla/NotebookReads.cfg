\* One command of every kind, undone and redone, while a caller pages or collects
\* occurrences; batches of one and of two, so that answers have several.
SPECIFICATION ReadsSpec
CONSTANTS
    MaxIds = 9
    Names = {"a", "ab", "a/a"}
    Calendar <- MCCalendar
    References <- MCReferences
    PropertyKeys <- MCKeys
    Spelling <- MCSpelling
    Typed <- MCTyped
    MaxText = 6
    Ticks = {1}
    Tracks <- HistoryTracks
    HistoryBudget = 2
    InitialStores <- MCStores
    MaxClock = 1
    MaxRevision = 2
    BatchSize = 1
    OccurrenceBatch = 2
    Requests <- MCRequests
INVARIANTS
    EnumerationsAreWhole
    QueriesAgreeWithReads
    ListingAgreesWithLookup
PROPERTIES
    RenameKeepsQueries
