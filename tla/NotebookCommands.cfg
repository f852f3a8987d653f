\* One or two commands of every kind on three Notebooks, undone and redone.
SPECIFICATION Spec
CONSTANTS
    MaxIds = 7
    Names = {"a", "b"}
    Calendar <- MCCalendar
    References <- MCNone
    PropertyKeys <- MCNone
    Typed <- MCTyped
    MaxText = 2
    Ticks = {1}
    Tracks <- HistoryTracks
    HistoryBudget = 2
    InitialStores <- MCAll
    MaxClock = 3
    MaxRevision = 4
INVARIANTS
    TypeOK
    PageRootedContainment
    PageIndexesAgree
    HistoryNeverStuck
PROPERTIES
    RefinesLinearHistory
    TimestampsFollowEdits
    RenameKeepsMentions
    MovesKeepSubtrees
