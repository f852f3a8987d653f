\* An Entry moved while another caller has looked up its Page kind.
SPECIFICATION SessionSpec
CONSTANTS
    MaxIds = 5
    Names = {"a"}
    Calendar <- MCCalendar
    References <- MCReferences
    PropertyKeys <- MCNone
    Typed <- MCTyped
    MaxText = 2
    Ticks = {1}
    Tracks <- HistoryTracks
    HistoryBudget = 3
    InitialStores <- MCTwoPages
    MaxClock = 2
    MaxRevision = 3
    Threads = {t1, t2}
    Reference = "ref"
PROPERTIES
    CommandsAreRecorded
