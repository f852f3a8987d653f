\* Three tracks; actions far below the budget, at half of it, and above it alone.
SPECIFICATION Spec
CONSTANTS
    Tracks = {journalDay, namedPage, crossPage}
    Sizes = {1, 3, 7}
    HistoryBudget = 6
    MaxSequence = 5
INVARIANTS
    TypeOK
    Chronology
    BytesAccounted
    WithinBudget
PROPERTIES
    UndoRedoInverse
    NewestIsUndoable
