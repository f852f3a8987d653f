\* Four entries: chains, siblings and every forest between, told apart up to their
\* identifiers; texts of up to two letters.
SPECIFICATION Spec
VIEW Shape
CONSTANTS
    MaxEntries = 4
    Letters = {"a", "b"}
    NewTexts <- MCNewTexts
    MaxLetters = 4
    MaxText = 2
INVARIANTS
    TypeOK
    Preorder
PROPERTIES
    EditsMeanForestEdits
    DeletionTakesSubtrees
    SplitAndJoinKeepText
    MovesTakeBack
