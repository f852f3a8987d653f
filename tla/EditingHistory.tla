--------------------------- MODULE EditingHistory ---------------------------
(***************************************************************************)
(* The life of the session history while a Notebook is open: commands      *)
(* record actions of any track and size, undo and redo move them, closing  *)
(* forgets everything.  What an action restores is left to module          *)
(* Notebook; here only its track, its number and its size matter, and the  *)
(* properties say that the deques together are one chronological history.  *)
(***************************************************************************)
EXTENDS HistoryStacks

CONSTANTS Sizes,            \* estimated bytes an action may have
          MaxSequence       \* bound: actions recorded between open and close

ASSUME SizesAssumption == Sizes \subseteq Nat
ASSUME MaxSequenceAssumption == MaxSequence \in Nat

VARIABLE history

\* The deques hold numbered actions, and historyBytes, unsigned in the code,
\* never drops below zero.
TypeOK == StacksTyped(history, {"edit"}) /\ history.bytes \in Nat

Init == history = EmptyHistory

RecordCommand(t, size) ==
    /\ history.next <= MaxSequence
    /\ history' = Recorded(history, t, size, "edit")

UndoEdit(t) == NewestUndo(history, t) /\ history' = Undone(history, t)

RedoEdit(t) == OldestRedo(history, t) /\ history' = Redone(history, t)

Close == history' = EmptyHistory

Next ==
    \/ \E t \in Tracks, size \in Sizes : RecordCommand(t, size)
    \/ \E t \in Tracks : UndoEdit(t) \/ RedoEdit(t)
    \/ Close

Spec == Init /\ [][Next]_history
-----------------------------------------------------------------------------
\* The deques of all Journal Dates, Named Pages and cross-Page moves are one
\* chronological history with a single position (ADR-0022): recordHistory,
\* recordPageHistory, moveEntryToPage, undoEdit and redoEdit keep it in order.
Chronology == Chronological(history)

\* historyBytes is the sum over the actions kept, so that the unsigned counter
\* never wraps below zero and the budget is never enforced on a stale total.
BytesAccounted == history.bytes = ActionBytes(history.undo) + ActionBytes(history.redo)

\* More than the budget is held only by a single action.
WithinBudget == history.bytes <= HistoryBudget \/ ActionCount(history) <= 1

\* An undone action is the very one redo takes up again, and a redone action
\* the one undo reverses, even when older actions lie on other tracks.
UndoRedoInverse ==
    [][ \A t \in Tracks :
          /\ UndoEdit(t) => OldestRedo(history', t) /\ Redone(history', t) = history
          /\ RedoEdit(t) => NewestUndo(history', t) /\ Undone(history', t) = history ]_history

\* However large it is, the action a command records is the next to be undone
\* and leaves nothing to redo (ADR-0009: the newest action remains available).
NewestIsUndoable ==
    [][ \A t \in Tracks, size \in Sizes : RecordCommand(t, size) =>
            /\ NewestUndo(history', t) /\ ~CanRedo(history')
            /\ Last(history'.undo[t]).sequence = history.next ]_history
=============================================================================
