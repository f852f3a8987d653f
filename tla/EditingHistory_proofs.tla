------------------------ MODULE EditingHistory_proofs ------------------------
(* The history of an open Notebook stays chronological and accounted, undo *)
(* and redo reverse each other, and the budget never takes the newest      *)
(* action, for all tracks, sizes and budgets.                              *)
EXTENDS EditingHistory, HistoryStacks_proofs

\* What every step keeps: the deques are typed and chronological, and their bytes
\* accounted and within the budget.  Each part needs the ones before it: what a
\* command evicts is found by the order of the numbers, and what it frees by the
\* account.
HistoryInv ==
    /\ StacksTyped(history, {"edit"})
    /\ Chronological(history)
    /\ Accounted(history)
    /\ WithinBudget

\* The empty history of a freshly opened Notebook satisfies it.
LEMMA EmptyInv == (history = EmptyHistory) => HistoryInv
  BY EmptyChronological, EmptyBudgeted DEF HistoryInv, WithinBudget

\* Every step keeps it: recording (with eviction), undo, redo and closing.
LEMMA NextInv == HistoryInv /\ [Next]_history => HistoryInv'
  <1> SUFFICES ASSUME HistoryInv, [Next]_history
               PROVE  HistoryInv'
    OBVIOUS
  <1>1. /\ StacksTyped(history, {"edit"}) /\ Chronological(history)
        /\ Accounted(history) /\ WithinBudget
    BY DEF HistoryInv
  <1>2. ASSUME NEW t \in Tracks, NEW size \in Sizes, RecordCommand(t, size)
        PROVE  HistoryInv'
    <2> DEFINE r == Recorded(history, t, size, "edit")
    <2>1. size \in Nat /\ "edit" \in {"edit"}
      BY SizesAssumption
    <2>2. StacksTyped(r, {"edit"}) /\ Chronological(r)
      BY <1>1, <2>1, RecordedChronological
    <2>3. /\ Accounted(r)
          /\ r.bytes <= HistoryBudget \/ ActionCount(r) <= 1
      BY <1>1, <2>1, RecordedBudgeted
    <2>4. history' = r
      BY <1>2 DEF RecordCommand
    <2> HIDE DEF r
    <2> QED
      BY <2>2, <2>3, <2>4 DEF HistoryInv, WithinBudget
  <1>3. ASSUME NEW t \in Tracks, UndoEdit(t)
        PROVE  HistoryInv'
    <2> DEFINE m == Undone(history, t)
    <2>1. NewestUndo(history, t) /\ history' = m
      BY <1>3 DEF UndoEdit
    <2>2. StacksTyped(m, {"edit"}) /\ Chronological(m)
      BY <1>1, <2>1, UndoneChronological
    <2>3. Accounted(m) /\ m.bytes = history.bytes /\ ActionCount(m) = ActionCount(history)
      BY <1>1, <2>1, UndoneBudgeted
    <2> HIDE DEF m
    <2> QED
      BY <1>1, <2>1, <2>2, <2>3 DEF HistoryInv, WithinBudget
  <1>4. ASSUME NEW t \in Tracks, RedoEdit(t)
        PROVE  HistoryInv'
    <2> DEFINE m == Redone(history, t)
    <2>1. OldestRedo(history, t) /\ history' = m
      BY <1>4 DEF RedoEdit
    <2>2. StacksTyped(m, {"edit"}) /\ Chronological(m)
      BY <1>1, <2>1, RedoneChronological
    <2>3. Accounted(m) /\ m.bytes = history.bytes /\ ActionCount(m) = ActionCount(history)
      BY <1>1, <2>1, RedoneBudgeted
    <2> HIDE DEF m
    <2> QED
      BY <1>1, <2>1, <2>2, <2>3 DEF HistoryInv, WithinBudget
  <1>5. CASE Close
    BY <1>5, EmptyChronological, EmptyBudgeted DEF Close, HistoryInv, WithinBudget
  <1>6. CASE UNCHANGED history
    BY <1>6 DEF HistoryInv, WithinBudget
  <1> QED
    BY <1>2, <1>3, <1>4, <1>5, <1>6 DEF Next

\* Every reachable history is typed, chronological, accounted and within the budget.
THEOREM HistoryInvariant == Spec => []HistoryInv
  <1>1. Init => HistoryInv
    BY EmptyInv DEF Init
  <1> QED
    BY <1>1, NextInv, PTL DEF Spec

\* The deques hold numbered actions and historyBytes, unsigned in the code, never
\* drops below zero.
THEOREM TypeOKHolds == Spec => []TypeOK
  <1>1. HistoryInv => TypeOK
    BY AccountedTyped DEF HistoryInv, TypeOK
  <1> QED
    BY <1>1, HistoryInvariant, PTL

\* historyBytes is the sum over the actions of all deques, in both directions and
\* after any eviction.
THEOREM BytesAccountedHolds == Spec => []BytesAccounted
  <1>1. HistoryInv => BytesAccounted
    BY DEF HistoryInv, Accounted, BytesAccounted
  <1> QED
    BY <1>1, HistoryInvariant, PTL

\* More than the budget is held only by a single action, whatever the sizes.
THEOREM WithinBudgetHolds == Spec => []WithinBudget
  <1>1. HistoryInv => WithinBudget
    BY DEF HistoryInv
  <1> QED
    BY <1>1, HistoryInvariant, PTL

\* The deques of all Journal Dates, Named Pages and cross-Page moves are one
\* chronological history, whatever is recorded, undone, redone or evicted.
THEOREM ChronologyHolds == Spec => []Chronology
  <1>1. HistoryInv => Chronology
    BY DEF HistoryInv, Chronology
  <1> QED
    BY <1>1, HistoryInvariant, PTL

\* Undo and redo take up each other's action and restore each other's history.
THEOREM UndoRedoInverseHolds == Spec => UndoRedoInverse
  <1> DEFINE Inverse1(t) == UndoEdit(t) => OldestRedo(history', t) /\ Redone(history', t) = history
             Inverse2(t) == RedoEdit(t) => NewestUndo(history', t) /\ Undone(history', t) = history
  <1>1. ASSUME HistoryInv, NEW t \in Tracks
        PROVE  Inverse1(t)
    <2> SUFFICES ASSUME UndoEdit(t)
                 PROVE  OldestRedo(history', t) /\ Redone(history', t) = history
      OBVIOUS
    <2>1. StacksTyped(history, {"edit"}) /\ Chronological(history)
      BY <1>1 DEF HistoryInv
    <2>2. NewestUndo(history, t) /\ history' = Undone(history, t)
      BY DEF UndoEdit
    <2> QED
      BY <2>1, <2>2, UndoThenRedo
  <1>2. ASSUME HistoryInv, NEW t \in Tracks
        PROVE  Inverse2(t)
    <2> SUFFICES ASSUME RedoEdit(t)
                 PROVE  NewestUndo(history', t) /\ Undone(history', t) = history
      OBVIOUS
    <2>1. StacksTyped(history, {"edit"}) /\ Chronological(history)
      BY <1>2 DEF HistoryInv
    <2>2. OldestRedo(history, t) /\ history' = Redone(history, t)
      BY DEF RedoEdit
    <2> QED
      BY <2>1, <2>2, RedoThenUndo
  <1>3. HistoryInv => [ \A t \in Tracks :
          /\ UndoEdit(t) => OldestRedo(history', t) /\ Redone(history', t) = history
          /\ RedoEdit(t) => NewestUndo(history', t) /\ Undone(history', t) = history ]_history
    BY <1>1, <1>2
  <1> QED
    BY <1>3, HistoryInvariant, PTL DEF UndoRedoInverse

\* The action a command records, however large, is the next to be undone, and
\* nothing is left to redo.
THEOREM NewestIsUndoableHolds == Spec => NewestIsUndoable
  <1>1. ASSUME HistoryInv, NEW t \in Tracks, NEW size \in Sizes, RecordCommand(t, size)
        PROVE  /\ NewestUndo(history', t) /\ ~CanRedo(history')
               /\ Last(history'.undo[t]).sequence = history.next
    <2> DEFINE r == Recorded(history, t, size, "edit")
    <2>1. size \in Nat /\ "edit" \in {"edit"}
      BY SizesAssumption
    <2>2. StacksTyped(history, {"edit"}) /\ Chronological(history) /\ Accounted(history)
      BY <1>1 DEF HistoryInv
    <2>3. NewestUndo(r, t) /\ ~CanRedo(r) /\ Last(r.undo[t]).sequence = history.next
      BY <2>1, <2>2, RecordedNewest
    <2>4. history' = r
      BY <1>1 DEF RecordCommand
    <2> HIDE DEF r
    <2> QED
      BY <2>3, <2>4
  <1>2. HistoryInv => [ \A t \in Tracks, size \in Sizes : RecordCommand(t, size) =>
            /\ NewestUndo(history', t) /\ ~CanRedo(history')
            /\ Last(history'.undo[t]).sequence = history.next ]_history
    BY <1>1
  <1> QED
    BY <1>2, HistoryInvariant, PTL DEF NewestIsUndoable
=============================================================================
