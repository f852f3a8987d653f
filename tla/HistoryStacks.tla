--------------------------- MODULE HistoryStacks ---------------------------
(***************************************************************************)
(* The session history of NotebookSession::Impl as values and operators.   *)
(*                                                                         *)
(* The code keeps one deque pair per Journal Date, one per Named Page and  *)
(* one for cross-Page moves, and numbers the actions from one counter.  A  *)
(* track stands for the owner of one such pair.  Undo takes the greatest   *)
(* number at the back of any undo deque, redo the least at the back of any *)
(* redo deque.                                                             *)
(***************************************************************************)
EXTENDS SequencesExt

CONSTANTS Tracks,           \* the owners of a pair of deques
          HistoryBudget     \* bytes the actions may occupy together

ASSUME TracksAssumption == IsFiniteSet(Tracks) /\ Tracks # {}
ASSUME BudgetAssumption == HistoryBudget \in Nat

\* An action: its number, its estimated bytes, and what it restores (members of W).
Actions(W) == [sequence : Nat \ {0}, size : Nat, what : W]

HistoryRecord(h) ==
    h = [undo |-> h.undo, redo |-> h.redo, next |-> h.next, bytes |-> h.bytes]

StacksTyped(h, W) ==
    /\ HistoryRecord(h)
    /\ h.undo \in [Tracks -> Seq(Actions(W))]
    /\ h.redo \in [Tracks -> Seq(Actions(W))]
    /\ h.next \in Nat \ {0}

NoStacks == [t \in Tracks |-> <<>>]

\* The history of a freshly opened (or closed) Notebook.
EmptyHistory == [undo |-> NoStacks, redo |-> NoStacks, next |-> 1, bytes |-> 0]

\* The bytes of the actions of one deque, of all deques, and how many actions they hold.
DequeBytes(s) == SumFunction([i \in DOMAIN s |-> s[i].size])
ActionBytes(stacks) == SumFunction([t \in Tracks |-> DequeBytes(stacks[t])])
ActionCount(h) == SumFunction([t \in Tracks |-> Len(h.undo[t]) + Len(h.redo[t])])

CanUndo(h) == \E t \in Tracks : h.undo[t] # <<>>
CanRedo(h) == \E t \in Tracks : h.redo[t] # <<>>

\* Faulty: undo takes from the first deque that has something.
AnyUndo(h, t) == h.undo[t] # <<>>

\* undoEdit acts on the track with the newest action at the back of an undo deque.
NewestUndo(h, t) ==
    /\ h.undo[t] # <<>>
    /\ \A u \in Tracks : h.undo[u] # <<>> =>
           Last(h.undo[t]).sequence >= Last(h.undo[u]).sequence

\* redoEdit acts on the track with the oldest action at the back of a redo deque.
OldestRedo(h, t) ==
    /\ h.redo[t] # <<>>
    /\ \A u \in Tracks : h.redo[u] # <<>> =>
           Last(h.redo[t]).sequence <= Last(h.redo[u]).sequence

\* Both directions move the applied action from the back of one deque to the
\* back of the other one of the same track.

\* Faulty: an undone action gives its bytes back and is counted again later.
UndoneAndFreed(h, t) ==
    [h EXCEPT !.undo[t] = Front(@), !.redo[t] = Append(@, Last(h.undo[t])),
              !.bytes = @ - Last(h.undo[t]).size]

Undone(h, t) ==
    [h EXCEPT !.undo[t] = Front(@), !.redo[t] = Append(@, Last(h.undo[t]))]

Redone(h, t) ==
    [h EXCEPT !.redo[t] = Front(@), !.undo[t] = Append(@, Last(h.redo[t]))]

\* Faulty: a command forgets to clear the redo deques, or to give back their bytes.
RedoKept(h) == h
RedoClearedUncounted(h) == [h EXCEPT !.redo = NoStacks]

ClearRedo(h) ==
    [h EXCEPT !.redo = NoStacks, !.bytes = @ - ActionBytes(h.redo)]

\* An undo deque without its actions older than cut.  Deques are ascending, so
\* these are the ones pop_front takes first.
DropOlder(s, cut) ==
    LET older == {i \in DOMAIN s : s[i].sequence < cut}
    IN  SubSeq(s, Cardinality(older) + 1, Len(s))

KeptFrom(h, cut) == [t \in Tracks |-> DropOlder(h.undo[t], cut)]

UndoSequences(h) == UNION {{h.undo[t][i].sequence : i \in DOMAIN h.undo[t]} : t \in Tracks}

\* Faulty: the budget is never enforced, or at the expense of the newest action.
NoEviction(h) == h
EvictsToNothing(h) ==
    IF h.bytes <= HistoryBudget THEN h
    ELSE [h EXCEPT !.undo = NoStacks, !.bytes = @ - ActionBytes(h.undo)]

\* Evicting the oldest action while the budget is exceeded and more than one is
\* left keeps the longest run of newest actions that fits, and always the newest.
\* Every caller has just cleared the redo deques, so only undo actions are evicted.
EnforceBudget(h) ==
    IF h.bytes <= HistoryBudget \/ ActionCount(h) <= 1
    THEN h
    ELSE LET fitting == {c \in UndoSequences(h) :
                            ActionBytes(KeptFrom(h, c)) <= HistoryBudget}
             cut == IF fitting = {} THEN Max(UndoSequences(h)) ELSE Min(fitting)
         IN  [h EXCEPT !.undo = KeptFrom(h, cut),
                       !.bytes = @ - (ActionBytes(h.undo) - ActionBytes(KeptFrom(h, cut)))]

\* A committed command: redo is discarded, the action is numbered and pushed,
\* the budget is enforced.
NewAction(h, size, what) == [sequence |-> h.next, size |-> size, what |-> what]

Pushed(h, t, size, what) ==
    [h EXCEPT !.undo[t] = Append(@, NewAction(h, size, what)),
              !.next = @ + 1,
              !.bytes = @ + size]

Recorded(h, t, size, what) == EnforceBudget(Pushed(ClearRedo(h), t, size, what))
-----------------------------------------------------------------------------
Ascending(s) == \A i, j \in DOMAIN s : i < j => s[i].sequence < s[j].sequence
Descending(s) == \A i, j \in DOMAIN s : i < j => s[i].sequence > s[j].sequence
Below(s, n) == \A i \in DOMAIN s : s[i].sequence < n
Before(s, r) == \A i \in DOMAIN s, j \in DOMAIN r : s[i].sequence < r[j].sequence
Apart(s, r) == \A i \in DOMAIN s, j \in DOMAIN r : s[i].sequence # r[j].sequence

\* An undo deque never offers an older action before a newer one, and a redo
\* deque never a newer one before an older one.
OrderedStacks(h) ==
    \A t \in Tracks : Ascending(h.undo[t]) /\ Descending(h.redo[t])

\* Whatever track they lie on, every action that can be undone is older than
\* every action that can be redone, and all of them older than the next number.
UndoBeforeRedo(h) ==
    /\ \A t, u \in Tracks : Before(h.undo[t], h.redo[u])
    /\ \A t \in Tracks : Below(h.undo[t], h.next) /\ Below(h.redo[t], h.next)

\* No two tracks hold the same number, so the newest and the oldest are unique.
NumbersUnique(h) ==
    \A t, u \in Tracks : t # u => /\ Apart(h.undo[t], h.undo[u])
                                  /\ Apart(h.redo[t], h.redo[u])

Chronological(h) == OrderedStacks(h) /\ UndoBeforeRedo(h) /\ NumbersUnique(h)
=============================================================================
