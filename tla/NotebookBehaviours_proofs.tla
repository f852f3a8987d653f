---------------------- MODULE NotebookBehaviours_proofs ----------------------
(***************************************************************************)
(* What a Notebook does, from the invariant that module Notebook_proofs    *)
(* shows: its deques implement LinearHistory, because the Pages that the   *)
(* invariant speaks of are what undoing and redoing again and again lead   *)
(* to; a caller who pages through its answers, or down a level of its      *)
(* hierarchy, gets whole ones; and every command keeps the subtrees it     *)
(* moves whole and stamps what it changed.                                 *)
(***************************************************************************)
EXTENDS NotebookReads, Notebook_proofs

-----------------------------------------------------------------------------
\* The deques as one linear history: what undoing, or redoing, again and again leads to.

\* Databases with the same keys and values are the same.
LEMMA SameDatabase ==
    ASSUME NEW f, NEW g, IsDatabase(f), IsDatabase(g), DOMAIN f = DOMAIN g,
           \A k \in DOMAIN f : f[k] = g[k]
    PROVE  f = g
  <1>1. f = [k \in DOMAIN f |-> f[k]] /\ g = [k \in DOMAIN g |-> g[k]]
    BY DEF IsDatabase
  <1>2. [k \in DOMAIN f |-> f[k]] = [k \in DOMAIN g |-> g[k]]
    OBVIOUS
  <1> QED
    BY <1>1, <1>2

\* What the Pages of A look like on disk, revision aside.
Image(A) == CHOOSE c : \E s : Holds(s, A) /\ c = Content(s)

\* The databases that hold the same Pages are the same.
LEMMA ImageIs ==
    ASSUME NEW A, NEW s, Holds(s, A)
    PROVE  Content(s) = Image(A)
  <1>1. ASSUME NEW t, Holds(t, A)
        PROVE  Content(s) = Content(t)
    <2>1. /\ IsStore(s) /\ BlocksAre(s, A) /\ PlacesAre(s, A) /\ KeysAre(s, A)
          /\ IsStore(t) /\ BlocksAre(t, A) /\ PlacesAre(t, A) /\ KeysAre(t, A)
      BY <1>1 DEF Holds
    <2>2. /\ IsDatabase(s.blocks) /\ IsDatabase(s.byChild) /\ IsDatabase(s.byParent)
          /\ IsDatabase(s.pages) /\ IsDatabase(t.blocks) /\ IsDatabase(t.byChild)
          /\ IsDatabase(t.byParent) /\ IsDatabase(t.pages)
      BY <2>1 DEF IsStore
    <2>3. \A b \in EntriesOf(A) : \E p \in DOMAIN A : b \in Ids(A[p].entries)
      BY DEF EntriesOf
    <2>4. s.blocks = t.blocks
      <3>1. DOMAIN s.blocks = DOMAIN A \cup EntriesOf(A) /\ DOMAIN t.blocks = DOMAIN s.blocks
        BY <2>1 DEF BlocksAre
      <3>2. \A b \in DOMAIN A : s.blocks[b] = t.blocks[b]
        BY <2>1 DEF BlocksAre
      <3>3. ASSUME NEW b \in EntriesOf(A)
            PROVE  s.blocks[b] = t.blocks[b]
        <4>1. PICK p \in DOMAIN A : b \in Ids(A[p].entries)
          BY <2>3
        <4>2. PICK i \in DOMAIN A[p].entries : A[p].entries[i].id = b
          BY <4>1 DEF Ids
        <4> QED
          BY <2>1, <4>1, <4>2 DEF BlocksAre
      <3>4. \A b \in DOMAIN s.blocks : s.blocks[b] = t.blocks[b]
        BY <3>1, <3>2, <3>3
      <3> QED
        BY <2>2, <3>1, <3>4, SameDatabase
    <2>5. s.byChild = t.byChild
      <3>1. DOMAIN s.byChild = EntriesOf(A) /\ DOMAIN t.byChild = DOMAIN s.byChild
        BY <2>1 DEF PlacesAre
      <3>2. \A b \in DOMAIN s.byChild : s.byChild[b] = t.byChild[b]
        BY <2>1, <2>3, <3>1 DEF PlacesAre
      <3> QED
        BY <2>2, <3>1, <3>2, SameDatabase
    <2>6. s.byParent = t.byParent
      <3>1. /\ DOMAIN s.byParent = {s.byChild[b] : b \in EntriesOf(A)}
            /\ DOMAIN t.byParent = {t.byChild[b] : b \in EntriesOf(A)}
            /\ \A b \in EntriesOf(A) : s.byParent[s.byChild[b]] = b /\ t.byParent[t.byChild[b]] = b
        BY <2>1 DEF PlacesAre
      <3>2. DOMAIN s.byParent = DOMAIN t.byParent
        BY <2>5, <3>1
      <3>3. \A k \in DOMAIN s.byParent : s.byParent[k] = t.byParent[k]
        BY <2>5, <3>1
      <3> QED
        BY <2>2, <3>2, <3>3, SameDatabase
    <2>7. s.pages = t.pages
      <3>1. /\ DOMAIN s.pages = {PageKey(A[p].page) : p \in DOMAIN A}
            /\ DOMAIN t.pages = DOMAIN s.pages
            /\ \A p \in DOMAIN A : /\ s.pages[PageKey(A[p].page)] = p
                                   /\ t.pages[PageKey(A[p].page)] = p
        BY <2>1 DEF KeysAre
      <3>2. \A k \in DOMAIN s.pages : s.pages[k] = t.pages[k]
        BY <3>1
      <3> QED
        BY <2>2, <3>1, <3>2, SameDatabase
    <2>8. /\ s = [blocks |-> s.blocks, byParent |-> s.byParent, byChild |-> s.byChild,
                  pages |-> s.pages, revision |-> s.revision]
          /\ t = [blocks |-> t.blocks, byParent |-> t.byParent, byChild |-> t.byChild,
                  pages |-> t.pages, revision |-> t.revision]
      BY <2>1 DEF IsStore
    <2> DEFINE c == [blocks |-> s.blocks, byParent |-> s.byParent, byChild |-> s.byChild,
                     pages |-> s.pages, revision |-> 0]
    <2>9. Content(s) = c
      BY <2>8 DEF Content
    <2>10. Content(t) = c
      <3>1. Content(t) = [blocks |-> t.blocks, byParent |-> t.byParent, byChild |-> t.byChild,
                          pages |-> t.pages, revision |-> 0]
        BY <2>8 DEF Content
      <3> QED
        BY <2>4, <2>5, <2>6, <2>7, <3>1
    <2> QED
      BY <2>9, <2>10
  <1> DEFINE P(c) == \E u : Holds(u, A) /\ c = Content(u)
             d == CHOOSE c : P(c)
  <1>2. P(Content(s))
    OBVIOUS
  <1> HIDE DEF P
  <1>3. P(d)
    BY <1>2
  <1>4. PICK t : Holds(t, A) /\ d = Content(t)
    BY <1>3 DEF P
  <1>5. d = Image(A)
    BY DEF P, Image
  <1> QED
    BY <1>1, <1>4, <1>5

\* What is left to take back, or to take again.
StackOf(h, redo) == IF redo THEN h.redo ELSE h.undo

\* Replayed, for any store and history: the states after each of the steps, and the
\* sequence made of them.
Reaching(n, st, h, redo, f) ==
    f = [k \in 0 .. n |-> IF k = 0 THEN {[store |-> st, history |-> h]}
                          ELSE Steps(f[k - 1], redo)]
ReachedAt(at, j) == Content((CHOOSE s \in at[j] : TRUE).store)
Replay(st, h, redo) ==
    LET n == HeldActions(StackOf(h, redo))
        at == CHOOSE f : Reaching(n, st, h, redo, f)
    IN  [k \in 1 .. n |-> ReachedAt(at, n + 1 - k)]

\* It is the same.
LEMMA ReplayedIs == \A redo \in BOOLEAN : Replayed(redo) = Replay(store, history, redo)
  <1> SUFFICES ASSUME NEW redo \in BOOLEAN
               PROVE  Replayed(redo) = Replay(store, history, redo)
    OBVIOUS
  <1> QED
    BY HistoryTracksAssumption
    DEF Replayed, Replay, StackOf, HeldActions, Reaching, ReachedAt

\* Also after a step.
LEMMA ReplayedNext == \A redo \in BOOLEAN : Replayed(redo)' = Replay(store', history', redo)
  <1> SUFFICES ASSUME NEW redo \in BOOLEAN
               PROVE  Replayed(redo)' = Replay(store', history', redo)
    OBVIOUS
  <1> QED
    BY HistoryTracksAssumption
    DEF Replayed, Replay, StackOf, HeldActions, Reaching, ReachedAt

\* The states after each of the steps.
Travels(f, st, h, redo, n) ==
    /\ f[0] = {[store |-> st, history |-> h]}
    /\ \A k \in 1 .. n : f[k] = Steps(f[k - 1], redo)
    /\ n = HeldActions(StackOf(h, redo)) =>
          Replay(st, h, redo) = [k \in 1 .. n |-> ReachedAt(f, n + 1 - k)]
LEMMA ReachingExists ==
    ASSUME NEW st, NEW h, NEW redo \in BOOLEAN, NEW n \in Nat
    PROVE  \E f : Travels(f, st, h, redo, n)
  <1> DEFINE e == {[store |-> st, history |-> h]}
             Run(m, f) == f = [k \in 0 .. m |-> IF k = 0 THEN e ELSE Steps(f[k - 1], redo)]
             I == {m \in Nat : \E f : Run(m, f)}
  <1>1. 0 \in I
    <2> DEFINE f == [k \in 0 .. 0 |-> e]
    <2>1. f = [k \in 0 .. 0 |-> IF k = 0 THEN e ELSE Steps(f[k - 1], redo)]
      OBVIOUS
    <2> QED
      BY <2>1
  <1>2. ASSUME NEW m \in Nat, m \in I
        PROVE  m + 1 \in I
    <2>1. PICK f : Run(m, f)
      BY <1>2
    <2> DEFINE g == [k \in 0 .. (m + 1) |-> IF k = m + 1 THEN Steps(f[m], redo) ELSE f[k]]
               r == [k \in 0 .. (m + 1) |-> IF k = 0 THEN e ELSE Steps(g[k - 1], redo)]
    <2>2. \A k \in 0 .. m : f[k] = IF k = 0 THEN e ELSE Steps(f[k - 1], redo)
      BY <2>1
    <2>3. g[m + 1] = Steps(f[m], redo) /\ \A k \in 0 .. m : g[k] = f[k]
      OBVIOUS
    <2>4. \A k \in 0 .. (m + 1) : r[k] = IF k = 0 THEN e ELSE Steps(g[k - 1], redo)
      OBVIOUS
    <2>5. DOMAIN g = DOMAIN r /\ g = [k \in DOMAIN g |-> g[k]] /\ r = [k \in DOMAIN r |-> r[k]]
          /\ DOMAIN g = 0 .. (m + 1)
      OBVIOUS
    <2> HIDE DEF g, r
    <2>6. ASSUME NEW k \in 0 .. (m + 1)
          PROVE  g[k] = r[k]
      <3>1. CASE k = m + 1
        <4>1. m \in 0 .. m /\ k # 0 /\ k - 1 = m
          BY <3>1
        <4> QED
          BY <2>3, <2>4, <3>1, <4>1
      <3>2. CASE k # m + 1
        <4>1. k \in 0 .. m /\ (k # 0 => k - 1 \in 0 .. m)
          BY <3>2
        <4> QED
          BY <2>2, <2>3, <2>4, <4>1
      <3> QED
        BY <3>1, <3>2
    <2>7. g = r
      BY <2>5, <2>6
    <2>8. Run(m + 1, g)
      BY <2>7 DEF r
    <2>9. m + 1 \in Nat
      OBVIOUS
    <2> QED
      BY <2>8, <2>9
  <1>3. \A m \in Nat : m \in I
    <2> HIDE DEF I
    <2> QED
      BY <1>1, <1>2, IndexInduction
  <1> DEFINE at == CHOOSE f : Reaching(n, st, h, redo, f)
  <1>4. \E f : Reaching(n, st, h, redo, f)
    BY <1>3 DEF Reaching
  <1>5. Reaching(n, st, h, redo, at)
    BY <1>4
  <1>6. at[0] = e /\ \A k \in 1 .. n : at[k] = Steps(at[k - 1], redo)
    <2> HIDE DEF at, e, Run, I
    <2>1. at = [k \in 0 .. n |-> IF k = 0 THEN e ELSE Steps(at[k - 1], redo)]
      BY <1>5 DEF Reaching, e
    <2>2. \A k \in 0 .. n : at[k] = IF k = 0 THEN e ELSE Steps(at[k - 1], redo)
      BY <2>1
    <2>3. 0 \in 0 .. n /\ \A k \in 1 .. n : k \in 0 .. n /\ k # 0
      OBVIOUS
    <2> QED
      BY <2>2, <2>3
  <1>7. n = HeldActions(StackOf(h, redo)) =>
            Replay(st, h, redo) = [k \in 1 .. n |-> ReachedAt(at, n + 1 - k)]
    BY DEF Replay
  <1> HIDE DEF at
  <1> QED
    BY <1>6, <1>7 DEF e, Travels

\* A closed session, and a state on the way back whose deques hold the numbers K.
Shut == [open |-> FALSE, revision |-> 0]
Reaches(e, c, n, A, B, F, W, redo, K) ==
    /\ Tells(e.store, e.history, c, n, Shut, A, B, F, W)
    /\ Numbers(StackOf(e.history, redo)) = K
AllReach(S, c, n, A, B, F, W, redo, K) ==
    S # {} /\ \A e \in S : Reaches(e, c, n, A, B, F, W, redo, K)

\* Undoing leads from one state to the next.
StepsBack(at, t, e) ==
    /\ t \in HistoryTracks /\ NewestUndo(at.history, t) /\ e.history = Undone(at.history, t)
    /\ CanApply(at.store, t, Last(at.history.undo[t]).what, FALSE) =>
           e.store = Apply(at.store, t, Last(at.history.undo[t]).what, FALSE)
LEMMA StepsBackAre ==
    ASSUME NEW S
    PROVE  /\ \A e \in Steps(S, FALSE) : \E at \in S : \E t : StepsBack(at, t, e)
           /\ \A at \in S, t \in HistoryTracks :
                 NewestUndo(at.history, t) => Steps(S, FALSE) # {}
  <1> DEFINE made(at, stack, t) ==
                 [store |-> IF CanApply(at.store, t, Last(stack[t]).what, FALSE)
                            THEN Apply(at.store, t, Last(stack[t]).what, FALSE)
                            ELSE at.store,
                  history |-> Undone(at.history, t)]
             from(at) == {made(at, stack, t) :
                             stack \in {at.history.undo},
                             t \in {u \in HistoryTracks : NewestUndo(at.history, u)}}
  <1>1. Steps(S, FALSE) = UNION {from(at) : at \in S}
    BY DEF Steps
  <1>2. \A at, t : /\ made(at, at.history.undo, t).history = Undone(at.history, t)
                   /\ CanApply(at.store, t, Last(at.history.undo[t]).what, FALSE) =>
                         made(at, at.history.undo, t).store
                            = Apply(at.store, t, Last(at.history.undo[t]).what, FALSE)
    OBVIOUS
  <1> HIDE DEF made, from
  <1>3. ASSUME NEW e \in Steps(S, FALSE)
        PROVE  \E at \in S : \E t : StepsBack(at, t, e)
    <2>1. PICK at \in S : e \in from(at)
      BY <1>1, <1>3
    <2>2. PICK t \in HistoryTracks : NewestUndo(at.history, t) /\ e = made(at, at.history.undo, t)
      BY <2>1 DEF from
    <2>3. StepsBack(at, t, e)
      BY <1>2, <2>2 DEF StepsBack
    <2> QED
      BY <2>3
  <1>4. ASSUME NEW at \in S, NEW t \in HistoryTracks, NewestUndo(at.history, t)
        PROVE  Steps(S, FALSE) # {}
    <2>1. made(at, at.history.undo, t) \in from(at)
      BY <1>4 DEF from
    <2>2. made(at, at.history.undo, t) \in Steps(S, FALSE)
      BY <1>1, <2>1
    <2> QED
      BY <2>2
  <1> QED
    BY <1>3, <1>4

\* Redoing does.
StepsForth(at, t, e) ==
    /\ t \in HistoryTracks /\ OldestRedo(at.history, t) /\ e.history = Redone(at.history, t)
    /\ CanApply(at.store, t, Last(at.history.redo[t]).what, TRUE) =>
           e.store = Apply(at.store, t, Last(at.history.redo[t]).what, TRUE)
LEMMA StepsForthAre ==
    ASSUME NEW S
    PROVE  /\ \A e \in Steps(S, TRUE) : \E at \in S : \E t : StepsForth(at, t, e)
           /\ \A at \in S, t \in HistoryTracks :
                 OldestRedo(at.history, t) => Steps(S, TRUE) # {}
  <1> DEFINE made(at, stack, t) ==
                 [store |-> IF CanApply(at.store, t, Last(stack[t]).what, TRUE)
                            THEN Apply(at.store, t, Last(stack[t]).what, TRUE)
                            ELSE at.store,
                  history |-> Redone(at.history, t)]
             from(at) == {made(at, stack, t) :
                             stack \in {at.history.redo},
                             t \in {u \in HistoryTracks : OldestRedo(at.history, u)}}
  <1>1. Steps(S, TRUE) = UNION {from(at) : at \in S}
    BY DEF Steps
  <1>2. \A at, t : /\ made(at, at.history.redo, t).history = Redone(at.history, t)
                   /\ CanApply(at.store, t, Last(at.history.redo[t]).what, TRUE) =>
                         made(at, at.history.redo, t).store
                            = Apply(at.store, t, Last(at.history.redo[t]).what, TRUE)
    OBVIOUS
  <1> HIDE DEF made, from
  <1>3. ASSUME NEW e \in Steps(S, TRUE)
        PROVE  \E at \in S : \E t : StepsForth(at, t, e)
    <2>1. PICK at \in S : e \in from(at)
      BY <1>1, <1>3
    <2>2. PICK t \in HistoryTracks : OldestRedo(at.history, t) /\ e = made(at, at.history.redo, t)
      BY <2>1 DEF from
    <2>3. StepsForth(at, t, e)
      BY <1>2, <2>2 DEF StepsForth
    <2> QED
      BY <2>3
  <1>4. ASSUME NEW at \in S, NEW t \in HistoryTracks, OldestRedo(at.history, t)
        PROVE  Steps(S, TRUE) # {}
    <2>1. made(at, at.history.redo, t) \in from(at)
      BY <1>4 DEF from
    <2>2. made(at, at.history.redo, t) \in Steps(S, TRUE)
      BY <1>1, <2>1
    <2> QED
      BY <2>2
  <1> QED
    BY <1>3, <1>4

\* From the Pages of A, undoing (or redoing) leads to those of the next action.
LEMMA StepReplay ==
    ASSUME NEW c, NEW n, NEW A, NEW B, NEW F, NEW W, NEW redo \in BOOLEAN, NEW K, NEW S,
           AllReach(S, c, n, A, B, F, W, redo, K), NEW D, D = IF redo THEN F ELSE B,
           NEW x \in K, \A y \in K \ {x} : Beyond(x, y, redo)
    PROVE  AllReach(Steps(S, redo), c, n, D[x], B, F, W, redo, K \ {x})
  <1>1. PICK at \in S : TRUE
    BY DEF AllReach
  <1>2. ASSUME NEW e \in S
        PROVE  /\ Tells(e.store, e.history, c, n, Shut, A, B, F, W)
               /\ StacksTyped(e.history, W) /\ Chronological(e.history)
               /\ Numbers(StackOf(e.history, redo)) = K
    BY DEF AllReach, Reaches, Tells
  <1>3. CASE redo = FALSE
    <2>1. ASSUME NEW e \in S
          PROVE  /\ x \in Numbers(e.history.undo)
                 /\ \A k \in Numbers(e.history.undo) : k <= x
                 /\ Numbers(e.history.undo) = K
      <3>1. Numbers(e.history.undo) = K /\ Numbers(e.history.undo) \in SUBSET Nat
        BY <1>2, <1>3, NumbersDistinct DEF StackOf
      <3>2. \A k \in K : k <= x
        BY <1>3, <3>1 DEF Beyond
      <3> QED
        BY <3>1, <3>2
    <2>2. ASSUME NEW e \in S
          PROVE  /\ \E t \in Tracks : NewestUndo(e.history, t)
                 /\ \A t \in Tracks : NewestUndo(e.history, t) =>
                       /\ Last(e.history.undo[t]).sequence = x
                       /\ Numbers(Undone(e.history, t).undo) = K \ {x}
      <3>1. /\ \E t \in Tracks : NewestUndo(e.history, t)
            /\ \A t \in Tracks : NewestUndo(e.history, t) =>
                  /\ Last(e.history.undo[t]).sequence = x
                  /\ Numbers(Undone(e.history, t).undo) = Numbers(e.history.undo) \ {x}
                  /\ Numbers(Undone(e.history, t).redo) = Numbers(e.history.redo) \cup {x}
        <4>1. StacksTyped(e.history, W) /\ Chronological(e.history)
          BY <1>2
        <4> QED
          BY ONLY <2>1, <4>1, e \in S, NewestIs
      <3> QED
        BY <2>1, <3>1
    <2>3. Steps(S, redo) # {}
      BY <1>1, <1>3, <2>2, StepsBackAre, HistoryTracksAssumption
    <2>4. ASSUME NEW e \in Steps(S, FALSE)
          PROVE  Reaches(e, c, n, B[x], B, F, W, FALSE, K \ {x})
      <3>10. PICK o \in S : \E t : StepsBack(o, t, e)
        BY <2>4, StepsBackAre
      <3>1. PICK t : StepsBack(o, t, e)
        BY <3>10
      <3>2. /\ t \in HistoryTracks /\ t \in Tracks /\ NewestUndo(o.history, t)
            /\ e.history = Undone(o.history, t)
        BY <3>1, HistoryTracksAssumption DEF StepsBack
      <3>3. Unwinds(o.store, o.history, t, c, n, A, B, F, W)
        BY <1>2, <3>2, UndoTells
      <3>4. /\ Last(o.history.undo[t]).sequence = x
            /\ Numbers(Undone(o.history, t).undo) = K \ {x}
        BY <2>2, <3>2
      <3>5. PICK what :
               /\ what = Last(o.history.undo[t]).what
               /\ CanApply(o.store, t, what, FALSE)
               /\ Brings(Apply(o.store, t, what, FALSE), o.store, B[x])
               /\ Foretold(Undone(o.history, t), c, n, B[x], B, F, W)
        BY <3>3, <3>4 DEF Unwinds
      <3>6. e.store = Apply(o.store, t, what, FALSE)
        BY <3>1, <3>5 DEF StepsBack
      <3>7. Holds(e.store, B[x]) /\ Cached(e.store, Shut)
        BY <3>5, <3>6 DEF Brings, Cached, Shut
      <3>8. Tells(e.store, e.history, c, n, Shut, B[x], B, F, W)
        BY <3>2, <3>5, <3>7 DEF Foretold
      <3>9. Numbers(StackOf(e.history, FALSE)) = K \ {x}
        BY <3>2, <3>4 DEF StackOf
      <3> QED
        BY <3>8, <3>9 DEF Reaches
    <2> QED
      BY <1>3, <2>3, <2>4 DEF AllReach
  <1>4. CASE redo = TRUE
    <2>1. ASSUME NEW e \in S
          PROVE  /\ x \in Numbers(e.history.redo)
                 /\ \A k \in Numbers(e.history.redo) : x <= k
                 /\ Numbers(e.history.redo) = K
      <3>1. Numbers(e.history.redo) = K /\ Numbers(e.history.redo) \in SUBSET Nat
        BY <1>2, <1>4, NumbersDistinct DEF StackOf
      <3>2. \A k \in K : x <= k
        BY <1>4, <3>1 DEF Beyond
      <3> QED
        BY <3>1, <3>2
    <2>2. ASSUME NEW e \in S
          PROVE  /\ \E t \in Tracks : OldestRedo(e.history, t)
                 /\ \A t \in Tracks : OldestRedo(e.history, t) =>
                       /\ Last(e.history.redo[t]).sequence = x
                       /\ Numbers(Redone(e.history, t).redo) = K \ {x}
      <3>1. /\ \E t \in Tracks : OldestRedo(e.history, t)
            /\ \A t \in Tracks : OldestRedo(e.history, t) =>
                  /\ Last(e.history.redo[t]).sequence = x
                  /\ Numbers(Redone(e.history, t).redo) = Numbers(e.history.redo) \ {x}
                  /\ Numbers(Redone(e.history, t).undo) = Numbers(e.history.undo) \cup {x}
        <4>1. StacksTyped(e.history, W) /\ Chronological(e.history)
          BY <1>2
        <4> QED
          BY ONLY <2>1, <4>1, e \in S, OldestIs
      <3> QED
        BY <2>1, <3>1
    <2>3. Steps(S, redo) # {}
      BY <1>1, <1>4, <2>2, StepsForthAre, HistoryTracksAssumption
    <2>4. ASSUME NEW e \in Steps(S, TRUE)
          PROVE  Reaches(e, c, n, F[x], B, F, W, TRUE, K \ {x})
      <3>10. PICK o \in S : \E t : StepsForth(o, t, e)
        BY <2>4, StepsForthAre
      <3>1. PICK t : StepsForth(o, t, e)
        BY <3>10
      <3>2. /\ t \in HistoryTracks /\ t \in Tracks /\ OldestRedo(o.history, t)
            /\ e.history = Redone(o.history, t)
        BY <3>1, HistoryTracksAssumption DEF StepsForth
      <3>3. Rewinds(o.store, o.history, t, c, n, A, B, F, W)
        BY <1>2, <3>2, RedoTells
      <3>4. /\ Last(o.history.redo[t]).sequence = x
            /\ Numbers(Redone(o.history, t).redo) = K \ {x}
        BY <2>2, <3>2
      <3>5. PICK what :
               /\ what = Last(o.history.redo[t]).what
               /\ CanApply(o.store, t, what, TRUE)
               /\ Brings(Apply(o.store, t, what, TRUE), o.store, F[x])
               /\ Foretold(Redone(o.history, t), c, n, F[x], B, F, W)
        BY <3>3, <3>4 DEF Rewinds
      <3>6. e.store = Apply(o.store, t, what, TRUE)
        BY <3>1, <3>5 DEF StepsForth
      <3>7. Holds(e.store, F[x]) /\ Cached(e.store, Shut)
        BY <3>5, <3>6 DEF Brings, Cached, Shut
      <3>8. Tells(e.store, e.history, c, n, Shut, F[x], B, F, W)
        BY <3>2, <3>5, <3>7 DEF Foretold
      <3>9. Numbers(StackOf(e.history, TRUE)) = K \ {x}
        BY <3>2, <3>4 DEF StackOf
      <3> QED
        BY <3>8, <3>9 DEF Reaches
    <2> QED
      BY <1>4, <2>3, <2>4 DEF AllReach
  <1> QED
    BY <1>3, <1>4

\* What the Pages D[k] look like, for the numbers k of r.
Images(D, r) == [i \in 1 .. Len(r) |-> Image(D[r[i]])]

\* The states that undoing (or redoing) again and again leads to are those the deques
\* tell of, in the order of the numbers.
LEMMA ReplayedAlong ==
    ASSUME NEW st, NEW h, NEW c, NEW n, NEW se, NEW A, NEW B, NEW F, NEW W,
           Tells(st, h, c, n, se, A, B, F, W), NEW redo \in BOOLEAN,
           NEW r, Ranked(r, Numbers(StackOf(h, redo)), redo)
    PROVE  Replay(st, h, redo) = Images(IF redo THEN F ELSE B, r)
  <1> DEFINE N == Len(r)
             D == IF redo THEN F ELSE B
             X == StackOf(h, redo)
             A1(k) == IF k = 0 THEN A ELSE D[r[N + 1 - k]]
  <1>1. /\ N \in Nat /\ Firsts(r, N) = Numbers(X)
        /\ \A m \in Nat : m < N =>
              /\ r[m + 1] \in Firsts(r, m + 1)
              /\ Firsts(r, m + 1) \ {r[m + 1]} = Firsts(r, m)
              /\ \A y \in Firsts(r, m) : Beyond(r[m + 1], y, redo)
    BY FirstsAre
  <1>2. N = HeldActions(X)
    <2>1. StacksTyped(h, W) /\ Chronological(h)
      BY DEF Tells
    <2>2. Distinct(h.undo) /\ Distinct(h.redo)
      BY <2>1, NumbersDistinct
    <2>3. X \in [Tracks -> Seq(Actions(W))] /\ Distinct(X)
      BY <2>1, <2>2 DEF StacksTyped, StackOf
    <2>4. HeldActions(X) = Cardinality(Numbers(X))
      BY <2>3, NumbersCounted
    <2> QED
      BY <2>4, RankedCounted
  <1> HIDE DEF N, D, X, A1
  <1>9. PICK f : Travels(f, st, h, redo, N)
    <2>1. N \in Nat
      BY <1>1
    <2> QED
      BY ONLY <2>1, redo \in BOOLEAN, ReachingExists, Zenon
  <1>3. /\ f[0] = {[store |-> st, history |-> h]}
        /\ \A k \in 1 .. N : f[k] = Steps(f[k - 1], redo)
        /\ N = HeldActions(X) =>
              Replay(st, h, redo) = [k \in 1 .. N |-> ReachedAt(f, N + 1 - k)]
    BY <1>9 DEF Travels, X
  <1> DEFINE At(k) == AllReach(f[k], c, n, A1(k), B, F, W, redo, Firsts(r, N - k))
             I == {k \in Nat : k <= N => At(k)}
  <1>4. 0 \in I
    <2>1. Cached(st, Shut)
      BY DEF Cached, Shut
    <2>2. Tells(st, h, c, n, Shut, A, B, F, W)
      BY <2>1 DEF Tells
    <2> DEFINE o == [store |-> st, history |-> h]
    <2>3. o.store = st /\ o.history = h
      OBVIOUS
    <2>4. f[0] = {o}
      BY <1>3
    <2> HIDE DEF o
    <2>5. Reaches(o, c, n, A, B, F, W, redo, Firsts(r, N))
      BY <1>1, <2>2, <2>3 DEF Reaches, X
    <2>6. N - 0 = N /\ A1(0) = A
      BY <1>1 DEF A1
    <2> QED
      BY <2>4, <2>5, <2>6 DEF AllReach
  <1>5. ASSUME NEW k \in Nat, k \in I
        PROVE  k + 1 \in I
    <2> SUFFICES ASSUME k + 1 <= N
                 PROVE  At(k + 1)
      OBVIOUS
    <2> DEFINE m == N - (k + 1)
               x == r[m + 1]
    <2>1. /\ m \in Nat /\ m < N /\ m + 1 = N - k /\ k + 1 \in 1 .. N /\ k + 1 - 1 = k
          /\ k <= N /\ N + 1 - (k + 1) = m + 1 /\ k + 1 # 0
      BY <1>1
    <2>2. At(k)
      BY <1>5, <2>1
    <2>3. f[k + 1] = Steps(f[k], redo)
      BY <1>3, <2>1
    <2>4. A1(k + 1) = D[x]
      BY <2>1 DEF A1
    <2> HIDE DEF m, x
    <2>5. /\ x \in Firsts(r, m + 1) /\ Firsts(r, m + 1) \ {x} = Firsts(r, m)
          /\ \A y \in Firsts(r, m) : Beyond(x, y, redo)
      BY <1>1, <2>1 DEF x
    <2>6. AllReach(f[k], c, n, A1(k), B, F, W, redo, Firsts(r, m + 1))
      BY <2>1, <2>2
    <2>7. D = (IF redo THEN F ELSE B) /\ \A y \in Firsts(r, m + 1) \ {x} : Beyond(x, y, redo)
      BY <2>5 DEF D
    <2>8. AllReach(Steps(f[k], redo), c, n, D[x], B, F, W, redo, Firsts(r, m + 1) \ {x})
      BY <2>5, <2>6, <2>7, StepReplay
    <2> QED
      BY <2>3, <2>4, <2>5, <2>8 DEF m
  <1>6. \A k \in Nat : k \in I
    <2> HIDE DEF I
    <2> QED
      BY <1>4, <1>5, IndexInduction
  <1>7. ASSUME NEW i \in 1 .. N
        PROVE  ReachedAt(f, N + 1 - i) = Image(D[r[i]])
    <2> DEFINE k == N + 1 - i
               s == CHOOSE s \in f[k] : TRUE
    <2>1. k \in Nat /\ k <= N /\ k # 0 /\ N + 1 - k = i
      BY <1>1
    <2>2. At(k)
      BY <1>6, <2>1
    <2>3. A1(k) = D[r[i]]
      BY <2>1 DEF A1
    <2>4. ReachedAt(f, k) = Content(s.store)
      BY DEF ReachedAt
    <2>5. s \in f[k]
      BY <2>2 DEF AllReach
    <2> HIDE DEF s, k
    <2>6. Reaches(s, c, n, D[r[i]], B, F, W, redo, Firsts(r, N - k))
      BY <2>2, <2>3, <2>5 DEF AllReach
    <2>7. Holds(s.store, D[r[i]])
      BY <2>6 DEF Reaches, Tells
    <2> QED
      BY <2>4, <2>7, ImageIs DEF k
  <1>8. Replay(st, h, redo) = [i \in 1 .. N |-> Image(D[r[i]])]
    <2>1. Replay(st, h, redo) = [i \in 1 .. N |-> ReachedAt(f, N + 1 - i)]
      BY <1>2, <1>3
    <2> QED
      BY <1>7, <2>1
  <1> QED
    BY <1>8 DEF Images, D, N

\* One more number, one more image.
LEMMA ImagesMore ==
    ASSUME NEW D, NEW r \in Seq(Nat), NEW x \in Nat
    PROVE  /\ Images(D, Append(r, x)) = Append(Images(D, r), Image(D[x]))
           /\ Images(D, Append(r, x)) # <<>>
           /\ Images(D, Append(r, x))[Len(Images(D, Append(r, x)))] = Image(D[x])
           /\ SubSeq(Images(D, Append(r, x)), 1, Len(Images(D, Append(r, x))) - 1) = Images(D, r)
  <1> DEFINE n == Len(r)
             c == Append(r, x)
             V == {Image(D[k]) : k \in Nat}
             p == Images(D, r)
             q == Images(D, c)
             a == Image(D[x])
  <1>1. /\ n \in Nat /\ c \in Seq(Nat) /\ Len(c) = n + 1 /\ c[n + 1] = x
        /\ \A i \in 1 .. n : c[i] = r[i] /\ r[i] \in Nat
    OBVIOUS
  <1>2. a \in V /\ \A i \in 1 .. n : Image(D[r[i]]) \in V
    BY <1>1
  <1> HIDE DEF c, n, V, a
  <1>3. p = [i \in 1 .. n |-> Image(D[r[i]])] /\ q = [i \in 1 .. (n + 1) |-> Image(D[c[i]])]
    BY <1>1 DEF Images, n
  <1>4. p \in Seq(V) /\ Len(p) = n /\ \A i \in 1 .. n : p[i] = Image(D[r[i]])
    BY <1>1, <1>2, <1>3
  <1>5. /\ \A i \in 1 .. n : q[i] = p[i]
        /\ q[n + 1] = a
    <2>1. n + 1 \in 1 .. (n + 1) /\ \A i \in 1 .. n : i \in 1 .. (n + 1)
      BY <1>1
    <2> QED
      BY <1>1, <1>3, <1>4, <2>1 DEF a
  <1>6. q \in Seq(V) /\ Len(q) = n + 1
    <2>1. \A i \in 1 .. (n + 1) : i \in 1 .. n \/ i = n + 1
      BY <1>1
    <2>2. \A i \in 1 .. (n + 1) : Image(D[c[i]]) \in V
      BY <1>1, <1>2, <2>1 DEF a
    <2> QED
      BY <1>1, <1>3, <2>2
  <1> HIDE DEF p, q
  <1>7. q = Append(p, a)
    <2> DEFINE w == Append(p, a)
    <2>1. /\ w \in Seq(V) /\ Len(w) = n + 1 /\ w[n + 1] = a
          /\ \A i \in 1 .. n : w[i] = p[i]
      BY <1>1, <1>2, <1>4
    <2> HIDE DEF w
    <2>2. \A i \in 1 .. (n + 1) : i \in 1 .. n \/ i = n + 1
      BY <1>1
    <2>3. \A i \in 1 .. (n + 1) : q[i] = w[i]
      BY <1>5, <2>1, <2>2
    <2>4. q = w
      BY <1>1, <1>6, <2>1, <2>3
    <2> QED
      BY <2>4 DEF w
  <1>8. q # <<>> /\ q[Len(q)] = a
    BY <1>1, <1>5, <1>6
  <1>9. SubSeq(q, 1, Len(q) - 1) = p
    <2> DEFINE w == SubSeq(q, 1, n)
    <2>1. w \in Seq(V) /\ Len(w) = n /\ \A i \in 1 .. n : w[i] = q[i]
      BY <1>1, <1>6
    <2>2. Len(q) - 1 = n
      BY <1>1, <1>6
    <2> HIDE DEF w
    <2>3. \A i \in 1 .. n : w[i] = p[i]
      BY <1>5, <2>1
    <2>4. w = p
      BY <1>1, <1>4, <2>1, <2>3
    <2> QED
      BY <2>2, <2>4 DEF w
  <1> QED
    BY <1>7, <1>8, <1>9 DEF p, q, a, c

\* A command adds the present to what can be undone, and forgets the oldest of it.
Remembers(p, a, q) == \E i \in 1 .. Len(p) + 1 : q = SubSeq(Append(p, a), i, Len(p) + 1)
LEMMA ImagesKept ==
    ASSUME NEW B, NEW B1, NEW r0 \in Seq(Nat), NEW rm \in Seq(Nat), NEW x \in Nat, NEW a,
           \A i \in 1 .. Len(rm) : B1[rm[i]] = B[rm[i]], a = Image(B1[x])
    PROVE  Remembers(Images(B, r0 \o rm), a, Images(B1, Append(rm, x)))
  <1> DEFINE c == r0 \o rm
             k == Len(r0)
             n == Len(rm)
             V == {Image(B[y]) : y \in Nat} \cup {a}
             p == Images(B, c)
             u == Images(B1, rm)
             w == Append(p, a)
             s == SubSeq(w, k + 1, k + n + 1)
             q == Append(u, a)
  <1>1. /\ k \in Nat /\ n \in Nat /\ c \in Seq(Nat) /\ Len(c) = k + n
        /\ (\A i \in 1 .. n : c[k + i] = rm[i]) /\ (\A i \in 1 .. n : rm[i] \in Nat)
        /\ \A i \in 1 .. (k + n) : c[i] \in Nat
    OBVIOUS
  <1>2. a \in V /\ \A y \in Nat : Image(B[y]) \in V
    OBVIOUS
  <1> HIDE DEF c, k, n, V
  <1>3. p = [i \in 1 .. (k + n) |-> Image(B[c[i]])] /\ u = [i \in 1 .. n |-> Image(B1[rm[i]])]
    BY <1>1 DEF Images, n
  <1>4. p \in Seq(V) /\ Len(p) = k + n /\ \A i \in 1 .. n : p[k + i] = Image(B[rm[i]])
    <2>1. \A i \in 1 .. (k + n) : Image(B[c[i]]) \in V
      BY <1>1, <1>2
    <2>2. k + n \in Nat /\ \A i \in 1 .. n : k + i \in 1 .. (k + n)
      BY <1>1
    <2> QED
      BY <1>1, <1>3, <2>1, <2>2
  <1>5. u \in Seq(V) /\ Len(u) = n /\ \A i \in 1 .. n : u[i] = Image(B[rm[i]])
    <2>1. \A i \in 1 .. n : B1[rm[i]] = B[rm[i]] /\ Image(B[rm[i]]) \in V
      BY <1>1, <1>2 DEF n
    <2> QED
      BY <1>1, <1>3, <2>1
  <1> HIDE DEF p, u
  <1>6. /\ w \in Seq(V) /\ Len(w) = k + n + 1 /\ w[k + n + 1] = a
        /\ \A i \in 1 .. n : w[k + i] = p[k + i]
    BY <1>1, <1>2, <1>4
  <1>7. /\ q \in Seq(V) /\ Len(q) = n + 1 /\ q[n + 1] = a
        /\ \A i \in 1 .. n : q[i] = u[i]
    BY <1>1, <1>2, <1>5
  <1> HIDE DEF w, q
  <1>8. /\ s \in Seq(V) /\ Len(s) = n + 1
        /\ \A i \in 1 .. (n + 1) : s[i] = w[k + i]
    BY <1>1, <1>6
  <1> HIDE DEF s
  <1>9. q = s
    <2>1. \A i \in 1 .. (n + 1) : i \in 1 .. n \/ i = n + 1
      BY <1>1
    <2>2. s[n + 1] = a
      <3>1. n + 1 \in 1 .. (n + 1) /\ k + (n + 1) = k + n + 1
        BY <1>1
      <3> QED
        BY <1>6, <1>8, <3>1
    <2>3. \A i \in 1 .. n : s[i] = q[i]
      <3>1. \A i \in 1 .. n : i \in 1 .. (n + 1)
        BY <1>1
      <3> QED
        BY <1>4, <1>5, <1>6, <1>7, <1>8, <3>1
    <2>4. \A i \in 1 .. (n + 1) : q[i] = s[i]
      BY <1>7, <2>1, <2>2, <2>3
    <2> QED
      BY <1>1, <1>7, <1>8, <2>4
  <1>10. Images(B1, Append(rm, x)) = q
    BY ImagesMore DEF q, u
  <1>11. k + 1 \in 1 .. Len(p) + 1 /\ Len(p) + 1 = k + n + 1
    BY <1>1, <1>4
  <1>12. Images(B1, Append(rm, x)) = SubSeq(Append(p, a), k + 1, Len(p) + 1)
    BY <1>9, <1>10, <1>11 DEF s, w
  <1> QED
    BY <1>11, <1>12 DEF p, c, Remembers

\* What undoing and redoing lead to, told by the numbers of the actions.
Relived(st, h, A, B, F) ==
    /\ Content(st) = Image(A)
    /\ \A r : Ranked(r, Numbers(h.undo), FALSE) => Replay(st, h, FALSE) = Images(B, r)
    /\ \A r : Ranked(r, Numbers(h.redo), TRUE) => Replay(st, h, TRUE) = Images(F, r)
    /\ Numbers(h.undo) \in SUBSET Nat /\ IsFiniteSet(Numbers(h.undo))
    /\ Numbers(h.redo) \in SUBSET Nat /\ IsFiniteSet(Numbers(h.redo))
    /\ \A k \in Numbers(h.undo), z \in Numbers(h.redo) : k < z
LEMMA TellsRelived ==
    ASSUME NEW st, NEW h, NEW c, NEW n, NEW se, NEW A, NEW B, NEW F, NEW W,
           Tells(st, h, c, n, se, A, B, F, W)
    PROVE  Relived(st, h, A, B, F)
  <1>1. StacksTyped(h, W) /\ Chronological(h) /\ Holds(st, A)
    BY DEF Tells
  <1>2. /\ Distinct(h.undo) /\ Distinct(h.redo)
        /\ Numbers(h.undo) \in SUBSET Nat /\ Numbers(h.redo) \in SUBSET Nat
        /\ \A k \in Numbers(h.undo), z \in Numbers(h.redo) : k < z
    BY <1>1, NumbersDistinct
  <1>3. h.undo \in [Tracks -> Seq(Actions(W))] /\ h.redo \in [Tracks -> Seq(Actions(W))]
    BY <1>1 DEF StacksTyped
  <1>4. IsFiniteSet(Numbers(h.undo)) /\ IsFiniteSet(Numbers(h.redo))
    BY <1>2, <1>3, NumbersCounted
  <1>5. Content(st) = Image(A)
    BY <1>1, ImageIs
  <1>6. ASSUME NEW r, Ranked(r, Numbers(h.undo), FALSE)
        PROVE  Replay(st, h, FALSE) = Images(B, r)
    <2> DEFINE b == FALSE
    <2>1. b \in BOOLEAN /\ StackOf(h, b) = h.undo /\ (IF b THEN F ELSE B) = B
      BY DEF StackOf
    <2>2. Ranked(r, Numbers(StackOf(h, b)), b)
      BY <1>6, <2>1
    <2> HIDE DEF b
    <2>3. Replay(st, h, b) = Images(IF b THEN F ELSE B, r)
      BY <2>1, <2>2, ReplayedAlong
    <2> QED
      BY <2>1, <2>3 DEF b
  <1>7. ASSUME NEW r, Ranked(r, Numbers(h.redo), TRUE)
        PROVE  Replay(st, h, TRUE) = Images(F, r)
    <2> DEFINE b == TRUE
    <2>1. b \in BOOLEAN /\ StackOf(h, b) = h.redo /\ (IF b THEN F ELSE B) = F
      BY DEF StackOf
    <2>2. Ranked(r, Numbers(StackOf(h, b)), b)
      BY <1>7, <2>1
    <2> HIDE DEF b
    <2>3. Replay(st, h, b) = Images(IF b THEN F ELSE B, r)
      BY <2>1, <2>2, ReplayedAlong
    <2> QED
      BY <2>1, <2>3 DEF b
  <1> QED
    BY <1>2, <1>4, <1>5, <1>6, <1>7 DEF Relived

\* Nothing to undo or to redo is an empty sequence.
LEMMA NothingRelived ==
    ASSUME NEW st, NEW h, NEW A, NEW B, NEW F, Relived(st, h, A, B, F)
    PROVE  /\ Numbers(h.undo) = {} => Replay(st, h, FALSE) = <<>>
           /\ Numbers(h.redo) = {} => Replay(st, h, TRUE) = <<>>
  <1>1. \A D : Images(D, <<>>) = <<>>
    BY DEF Images
  <1>2. Ranked(<<>>, {}, FALSE) /\ Ranked(<<>>, {}, TRUE)
    BY RankedNone
  <1> QED
    BY <1>1, <1>2 DEF Relived

\* A command moves on from the present.
LEMMA CommandMoves ==
    ASSUME NEW st, NEW h, NEW A, NEW B, NEW F, Relived(st, h, A, B, F),
           NEW st1, NEW h1, NEW A1, NEW B1, NEW F1, Relived(st1, h1, A1, B1, F1),
           Grown(h, h1, A, B, B1)
    PROVE  /\ Remembers(Replay(st, h, FALSE), Content(st), Replay(st1, h1, FALSE))
           /\ Replay(st1, h1, TRUE) = <<>>
  <1> DEFINE K == Numbers(h.undo)
             K1 == Numbers(h1.undo)
             x == h.next
             M == K1 \ {x}
             O == K \ M
  <1>1. /\ Numbers(h1.redo) = {} /\ x \in Nat /\ x \in K1 /\ B1[x] = A /\ K1 \subseteq K \cup {x}
        /\ \A k \in K : k \in Nat /\ k < x /\ B1[k] = B[k]
        /\ \A k \in K1, z \in K : k <= z => z \in K1
    BY DEF Grown
  <1>2. K \in SUBSET Nat /\ IsFiniteSet(K) /\ Content(st) = Image(A)
    BY DEF Relived
  <1> HIDE DEF K, K1, x
  <1>3. /\ M \in SUBSET Nat /\ O \in SUBSET Nat /\ M \subseteq K /\ O \cup M = K
        /\ M \cup {x} = K1
    BY <1>1, <1>2
  <1>4. IsFiniteSet(M) /\ IsFiniteSet(O)
    BY <1>2, <1>3, FS_Subset
  <1>5. ASSUME NEW a \in O, NEW b \in M
        PROVE  a < b
    <2>1. a \in K /\ a \notin K1 /\ b \in K1 /\ a \in Nat /\ b \in Nat
      BY <1>1, <1>3
    <2> QED
      BY <1>1, <2>1
  <1>6. \A b \in M : b < x
    BY <1>1, <1>3
  <1> HIDE DEF M, O
  <1>7. PICK r0 : Ranked(r0, O, FALSE)
    BY <1>3, <1>4, RankedExists
  <1>8. PICK rm : Ranked(rm, M, FALSE)
    BY <1>3, <1>4, RankedExists
  <1>9. Lists(r0, O) /\ Lists(rm, M)
    BY <1>7, <1>8 DEF Ranked, Lists, Beyond
  <1>10. Lists(r0 \o rm, O \cup M)
    BY <1>5, <1>9, ListingConcat
  <1> DEFINE r == r0 \o rm
  <1> HIDE DEF r
  <1>11. Ranked(r, K, FALSE)
    <2>1. Lists(r, K)
      BY <1>3, <1>10 DEF r
    <2> QED
      BY <2>1 DEF Ranked, Lists, Beyond
  <1>12. Ranked(Append(rm, x), K1, FALSE)
    <2>1. \A y \in M : Beyond(x, y, FALSE)
      BY <1>6 DEF Beyond
    <2>2. Ranked(Append(rm, x), M \cup {x}, FALSE)
      BY <1>1, <1>8, <2>1, RankedMore
    <2> QED
      BY <1>3, <2>2
  <1>13. Replay(st, h, FALSE) = Images(B, r) /\ Replay(st1, h1, FALSE) = Images(B1, Append(rm, x))
    BY <1>11, <1>12 DEF Relived, K, K1
  <1>14. r0 \in Seq(Nat) /\ rm \in Seq(Nat) /\ \A i \in 1 .. Len(rm) : B1[rm[i]] = B[rm[i]]
    <2>1. r0 \in Seq(Nat) /\ rm \in Seq(Nat) /\ \A i \in 1 .. Len(rm) : rm[i] \in M
      BY <1>9 DEF Lists
    <2> QED
      BY <1>1, <1>3, <2>1
  <1> DEFINE a == Content(st)
  <1>15. a = Image(B1[x])
    BY <1>1, <1>2
  <1> HIDE DEF a
  <1>16. Remembers(Images(B, r), a, Images(B1, Append(rm, x)))
    BY <1>1, <1>14, <1>15, ImagesKept DEF r
  <1>17. Replay(st1, h1, TRUE) = <<>>
    BY <1>1, NothingRelived
  <1> QED
    BY <1>13, <1>16, <1>17 DEF a

\* The last of p becomes the present, and what was the present the last of f.
Retreats(p, a, f, p1, a1, f1) ==
    /\ p # <<>> /\ a1 = p[Len(p)]
    /\ p1 = SubSeq(p, 1, Len(p) - 1) /\ f1 = Append(f, a)

\* Undo moves back to the state the newest action began with.
LEMMA UndoMoves ==
    ASSUME NEW st, NEW h, NEW A, NEW B, NEW F, Relived(st, h, A, B, F),
           NEW x \in Numbers(h.undo), \A k \in Numbers(h.undo) : k <= x, F[x] = A,
           NEW st1, NEW h1, Relived(st1, h1, B[x], B, F),
           Numbers(h1.undo) = Numbers(h.undo) \ {x}, Numbers(h1.redo) = Numbers(h.redo) \cup {x}
    PROVE  Retreats(Replay(st, h, FALSE), Content(st), Replay(st, h, TRUE),
                    Replay(st1, h1, FALSE), Content(st1), Replay(st1, h1, TRUE))
  <1> DEFINE K == Numbers(h.undo)
             Q == Numbers(h.redo)
             M == K \ {x}
  <1>1. /\ K \in SUBSET Nat /\ IsFiniteSet(K) /\ Content(st) = Image(A)
        /\ Q \in SUBSET Nat /\ IsFiniteSet(Q) /\ \A k \in K, z \in Q : k < z
    BY DEF Relived
  <1>2. Content(st1) = Image(B[x])
    BY DEF Relived
  <1> HIDE DEF K, Q
  <1>3. x \in K /\ x \in Nat /\ \A k \in K : k <= x
    BY <1>1 DEF K
  <1>4. M \in SUBSET Nat /\ M \cup {x} = K /\ (\A y \in M : y < x) /\ \A y \in Q : x < y
    BY <1>1, <1>3
  <1>5. IsFiniteSet(M)
    BY <1>1, FS_Subset
  <1>6. M = Numbers(h1.undo) /\ Q \cup {x} = Numbers(h1.redo)
    BY DEF K, Q
  <1> HIDE DEF M
  <1>7. PICK r : Ranked(r, M, FALSE)
    BY <1>4, <1>5, RankedExists
  <1>8. PICK q : Ranked(q, Q, TRUE)
    BY <1>1, RankedExists
  <1>9. Ranked(Append(r, x), K, FALSE)
    <2>1. \A y \in M : Beyond(x, y, FALSE)
      BY <1>4 DEF Beyond
    <2>2. Ranked(Append(r, x), M \cup {x}, FALSE)
      BY <1>3, <1>7, <2>1, RankedMore
    <2> QED
      BY <1>4, <2>2
  <1>10. Ranked(Append(q, x), Q \cup {x}, TRUE)
    <2>1. \A y \in Q : Beyond(x, y, TRUE)
      BY <1>4 DEF Beyond
    <2> QED
      BY <1>3, <1>8, <2>1, RankedMore
  <1>11. /\ Replay(st, h, FALSE) = Images(B, Append(r, x)) /\ Replay(st, h, TRUE) = Images(F, q)
    BY <1>8, <1>9 DEF Relived, K, Q
  <1>12. /\ Replay(st1, h1, FALSE) = Images(B, r) /\ Replay(st1, h1, TRUE) = Images(F, Append(q, x))
    BY <1>6, <1>7, <1>10 DEF Relived
  <1>13. r \in Seq(Nat) /\ q \in Seq(Nat)
    BY <1>7, <1>8 DEF Ranked
  <1>14. /\ Images(B, Append(r, x)) # <<>>
         /\ Images(B, Append(r, x))[Len(Images(B, Append(r, x)))] = Image(B[x])
         /\ SubSeq(Images(B, Append(r, x)), 1, Len(Images(B, Append(r, x))) - 1) = Images(B, r)
    BY <1>3, <1>13, ImagesMore
  <1>15. Images(F, Append(q, x)) = Append(Images(F, q), Image(F[x]))
    BY <1>3, <1>13, ImagesMore
  <1> QED
    BY <1>1, <1>2, <1>11, <1>12, <1>14, <1>15 DEF Retreats

\* Redo moves forward to the state the oldest action ended with.
LEMMA RedoMoves ==
    ASSUME NEW st, NEW h, NEW A, NEW B, NEW F, Relived(st, h, A, B, F),
           NEW x \in Numbers(h.redo), \A k \in Numbers(h.redo) : x <= k, B[x] = A,
           NEW st1, NEW h1, Relived(st1, h1, F[x], B, F),
           Numbers(h1.redo) = Numbers(h.redo) \ {x}, Numbers(h1.undo) = Numbers(h.undo) \cup {x}
    PROVE  Retreats(Replay(st, h, TRUE), Content(st), Replay(st, h, FALSE),
                    Replay(st1, h1, TRUE), Content(st1), Replay(st1, h1, FALSE))
  <1> DEFINE K == Numbers(h.redo)
             Q == Numbers(h.undo)
             M == K \ {x}
  <1>1. /\ K \in SUBSET Nat /\ IsFiniteSet(K) /\ Content(st) = Image(A)
        /\ Q \in SUBSET Nat /\ IsFiniteSet(Q) /\ \A k \in Q, z \in K : k < z
    BY DEF Relived
  <1>2. Content(st1) = Image(F[x])
    BY DEF Relived
  <1> HIDE DEF K, Q
  <1>3. x \in K /\ x \in Nat /\ \A k \in K : x <= k
    BY <1>1 DEF K
  <1>4. M \in SUBSET Nat /\ M \cup {x} = K /\ (\A y \in M : x < y) /\ \A y \in Q : y < x
    BY <1>1, <1>3
  <1>5. IsFiniteSet(M)
    BY <1>1, FS_Subset
  <1>6. M = Numbers(h1.redo) /\ Q \cup {x} = Numbers(h1.undo)
    BY DEF K, Q
  <1> HIDE DEF M
  <1>7. PICK r : Ranked(r, M, TRUE)
    BY <1>4, <1>5, RankedExists
  <1>8. PICK q : Ranked(q, Q, FALSE)
    BY <1>1, RankedExists
  <1>9. Ranked(Append(r, x), K, TRUE)
    <2>1. \A y \in M : Beyond(x, y, TRUE)
      BY <1>4 DEF Beyond
    <2>2. Ranked(Append(r, x), M \cup {x}, TRUE)
      BY <1>3, <1>7, <2>1, RankedMore
    <2> QED
      BY <1>4, <2>2
  <1>10. Ranked(Append(q, x), Q \cup {x}, FALSE)
    <2>1. \A y \in Q : Beyond(x, y, FALSE)
      BY <1>4 DEF Beyond
    <2> QED
      BY <1>3, <1>8, <2>1, RankedMore
  <1>11. /\ Replay(st, h, TRUE) = Images(F, Append(r, x)) /\ Replay(st, h, FALSE) = Images(B, q)
    BY <1>8, <1>9 DEF Relived, K, Q
  <1>12. /\ Replay(st1, h1, TRUE) = Images(F, r) /\ Replay(st1, h1, FALSE) = Images(B, Append(q, x))
    BY <1>6, <1>7, <1>10 DEF Relived
  <1>13. r \in Seq(Nat) /\ q \in Seq(Nat)
    BY <1>7, <1>8 DEF Ranked
  <1>14. /\ Images(F, Append(r, x)) # <<>>
         /\ Images(F, Append(r, x))[Len(Images(F, Append(r, x)))] = Image(F[x])
         /\ SubSeq(Images(F, Append(r, x)), 1, Len(Images(F, Append(r, x))) - 1) = Images(F, r)
    BY <1>3, <1>13, ImagesMore
  <1>15. Images(B, Append(q, x)) = Append(Images(B, q), Image(B[x]))
    BY <1>3, <1>13, ImagesMore
  <1> QED
    BY <1>1, <1>2, <1>11, <1>12, <1>14, <1>15 DEF Retreats

\* What the deques tell, before and after a step.
LEMMA ToldRelived ==
    /\ \A A, B, F, W : Told(A, B, F, W) => /\ Relived(store, history, A, B, F)
                                           /\ StacksTyped(history, W) /\ Chronological(history)
    /\ \A A, B, F, W : Told(A, B, F, W)' => Relived(store', history', A, B, F)
  <1>1. ASSUME NEW A, NEW B, NEW F, NEW W, Told(A, B, F, W)
        PROVE  Relived(store, history, A, B, F) /\ StacksTyped(history, W) /\ Chronological(history)
    <2>1. Tells(store, history, clock, issued, session, A, B, F, W)
      BY <1>1 DEF Told
    <2> QED
      BY <2>1, TellsRelived DEF Tells
  <1>2. ASSUME NEW A, NEW B, NEW F, NEW W, Told(A, B, F, W)'
        PROVE  Relived(store', history', A, B, F)
    <2>1. Tells(store', history', clock', issued', session', A, B, F, W)
      BY <1>2 DEF Told
    <2> QED
      BY <2>1, TellsRelived
  <1> QED
    BY <1>1, <1>2

\* The linear history, and what it is made of.
LEMMA LinearIs ==
    /\ Replayed(FALSE) = Replay(store, history, FALSE)
    /\ Replayed(TRUE) = Replay(store, history, TRUE)
    /\ Replayed(FALSE)' = Replay(store', history', FALSE)
    /\ Replayed(TRUE)' = Replay(store', history', TRUE)
    /\ Content(store)' = Content(store')
  BY ReplayedIs, ReplayedNext

\* A command that is recorded is a step of the linear history.
LEMMA RecordingLinear ==
    ASSUME NEW A, NEW B, NEW F, NEW W, Told(A, B, F, W), Recording(A)
    PROVE  Linear!Command
  <1>1. PICK A1, B1, F1, W1 : Told(A1, B1, F1, W1)' /\ Grown(history, history', A, B, B1)
    BY RecordingTells
  <1>2. Relived(store, history, A, B, F) /\ Relived(store', history', A1, B1, F1)
    BY <1>1, ToldRelived
  <1>3. /\ Remembers(Replay(store, history, FALSE), Content(store), Replay(store', history', FALSE))
        /\ Replay(store', history', TRUE) = <<>>
    BY <1>1, <1>2, CommandMoves
  <1>4. /\ Remembers(Replayed(FALSE), Content(store), Replayed(FALSE)')
        /\ Replayed(TRUE)' = <<>>
    BY <1>3, LinearIs
  <1> QED
    BY <1>4 DEF Linear!Command, Remembers

\* One that is not recorded leaves the linear history alone.
LEMMA QuietLinear ==
    ASSUME NEW A, NEW B, NEW F, NEW W, Told(A, B, F, W), Told(A, B, F, W)', history' = history
    PROVE  /\ Replayed(FALSE)' = Replayed(FALSE) /\ Replayed(TRUE)' = Replayed(TRUE)
           /\ Content(store)' = Content(store)
  <1>1. Relived(store, history, A, B, F) /\ Relived(store', history, A, B, F)
    BY ToldRelived
  <1>2. PICK r : Ranked(r, Numbers(history.undo), FALSE)
    BY <1>1, RankedExists DEF Relived
  <1>3. PICK q : Ranked(q, Numbers(history.redo), TRUE)
    BY <1>1, RankedExists DEF Relived
  <1>4. /\ Replay(store, history, FALSE) = Images(B, r) /\ Replay(store', history, FALSE) = Images(B, r)
        /\ Replay(store, history, TRUE) = Images(F, q) /\ Replay(store', history, TRUE) = Images(F, q)
        /\ Content(store) = Image(A) /\ Content(store') = Image(A)
    BY <1>1, <1>2, <1>3 DEF Relived
  <1> QED
    BY <1>4, LinearIs

\* Undo is a step of the linear history.
LEMMA UndoLinear ==
    ASSUME NEW A, NEW B, NEW F, NEW W, Told(A, B, F, W), NEW t \in HistoryTracks, UndoEdit(t)
    PROVE  Linear!Undo
  <1>1. PICK k : /\ k = Last(history.undo[t]).sequence
                 /\ NewestUndo(history, t) /\ history' = Undone(history, t)
                 /\ F[k] = A /\ Told(B[k], B, F, W)'
    BY UndoStepTells
  <1>2. /\ Relived(store, history, A, B, F) /\ Relived(store', history', B[k], B, F)
        /\ StacksTyped(history, W) /\ Chronological(history) /\ t \in Tracks
    BY <1>1, ToldRelived, HistoryTracksAssumption
  <1>3. /\ k \in Numbers(history.undo) /\ \A y \in Numbers(history.undo) : y <= k
        /\ Numbers(history'.undo) = Numbers(history.undo) \ {k}
        /\ Numbers(history'.redo) = Numbers(history.redo) \cup {k}
    BY <1>1, <1>2, NewestNumber
  <1>4. Retreats(Replay(store, history, FALSE), Content(store), Replay(store, history, TRUE),
                 Replay(store', history', FALSE), Content(store'), Replay(store', history', TRUE))
    BY <1>1, <1>2, <1>3, UndoMoves
  <1>5. Retreats(Replayed(FALSE), Content(store), Replayed(TRUE),
                 Replayed(FALSE)', Content(store)', Replayed(TRUE)')
    BY <1>4, LinearIs
  <1> QED
    BY <1>5 DEF Retreats, Linear!Undo

\* So is redo.
LEMMA RedoLinear ==
    ASSUME NEW A, NEW B, NEW F, NEW W, Told(A, B, F, W), NEW t \in HistoryTracks, RedoEdit(t)
    PROVE  Linear!Redo
  <1>1. PICK k : /\ k = Last(history.redo[t]).sequence
                 /\ OldestRedo(history, t) /\ history' = Redone(history, t)
                 /\ B[k] = A /\ Told(F[k], B, F, W)'
    BY RedoStepTells
  <1>2. /\ Relived(store, history, A, B, F) /\ Relived(store', history', F[k], B, F)
        /\ StacksTyped(history, W) /\ Chronological(history) /\ t \in Tracks
    BY <1>1, ToldRelived, HistoryTracksAssumption
  <1>3. /\ k \in Numbers(history.redo) /\ \A y \in Numbers(history.redo) : k <= y
        /\ Numbers(history'.redo) = Numbers(history.redo) \ {k}
        /\ Numbers(history'.undo) = Numbers(history.undo) \cup {k}
    BY <1>1, <1>2, OldestNumber
  <1>4. Retreats(Replay(store, history, TRUE), Content(store), Replay(store, history, FALSE),
                 Replay(store', history', TRUE), Content(store'), Replay(store', history', FALSE))
    BY <1>1, <1>2, <1>3, RedoMoves
  <1>5. Retreats(Replayed(TRUE), Content(store), Replayed(FALSE),
                 Replayed(TRUE)', Content(store)', Replayed(FALSE)')
    BY <1>4, LinearIs
  <1> QED
    BY <1>5 DEF Retreats, Linear!Redo

\* Closing forgets, and opening changes nothing.
LEMMA CloseLinear ==
    ASSUME NEW A, NEW B, NEW F, NEW W, Told(A, B, F, W), Told(A, B, F, W)', Close
    PROVE  Linear!Close
  <1>1. Relived(store, history, A, B, F) /\ Relived(store', history', A, B, F)
    BY ToldRelived
  <1>2. history' = EmptyHistory
    BY DEF Close
  <1>3. Numbers(history'.undo) = {} /\ Numbers(history'.redo) = {}
    BY <1>2, NumbersNone DEF EmptyHistory, NoStacks
  <1>4. Replay(store', history', FALSE) = <<>> /\ Replay(store', history', TRUE) = <<>>
    BY <1>1, <1>3, NothingRelived
  <1>5. Content(store') = Content(store)
    BY <1>1 DEF Relived
  <1> QED
    BY <1>4, <1>5, LinearIs DEF Linear!Close

\* Every step is a step of the linear history, or none.
LEMMA NextLinear ==
    ASSUME Inv, [Next]_vars
    PROVE  [Linear!Next]_(<<Replayed(FALSE), Content(store), Replayed(TRUE)>>)
  <1>1. PICK A, B, F, W : Told(A, B, F, W)
    BY DEF Inv, Coherent, Told
  <1>2. ASSUME Told(A, B, F, W)', history' = history
        PROVE  UNCHANGED <<Replayed(FALSE), Content(store), Replayed(TRUE)>>
    BY <1>1, <1>2, QuietLinear
  <1>3. ASSUME NEW tick \in Ticks, Command(clock + tick)
        PROVE  Linear!Command \/ UNCHANGED <<Replayed(FALSE), Content(store), Replayed(TRUE)>>
    <2>1. Recording(A) \/ Repeating(A)
      BY <1>1, <1>3, TickRecords DEF Told, Tells, Held
    <2>2. ASSUME Repeating(A)
          PROVE  Told(A, B, F, W)' /\ history' = history
      BY <1>1, <2>2, RepeatingTells
    <2> QED
      BY <1>1, <1>2, <2>1, <2>2, RecordingLinear
  <1>4. ASSUME Close
        PROVE  Linear!Close
    BY <1>1, <1>4, CloseTells, CloseLinear
  <1>5. ASSUME Open
        PROVE  UNCHANGED <<Replayed(FALSE), Content(store), Replayed(TRUE)>>
    BY <1>1, <1>2, <1>5, OpenTells
  <1>6. ASSUME UNCHANGED vars
        PROVE  UNCHANGED <<Replayed(FALSE), Content(store), Replayed(TRUE)>>
    <2>1. Told(A, B, F, W)' /\ history' = history
      BY <1>1, <1>6 DEF Told, vars
    <2> QED
      BY <1>2, <2>1
  <1>7. ASSUME NEW t \in HistoryTracks
        PROVE  (UndoEdit(t) => Linear!Undo) /\ (RedoEdit(t) => Linear!Redo)
    BY <1>1, UndoLinear, RedoLinear
  <1> QED
    BY <1>3, <1>4, <1>5, <1>6, <1>7 DEF Next, Linear!Next

\* ADR-0022: the deques of every Date, every Page and the moves across Pages, each with its
\* partial snapshots, behave as one linear history of whole-Notebook states: undoing the
\* newest action of any deque leads to the very state the command began with, redoing to the
\* one it ended with, and a command forgets the redo branch and only the oldest of the past.
THEOREM HistoryIsLinear == Spec => RefinesLinearHistory
  <1>1. Init => Linear!Init
    <2> SUFFICES ASSUME Init PROVE Linear!Init
      OBVIOUS
    <2>1. Inv
      BY InitCoherent
    <2>2. PICK A, B, F, W : Told(A, B, F, W)
      BY <2>1 DEF Inv, Coherent, Told
    <2>3. Relived(store, history, A, B, F)
      BY <2>2, ToldRelived
    <2>4. Numbers(history.undo) = {} /\ Numbers(history.redo) = {}
      BY NumbersNone DEF Init, EmptyHistory, NoStacks
    <2>5. Replay(store, history, FALSE) = <<>> /\ Replay(store, history, TRUE) = <<>>
      BY <2>3, <2>4, NothingRelived
    <2> QED
      BY <2>5, LinearIs DEF Linear!Init
  <1>2. Inv /\ [Next]_vars => [Linear!Next]_(<<Replayed(FALSE), Content(store), Replayed(TRUE)>>)
    BY NextLinear
  <1> QED
    BY <1>1, <1>2, CoherentHolds, PTL DEF Spec, RefinesLinearHistory, Linear!Spec
-----------------------------------------------------------------------------
\* A set in a strict order, as InOrder lists it: the i-th element has i - 1 before it.

\* R is a strict order of all elements of S.
Orders(R, S) ==
    /\ \A x \in S : <<x, x>> \notin R
    /\ \A x, y, z \in S : <<x, y>> \in R /\ <<y, z>> \in R => <<x, z>> \in R
    /\ \A x, y \in S : x # y => <<x, y>> \in R \/ <<y, x>> \in R

\* The elements before x.
Ahead(R, S, x) == {y \in S : <<y, x>> \in R}
Places(R, S, q) ==
    /\ DOMAIN q = 1 .. Cardinality(S)
    /\ \A i \in 1 .. Cardinality(S) : q[i] \in S /\ Cardinality(Ahead(R, S, q[i])) = i - 1

\* q has every element of S once, in the order R.
Arranges(R, S, q) ==
    /\ q \in Seq(S) /\ Len(q) = Cardinality(S)
    /\ \A x \in S : \E i \in 1 .. Len(q) : q[i] = x
    /\ \A i, j \in 1 .. Len(q) : i < j <=> <<q[i], q[j]>> \in R

\* Later elements have more before them.
LEMMA AheadGrows ==
    ASSUME NEW S, IsFiniteSet(S), NEW R, Orders(R, S)
    PROVE  /\ Cardinality(S) \in Nat
           /\ \A x \in S : Cardinality(Ahead(R, S, x)) \in 0 .. (Cardinality(S) - 1)
           /\ \A x, y \in S : <<x, y>> \in R <=>
                 Cardinality(Ahead(R, S, x)) < Cardinality(Ahead(R, S, y))
  <1>1. Cardinality(S) \in Nat
    BY FS_CardinalityType
  <1>2. ASSUME NEW x \in S
        PROVE  /\ IsFiniteSet(Ahead(R, S, x)) /\ Cardinality(Ahead(R, S, x)) \in Nat
               /\ Cardinality(Ahead(R, S, x)) \in 0 .. (Cardinality(S) - 1)
    <2> DEFINE B == Ahead(R, S, x)
    <2>1. B \in SUBSET S /\ x \notin B
      BY DEF Ahead, Orders
    <2> HIDE DEF B
    <2>2. IsFiniteSet(B) /\ Cardinality(B) <= Cardinality(S) /\ Cardinality(S) # Cardinality(B)
      BY <2>1, FS_Subset
    <2>3. Cardinality(B) \in Nat
      BY <2>2, FS_CardinalityType
    <2>4. Cardinality(B) \in 0 .. (Cardinality(S) - 1)
      BY <1>1, <2>2, <2>3
    <2> QED
      BY <2>2, <2>3, <2>4 DEF B
  <1>3. ASSUME NEW x \in S, NEW y \in S, <<x, y>> \in R
        PROVE  Cardinality(Ahead(R, S, x)) < Cardinality(Ahead(R, S, y))
    <2> DEFINE B == Ahead(R, S, x)
               C == Ahead(R, S, y)
    <2>1. B \in SUBSET C /\ x \in C /\ x \notin B
      BY <1>3 DEF Ahead, Orders
    <2>2. IsFiniteSet(C) /\ Cardinality(B) \in Nat /\ Cardinality(C) \in Nat
      BY <1>2
    <2> HIDE DEF B, C
    <2>3. Cardinality(B) <= Cardinality(C) /\ Cardinality(C) # Cardinality(B)
      BY <2>1, <2>2, FS_Subset
    <2>4. Cardinality(B) < Cardinality(C)
      BY <2>2, <2>3
    <2> QED
      BY <2>4 DEF B, C
  <1>4. ASSUME NEW x \in S, NEW y \in S, ~(<<x, y>> \in R)
        PROVE  ~(Cardinality(Ahead(R, S, x)) < Cardinality(Ahead(R, S, y)))
    <2>1. CASE x = y
      BY <1>2, <2>1
    <2>2. CASE x # y
      <3>1. <<y, x>> \in R
        BY <1>4, <2>2 DEF Orders
      <3>2. Cardinality(Ahead(R, S, y)) < Cardinality(Ahead(R, S, x))
        BY <1>3, <3>1
      <3> QED
        BY <1>2, <3>2
    <2> QED
      BY <2>1, <2>2
  <1> QED
    BY <1>1, <1>2, <1>3, <1>4

\* For every place there is an element with so many before it.
LEMMA AheadFound ==
    ASSUME NEW S, IsFiniteSet(S), NEW R, Orders(R, S)
    PROVE  \A i \in 1 .. Cardinality(S) : \E x \in S : Cardinality(Ahead(R, S, x)) = i - 1
  <1> DEFINE n == Cardinality(S)
             f == [x \in S |-> Cardinality(Ahead(R, S, x)) + 1]
  <1>1. /\ n \in Nat
        /\ \A x \in S : Cardinality(Ahead(R, S, x)) \in 0 .. (n - 1)
        /\ \A x, y \in S : <<x, y>> \in R =>
              Cardinality(Ahead(R, S, x)) < Cardinality(Ahead(R, S, y))
    BY AheadGrows
  <1>2. f \in [S -> 1 .. n]
    <2>1. ASSUME NEW x \in S
          PROVE  f[x] \in 1 .. n
      <3>1. Cardinality(Ahead(R, S, x)) \in 0 .. (n - 1)
        BY <1>1
      <3> HIDE DEF n
      <3> QED
        BY <1>1, <3>1
    <2> QED
      BY <2>1
  <1>3. ASSUME NEW x \in S, NEW y \in S, f[x] = f[y]
        PROVE  x = y
    <2>1. Cardinality(Ahead(R, S, x)) = Cardinality(Ahead(R, S, y))
      BY <1>1, <1>3
    <2>2. ~(<<x, y>> \in R) /\ ~(<<y, x>> \in R)
      BY <1>1, <2>1
    <2> QED
      BY <2>2 DEF Orders
  <1>4. IsFiniteSet(1 .. n) /\ Cardinality(1 .. n) = n
    <2>1. IsFiniteSet(1 .. n) /\ Cardinality(1 .. n) = IF 1 > n THEN 0 ELSE n - 1 + 1
      BY <1>1, FS_Interval
    <2> HIDE DEF n
    <2> QED
      BY <1>1, <2>1
  <1> HIDE DEF f
  <1>5. f \in Injection(S, 1 .. n)
    BY <1>2, <1>3 DEF Injection, IsInjective
  <1>6. f \in Surjection(S, 1 .. n)
    BY <1>4, <1>5, FS_Injection DEF n
  <1>7. ASSUME NEW i \in 1 .. n
        PROVE  \E x \in S : Cardinality(Ahead(R, S, x)) = i - 1
    <2>1. PICK x \in S : f[x] = i
      BY <1>6 DEF Surjection
    <2>2. Cardinality(Ahead(R, S, x)) + 1 = i
      BY <2>1 DEF f
    <2> QED
      BY <1>1, <2>2
  <1> QED
    BY <1>7

\* A sequence with the elements at these places arranges them.
LEMMA PlacesArrange ==
    ASSUME NEW S, IsFiniteSet(S), NEW R, Orders(R, S), NEW q, Places(R, S, q), q = [i \in DOMAIN q |-> q[i]]
    PROVE  Arranges(R, S, q)
  <1> DEFINE n == Cardinality(S)
  <1>1. /\ n \in Nat
        /\ \A x \in S : Cardinality(Ahead(R, S, x)) \in 0 .. (n - 1)
        /\ \A x, y \in S : <<x, y>> \in R <=>
              Cardinality(Ahead(R, S, x)) < Cardinality(Ahead(R, S, y))
    BY AheadGrows
  <1>2. \A i \in 1 .. n : q[i] \in S /\ Cardinality(Ahead(R, S, q[i])) = i - 1
    BY DEF Places
  <1>3. q \in Seq(S) /\ Len(q) = n
    <2>1. q \in [1 .. n -> S]
      BY <1>2 DEF Places
    <2> HIDE DEF n
    <2> QED
      BY <1>1, <2>1
  <1> HIDE DEF n
  <1>4. ASSUME NEW x \in S
        PROVE  \E i \in 1 .. n : q[i] = x
    <2> DEFINE i == Cardinality(Ahead(R, S, x)) + 1
    <2>1. i \in 1 .. n /\ Cardinality(Ahead(R, S, x)) = i - 1
      BY <1>1
    <2>2. q[i] \in S /\ Cardinality(Ahead(R, S, q[i])) = i - 1
      BY <1>2, <2>1
    <2>3. ~(<<q[i], x>> \in R) /\ ~(<<x, q[i]>> \in R)
      BY <1>1, <2>1, <2>2
    <2>4. q[i] = x
      BY <2>2, <2>3 DEF Orders
    <2> QED
      BY <2>1, <2>4
  <1>5. ASSUME NEW i \in 1 .. n, NEW j \in 1 .. n
        PROVE  i < j <=> <<q[i], q[j]>> \in R
    <2>1. /\ q[i] \in S /\ Cardinality(Ahead(R, S, q[i])) = i - 1
          /\ q[j] \in S /\ Cardinality(Ahead(R, S, q[j])) = j - 1
      BY <1>2
    <2>2. <<q[i], q[j]>> \in R <=> i - 1 < j - 1
      BY <1>1, <2>1
    <2> QED
      BY <1>1, <2>2
  <1> QED
    BY <1>3, <1>4, <1>5 DEF Arranges, n
-----------------------------------------------------------------------------
\* Ranks along the paths of a walk.

\* Induction over the natural numbers, from all smaller ones.
LEMMA EarlierInduction ==
    ASSUME NEW I, \A m \in Nat : (\A b \in 0 .. (m - 1) : b \in I) => m \in I
    PROVE  \A m \in Nat : m \in I
  <1> SUFFICES ASSUME NEW k \in Nat, k \notin I
               PROVE  FALSE
    OBVIOUS
  <1> DEFINE N == {m \in Nat : m \notin I}
  <1>1. N \in SUBSET Nat /\ N # {}
    OBVIOUS
  <1>2. PICK x \in N : \A y \in N : x <= y
    <2> HIDE DEF N
    <2> QED
      BY <1>1, LeastNumber
  <1>3. \A b \in 0 .. (x - 1) : b \in I
    <2>1. \A b \in 0 .. (x - 1) : b \in Nat /\ ~(x <= b)
      OBVIOUS
    <2> QED
      BY <1>2, <2>1
  <1> QED
    BY <1>2, <1>3

\* x comes before y: it is a beginning of it, or is less where they first differ.
Goes(x, y) ==
    \/ Len(x) < Len(y) /\ \A i \in 1 .. Len(x) : x[i] = y[i]
    \/ \E k \in 1 .. Len(x) : k <= Len(y) /\ x[k] < y[k] /\ \A i \in 1 .. (k - 1) : x[i] = y[i]

\* Beginnings of sequences are equal when they have the same values.
LEMMA SameBeginning ==
    ASSUME NEW S, NEW x \in Seq(S), NEW y \in Seq(S), NEW k \in Nat, k <= Len(x), k <= Len(y)
    PROVE  SubSeq(x, 1, k) = SubSeq(y, 1, k) <=> \A i \in 1 .. k : x[i] = y[i]
  <1> DEFINE u == SubSeq(x, 1, k)
             v == SubSeq(y, 1, k)
  <1>1. /\ u \in Seq(S) /\ Len(u) = k /\ \A i \in 1 .. k : u[i] = x[i]
        /\ v \in Seq(S) /\ Len(v) = k /\ \A i \in 1 .. k : v[i] = y[i]
    OBVIOUS
  <1> HIDE DEF u, v
  <1>2. ASSUME \A i \in 1 .. k : x[i] = y[i]
        PROVE  u = v
    BY <1>1, <1>2, SeqEqual
  <1>3. ASSUME u = v
        PROVE  \A i \in 1 .. k : x[i] = y[i]
    BY <1>1, <1>3
  <1>4. u = v <=> \A i \in 1 .. k : x[i] = y[i]
    BY <1>2, <1>3
  <1> QED
    BY <1>4 DEF u, v

\* The bytewise order, value by value.
LEMMA PrecedesIs ==
    ASSUME NEW x \in Seq(Nat), NEW y \in Seq(Nat)
    PROVE  Precedes(x, y) <=> Goes(x, y)
  <1>1. Len(x) \in Nat /\ Len(y) \in Nat /\ DOMAIN x = 1 .. Len(x) /\ DOMAIN y = 1 .. Len(y)
    OBVIOUS
  <1>2. IsStrictPrefix(x, y) <=> Len(x) < Len(y) /\ \A i \in 1 .. Len(x) : x[i] = y[i]
    <2>1. Len(x) <= Len(y) =>
             (SubSeq(x, 1, Len(x)) = SubSeq(y, 1, Len(x)) <=> \A i \in 1 .. Len(x) : x[i] = y[i])
      BY <1>1, SameBeginning
    <2>2. Len(x) = Len(y) /\ (\A i \in 1 .. Len(x) : x[i] = y[i]) => x = y
      BY SeqEqual
    <2>3. IsStrictPrefix(x, y) <=> /\ Len(x) <= Len(y) /\ x # y
                                   /\ SubSeq(x, 1, Len(x)) = SubSeq(y, 1, Len(x))
      BY DEF IsStrictPrefix, IsPrefix
    <2>4. Len(x) < Len(y) => x # y
      BY <1>1
    <2> DEFINE same == SubSeq(x, 1, Len(x)) = SubSeq(y, 1, Len(x))
               agree == \A i \in 1 .. Len(x) : x[i] = y[i]
               a == Len(x)
               b == Len(y)
    <2>5. /\ a \in Nat /\ b \in Nat /\ (a <= b => (same <=> agree)) /\ (a = b /\ agree => x = y)
          /\ (IsStrictPrefix(x, y) <=> a <= b /\ x # y /\ same) /\ (a < b => x # y)
      BY <1>1, <2>1, <2>2, <2>3, <2>4
    <2> HIDE DEF same, agree, a, b
    <2>6. IsStrictPrefix(x, y) <=> a < b /\ agree
      BY <2>5
    <2> QED
      BY <2>6 DEF agree, a, b
  <1>3. ASSUME NEW k \in 1 .. Len(x), k <= Len(y)
        PROVE  SubSeq(x, 1, k - 1) = SubSeq(y, 1, k - 1) <=> \A i \in 1 .. (k - 1) : x[i] = y[i]
    <2>1. k - 1 \in Nat /\ k - 1 <= Len(x) /\ k - 1 <= Len(y)
      BY <1>1, <1>3
    <2> QED
      BY <2>1, SameBeginning
  <1>4. \A k : k \in DOMAIN x \cap DOMAIN y <=> k \in 1 .. Len(x) /\ k <= Len(y)
    BY <1>1
  <1> QED
    BY <1>2, <1>3, <1>4 DEF Precedes, Goes

\* Two sequences do not precede each other.
LEMMA GoesOneWay ==
    ASSUME NEW x \in Seq(Nat), NEW y \in Seq(Nat), Goes(x, y)
    PROVE  ~Goes(y, x)
  <1>1. Len(x) \in Nat /\ Len(y) \in Nat
    OBVIOUS
  <1>2. /\ \A i \in 1 .. Len(x) : x[i] \in Nat
        /\ \A i \in 1 .. Len(y) : y[i] \in Nat
    OBVIOUS
  <1> SUFFICES ASSUME Goes(y, x) PROVE FALSE
    OBVIOUS
  <1>3. CASE Len(x) < Len(y) /\ \A i \in 1 .. Len(x) : x[i] = y[i]
    <2>1. ~(Len(y) < Len(x))
      BY <1>1, <1>3
    <2>2. PICK k \in 1 .. Len(y) : k <= Len(x) /\ y[k] < x[k]
      BY <2>1 DEF Goes
    <2>3. k \in 1 .. Len(x)
      BY <1>1, <2>2
    <2> QED
      BY <1>2, <1>3, <2>2, <2>3
  <1>4. CASE \E k \in 1 .. Len(x) : k <= Len(y) /\ x[k] < y[k] /\ \A i \in 1 .. (k - 1) : x[i] = y[i]
    <2>1. PICK k \in 1 .. Len(x) : k <= Len(y) /\ x[k] < y[k] /\ \A i \in 1 .. (k - 1) : x[i] = y[i]
      BY <1>4
    <2>2. k \in 1 .. Len(y) /\ x[k] # y[k]
      BY <1>1, <1>2, <2>1
    <2>3. CASE \A i \in 1 .. Len(y) : y[i] = x[i]
      BY <2>2, <2>3
    <2>4. CASE \E j \in 1 .. Len(y) : j <= Len(x) /\ y[j] < x[j] /\ \A i \in 1 .. (j - 1) : y[i] = x[i]
      <3>1. PICK j \in 1 .. Len(y) : j <= Len(x) /\ y[j] < x[j] /\ \A i \in 1 .. (j - 1) : y[i] = x[i]
        BY <2>4
      <3>2. j \in 1 .. Len(x) /\ x[j] # y[j]
        BY <1>1, <1>2, <3>1
      <3>3. j = k
        <4>1. ~(j < k)
          <5>1. j < k => j \in 1 .. (k - 1)
            BY <1>1
          <5> QED
            BY <2>1, <3>2, <5>1
        <4>2. ~(k < j)
          <5>1. k < j => k \in 1 .. (j - 1)
            BY <1>1
          <5> QED
            BY <2>2, <3>1, <5>1
        <4> QED
          BY <4>1, <4>2
      <3> QED
        BY <1>2, <2>1, <2>2, <3>1, <3>2, <3>3
    <2> QED
      BY <2>3, <2>4 DEF Goes
  <1> QED
    BY <1>3, <1>4 DEF Goes

\* Q gives every position the ranks along the path to it: those of its parent and its own.
Descends(D, r, n, Q) ==
    /\ Q \in [0 .. n -> Seq(Nat)]
    /\ \A m \in 1 .. n : /\ Len(Q[m]) = Len(Q[D[m]]) + 1
                         /\ \A i \in 1 .. Len(Q[D[m]]) : Q[m][i] = Q[D[m]][i]
                         /\ Q[m][Len(Q[m])] = r[m]

\* Later siblings have greater ranks.
Climbs(D, r, n) ==
    /\ r \in [1 .. n -> Nat]
    /\ \A i, j \in 1 .. n : i < j /\ D[i] = D[j] => r[i] < r[j]

\* The position a is below c: a child b of c, at a or before it, is on its path.
Through(D, r, n, Q, c, a) ==
    \E b \in 1 .. n : /\ b <= a /\ D[b] = c
                      /\ Len(Q[c]) < Len(Q[a])
                      /\ \A i \in 1 .. Len(Q[c]) : Q[a][i] = Q[c][i]
                      /\ Q[a][Len(Q[c]) + 1] = r[b]

\* What comes after c and before a later child of c is below c.
LEMMA BetweenIsBelow ==
    ASSUME NEW n \in Nat, NEW D, Walk(D, n), NEW r, NEW Q, Descends(D, r, n, Q),
           NEW m \in 1 .. n
    PROVE  \A a \in 1 .. n : D[m] < a /\ a <= m => Through(D, r, n, Q, D[m], a)
  <1> DEFINE c == D[m]
             I == {a \in Nat : a \in 1 .. n /\ c < a /\ a <= m => Through(D, r, n, Q, c, a)}
  <1>1. /\ D \in [1 .. n -> Nat] /\ \A i \in 1 .. n : D[i] \in Nat /\ D[i] < i
        /\ \A i, j \in 1 .. n : D[i] < j /\ j <= i => D[i] <= D[j]
    BY DEF Walk
  <1>2. c \in Nat /\ c < m
    BY <1>1
  <1>3. /\ \A i \in 0 .. n : Q[i] \in Seq(Nat) /\ Len(Q[i]) \in Nat
        /\ \A i \in 1 .. n : /\ Len(Q[i]) = Len(Q[D[i]]) + 1
                             /\ \A l \in 1 .. Len(Q[D[i]]) : Q[i][l] = Q[D[i]][l]
                             /\ Q[i][Len(Q[i])] = r[i]
    BY DEF Descends
  <1> HIDE DEF c
  <1>4. ASSUME NEW a \in 1 .. n, c < a, a <= m, \A b \in 1 .. (a - 1) : b \in I
        PROVE  Through(D, r, n, Q, c, a)
    <2>1. D[a] \in Nat /\ D[a] < a /\ c <= D[a]
      BY <1>1, <1>2, <1>4 DEF c
    <2>2. c \in 0 .. n /\ D[a] \in 0 .. n
      BY <1>2, <2>1
    <2>3. /\ Len(Q[a]) = Len(Q[D[a]]) + 1 /\ Q[a][Len(Q[a])] = r[a]
          /\ \A l \in 1 .. Len(Q[D[a]]) : Q[a][l] = Q[D[a]][l]
          /\ Len(Q[c]) \in Nat /\ Len(Q[D[a]]) \in Nat
      BY <1>3, <2>2
    <2>4. CASE D[a] = c
      <3>1. a <= a /\ D[a] = c /\ Len(Q[c]) < Len(Q[a])
        BY <2>3, <2>4
      <3>2. \A i \in 1 .. Len(Q[c]) : Q[a][i] = Q[c][i]
        BY <2>3, <2>4
      <3>3. Q[a][Len(Q[c]) + 1] = r[a]
        BY <2>3, <2>4
      <3> QED
        BY <3>1, <3>2, <3>3 DEF Through
    <2>5. CASE D[a] # c
      <3>1. D[a] \in 1 .. (a - 1) /\ D[a] \in 1 .. n /\ c < D[a] /\ D[a] <= m
        BY <1>2, <1>4, <2>1, <2>2, <2>5
      <3>2. Through(D, r, n, Q, c, D[a])
        BY <1>4, <3>1
      <3>3. PICK b \in 1 .. n : /\ b <= D[a] /\ D[b] = c
                                /\ Len(Q[c]) < Len(Q[D[a]])
                                /\ \A i \in 1 .. Len(Q[c]) : Q[D[a]][i] = Q[c][i]
                                /\ Q[D[a]][Len(Q[c]) + 1] = r[b]
        BY <3>2 DEF Through
      <3>4. b <= a /\ Len(Q[c]) < Len(Q[a])
        BY <2>1, <2>3, <3>3
      <3>5. \A i \in 1 .. Len(Q[c]) : i \in 1 .. Len(Q[D[a]])
        BY <2>3, <3>3
      <3>6. \A i \in 1 .. Len(Q[c]) : Q[a][i] = Q[c][i]
        BY <2>3, <3>3, <3>5
      <3>7. Len(Q[c]) + 1 \in 1 .. Len(Q[D[a]])
        BY <2>3, <3>3
      <3>8. Q[a][Len(Q[c]) + 1] = r[b]
        BY <2>3, <3>3, <3>7
      <3> QED
        BY <3>3, <3>4, <3>6, <3>8 DEF Through
    <2> QED
      BY <2>4, <2>5
  <1>5. \A a \in Nat : (\A b \in 0 .. (a - 1) : b \in I) => a \in I
    <2> SUFFICES ASSUME NEW a \in Nat, \A b \in 0 .. (a - 1) : b \in I,
                        a \in 1 .. n, c < a, a <= m
                 PROVE  Through(D, r, n, Q, c, a)
      OBVIOUS
    <2>1. \A b \in 1 .. (a - 1) : b \in I
      OBVIOUS
    <2> HIDE DEF I
    <2> QED
      BY <1>4, <2>1
  <1>6. \A a \in Nat : a \in I
    <2> HIDE DEF I
    <2> QED
      BY <1>5, EarlierInduction
  <1> QED
    BY <1>6 DEF c

\* The ranks along the paths come in the order of the positions.
LEMMA PathsInOrder ==
    ASSUME NEW n \in Nat, NEW D, Walk(D, n), NEW r, Climbs(D, r, n), NEW Q, Descends(D, r, n, Q)
    PROVE  \A m \in 1 .. n : \A a \in 0 .. n : a < m => Goes(Q[a], Q[m])
  <1> DEFINE I == {m \in Nat : m \in 1 .. n => \A a \in 0 .. n : a < m => Goes(Q[a], Q[m])}
  <1>1. /\ D \in [1 .. n -> Nat] /\ \A i \in 1 .. n : D[i] \in Nat /\ D[i] < i
    BY DEF Walk
  <1>2. /\ \A i \in 0 .. n : Q[i] \in Seq(Nat) /\ Len(Q[i]) \in Nat
        /\ \A i \in 1 .. n : /\ Len(Q[i]) = Len(Q[D[i]]) + 1
                             /\ \A l \in 1 .. Len(Q[D[i]]) : Q[i][l] = Q[D[i]][l]
                             /\ Q[i][Len(Q[i])] = r[i]
    BY DEF Descends
  <1>3. ASSUME NEW m \in 1 .. n, \A b \in 1 .. (m - 1) : b \in I, NEW a \in 0 .. n, a < m
        PROVE  Goes(Q[a], Q[m])
    <2> DEFINE c == D[m]
    <2>1. c \in Nat /\ c < m /\ c \in 0 .. n
      BY <1>1
    <2>2. /\ Len(Q[m]) = Len(Q[c]) + 1 /\ Q[m][Len(Q[m])] = r[m]
          /\ \A l \in 1 .. Len(Q[c]) : Q[m][l] = Q[c][l]
          /\ Len(Q[c]) \in Nat /\ Len(Q[a]) \in Nat
      BY <1>2, <2>1
    <2>3. CASE a = c
      <3> HIDE DEF c
      <3>1. Len(Q[a]) < Len(Q[m]) /\ \A i \in 1 .. Len(Q[a]) : Q[a][i] = Q[m][i]
        BY <2>2, <2>3
      <3> QED
        BY <3>1 DEF Goes
    <2>4. CASE a < c
      <3>1. c \in 1 .. (m - 1) /\ c \in 1 .. n /\ c \in Nat
        BY <2>1, <2>4
      <3>2. Goes(Q[a], Q[c])
        BY <1>3, <2>4, <3>1
      <3> HIDE DEF c
      <3>3. CASE Len(Q[a]) < Len(Q[c]) /\ \A i \in 1 .. Len(Q[a]) : Q[a][i] = Q[c][i]
        <4>1. Len(Q[a]) < Len(Q[m]) /\ \A i \in 1 .. Len(Q[a]) : i \in 1 .. Len(Q[c])
          BY <2>2, <3>3
        <4>2. \A i \in 1 .. Len(Q[a]) : Q[a][i] = Q[m][i]
          BY <2>2, <3>3, <4>1
        <4> QED
          BY <4>1, <4>2 DEF Goes
      <3>4. CASE \E k \in 1 .. Len(Q[a]) : /\ k <= Len(Q[c]) /\ Q[a][k] < Q[c][k]
                                          /\ \A i \in 1 .. (k - 1) : Q[a][i] = Q[c][i]
        <4>1. PICK k \in 1 .. Len(Q[a]) : /\ k <= Len(Q[c]) /\ Q[a][k] < Q[c][k]
                                          /\ \A i \in 1 .. (k - 1) : Q[a][i] = Q[c][i]
          BY <3>4
        <4>2. k \in 1 .. Len(Q[c]) /\ k <= Len(Q[m]) /\ \A i \in 1 .. (k - 1) : i \in 1 .. Len(Q[c])
          BY <2>2, <4>1
        <4>3. Q[a][k] < Q[m][k] /\ \A i \in 1 .. (k - 1) : Q[a][i] = Q[m][i]
          BY <2>2, <4>1, <4>2
        <4> QED
          BY <4>2, <4>3 DEF Goes
      <3> QED
        BY <3>2, <3>3, <3>4 DEF Goes
    <2>5. CASE c < a
      <3>1. a \in 1 .. n /\ a <= m
        BY <1>3, <2>1, <2>5
      <3>2. Through(D, r, n, Q, c, a)
        BY <2>5, <3>1, BetweenIsBelow
      <3> HIDE DEF c
      <3>3. PICK b \in 1 .. n : /\ b <= a /\ D[b] = c
                                /\ Len(Q[c]) < Len(Q[a])
                                /\ \A i \in 1 .. Len(Q[c]) : Q[a][i] = Q[c][i]
                                /\ Q[a][Len(Q[c]) + 1] = r[b]
        BY <3>2 DEF Through
      <3>4. b < m /\ D[b] = D[m]
        BY <1>3, <3>1, <3>3 DEF c
      <3>5. r[b] < r[m]
        BY <3>4 DEF Climbs
      <3> DEFINE k == Len(Q[c]) + 1
      <3>6. k \in 1 .. Len(Q[a]) /\ k <= Len(Q[m]) /\ Q[a][k] < Q[m][k]
        BY <2>2, <3>3, <3>5
      <3>7. \A i \in 1 .. (k - 1) : Q[a][i] = Q[m][i]
        BY <2>2, <3>3
      <3> HIDE DEF k
      <3> QED
        BY <3>6, <3>7 DEF Goes
    <2> QED
      BY <1>3, <2>1, <2>3, <2>4, <2>5
  <1>4. \A m \in Nat : (\A b \in 0 .. (m - 1) : b \in I) => m \in I
    <2> SUFFICES ASSUME NEW m \in Nat, \A b \in 0 .. (m - 1) : b \in I, m \in 1 .. n,
                        NEW a \in 0 .. n, a < m
                 PROVE  Goes(Q[a], Q[m])
      OBVIOUS
    <2>1. \A b \in 1 .. (m - 1) : b \in I
      OBVIOUS
    <2> HIDE DEF I
    <2> QED
      BY <1>3, <2>1
  <1>5. \A m \in Nat : m \in I
    <2> HIDE DEF I
    <2> QED
      BY <1>4, EarlierInduction
  <1> QED
    BY <1>5
-----------------------------------------------------------------------------
\* The paths to the positions up to m of a walk, as sequences over T.
PathsTo(es, D, m, T, v) ==
    /\ v \in [0 .. m -> Seq(T)] /\ v[0] = <<>>
    /\ \A k \in 1 .. m : v[k] = Append(v[D[k]], es[k].id)

\* There are such paths.
LEMMA PathsToExist ==
    ASSUME NEW es, NEW n \in Nat, NEW D, Walk(D, n), NEW T, \A k \in 1 .. n : es[k].id \in T
    PROVE  \E v : PathsTo(es, D, n, T, v)
  <1> DEFINE I == {m \in Nat : m <= n => \E v : PathsTo(es, D, m, T, v)}
  <1>1. \A k \in 1 .. n : D[k] \in Nat /\ D[k] < k
    BY DEF Walk
  <1>2. 0 \in I
    <2> DEFINE v == [k \in 0 .. 0 |-> <<>>]
    <2>1. v \in [0 .. 0 -> Seq(T)] /\ v[0] = <<>>
      OBVIOUS
    <2> HIDE DEF v
    <2>2. PathsTo(es, D, 0, T, v)
      BY <2>1 DEF PathsTo
    <2> QED
      BY <2>2
  <1>3. ASSUME NEW m \in Nat, m \in I
        PROVE  m + 1 \in I
    <2> SUFFICES ASSUME m + 1 <= n
                 PROVE  \E v : PathsTo(es, D, m + 1, T, v)
      OBVIOUS
    <2>1. PICK v : PathsTo(es, D, m, T, v)
      BY <1>3
    <2>2. v \in [0 .. m -> Seq(T)] /\ v[0] = <<>> /\ \A k \in 1 .. m : v[k] = Append(v[D[k]], es[k].id)
      BY <2>1 DEF PathsTo
    <2>3. m + 1 \in 1 .. n /\ D[m + 1] \in 0 .. m /\ es[m + 1].id \in T
      BY <1>1
    <2> DEFINE x == Append(v[D[m + 1]], es[m + 1].id)
               w == [k \in 0 .. (m + 1) |-> IF k = m + 1 THEN x ELSE v[k]]
    <2>4. x \in Seq(T)
      BY <2>2, <2>3
    <2>5. w[m + 1] = x /\ \A k \in 0 .. m : w[k] = v[k]
      <3>1. m + 1 \in 0 .. (m + 1) /\ \A k \in 0 .. m : k \in 0 .. (m + 1) /\ k # m + 1
        OBVIOUS
      <3> HIDE DEF x
      <3> QED
        BY <3>1
    <2>6. w \in [0 .. (m + 1) -> Seq(T)]
      <3>1. \A k \in 0 .. (m + 1) : k # m + 1 => k \in 0 .. m
        OBVIOUS
      <3> HIDE DEF x
      <3>2. \A k \in 0 .. (m + 1) : (IF k = m + 1 THEN x ELSE v[k]) \in Seq(T)
        BY <2>2, <2>4, <3>1
      <3> QED
        BY <3>2
    <2> HIDE DEF w
    <2>7. ASSUME NEW k \in 1 .. (m + 1)
          PROVE  w[k] = Append(w[D[k]], es[k].id)
      <3>1. D[k] \in 0 .. m
        BY <1>1, <2>3
      <3>2. CASE k = m + 1
        BY <2>5, <3>1, <3>2
      <3>3. CASE k # m + 1
        <4>1. k \in 1 .. m /\ k \in 0 .. m
          BY <3>3
        <4> QED
          BY <2>2, <2>5, <3>1, <4>1
      <3> QED
        BY <3>2, <3>3
    <2>8. w[0] = <<>>
      <3>1. 0 \in 0 .. m
        OBVIOUS
      <3> QED
        BY <2>2, <2>5, <3>1
    <2>9. PathsTo(es, D, m + 1, T, w)
      BY <2>6, <2>7, <2>8 DEF PathsTo
    <2> QED
      BY <2>9
  <1>4. \A m \in Nat : m \in I
    <2> HIDE DEF I
    <2> QED
      BY <1>2, <1>3, IndexInduction
  <1> QED
    BY <1>4

\* How the path to a Block is found.
PathSteps(s, f) ==
    f = [b \in DOMAIN s.blocks |-> IF IsPage(s, b) THEN <<>> ELSE Append(f[s.byChild[b][1]], b)]

\* Where the entries of a Page are.
LEMMA EntryPlaces ==
    ASSUME NEW s, NEW A, NEW I, NEW U, Paged(A, I, U), Holds(s, A), NEW p \in DOMAIN A
    PROVE  LET es == A[p].entries
           IN  /\ Len(es) \in Nat /\ DOMAIN es = 1 .. Len(es) /\ Named(es) /\ \E D : Tree(es, D)
               /\ p \in DOMAIN s.blocks /\ IsPage(s, p)
               /\ \A i \in 1 .. Len(es) :
                     /\ es[i].id \in Ids(es) /\ es[i].id \in DOMAIN s.blocks
                     /\ IsEntry(s, es[i].id) /\ ~IsPage(s, es[i].id)
                     /\ s.byChild[es[i].id] = <<Container(p, es, i), Rank(es, i)>>
                     /\ s.blocks[es[i].id] = EntryBlock(es[i])
                     /\ PageOf(s, es[i].id) = p
  <1> DEFINE es == A[p].entries
  <1>1. /\ Len(es) \in Nat /\ DOMAIN es = 1 .. Len(es) /\ Named(es) /\ \E D : Tree(es, D)
        /\ Ids(es) = {es[j].id : j \in 1 .. Len(es)}
    <2>1. Outlined(A[p], p, I, U)
      BY PagedIs
    <2> QED
      BY <2>1, OutlinedIs
  <1>2. BlocksAre(s, A) /\ PlacesAre(s, A)
    BY DEF Holds
  <1>3. /\ EntryIds(s) = EntriesOf(A) /\ \A b : IsPage(s, b) <=> b \in DOMAIN A
    BY <1>2, HeldKinds
  <1>4. ASSUME NEW i \in 1 .. Len(es)
        PROVE  /\ es[i].id \in Ids(es) /\ es[i].id \in DOMAIN s.blocks
               /\ IsEntry(s, es[i].id) /\ ~IsPage(s, es[i].id)
               /\ s.byChild[es[i].id] = <<Container(p, es, i), Rank(es, i)>>
               /\ s.blocks[es[i].id] = EntryBlock(es[i])
               /\ PageOf(s, es[i].id) = p
    <2>1. es[i].id \in Ids(es) /\ es[i].id \in EntriesOf(A)
      BY <1>1, PagedIs
    <2>2. es[i].id \in EntryIds(s)
      BY <1>3, <2>1
    <2>3. IsEntry(s, es[i].id) /\ es[i].id \in DOMAIN s.blocks /\ ~IsPage(s, es[i].id)
      BY <2>2 DEF EntryIds, IsEntry, IsPage
    <2>4. PlacedAt(s, p, es, i)
      BY <1>2, HeldPlaces
    <2>5. s.blocks[es[i].id] = EntryBlock(es[i])
      BY <1>1, <1>2 DEF BlocksAre
    <2>6. PageOf(s, es[i].id) = p
      BY <2>1, PageOfIs
    <2> QED
      BY <2>1, <2>3, <2>4, <2>5, <2>6 DEF PlacedAt
  <1>5. p \in DOMAIN s.blocks /\ IsPage(s, p)
    BY <1>3 DEF IsPage
  <1> QED
    BY <1>1, <1>4, <1>5

\* The Blocks of a store are its Pages and their entries.
LEMMA BlockIsSomewhere ==
    ASSUME NEW s, NEW A, NEW I, NEW U, Paged(A, I, U), Holds(s, A), NEW b \in DOMAIN s.blocks
    PROVE  b \in DOMAIN A \/ \E p \in DOMAIN A : \E i \in 1 .. Len(A[p].entries) : b = A[p].entries[i].id
  <1>1. b \in DOMAIN A \/ b \in EntriesOf(A)
    BY DEF Holds, BlocksAre
  <1>2. ASSUME b \in EntriesOf(A)
        PROVE  \E p \in DOMAIN A : \E i \in 1 .. Len(A[p].entries) : b = A[p].entries[i].id
    <2>1. PICK p \in DOMAIN A : b \in Ids(A[p].entries)
      BY <1>2, PagedIs
    <2>2. Outlined(A[p], p, I, U)
      BY PagedIs
    <2>3. Ids(A[p].entries) = {A[p].entries[j].id : j \in 1 .. Len(A[p].entries)}
      BY <2>2, OutlinedIs
    <2> QED
      BY <2>1, <2>3
  <1> QED
    BY <1>1, <1>2

\* A function that computes every path from that of the container.
LEMMA PathStepsExist ==
    ASSUME NEW s, NEW A, NEW I, NEW U, Paged(A, I, U), Holds(s, A)
    PROVE  \E f : PathSteps(s, f)
  <1> DEFINE tree(p) == CHOOSE D : Tree(A[p].entries, D)
             v(p) == CHOOSE w : PathsTo(A[p].entries, tree(p), Len(A[p].entries), Ids(A[p].entries), w)
             way(p, b) == v(p)[PositionOf(A[p].entries, b)]
             f == [b \in DOMAIN s.blocks |->
                      IF IsPage(s, b) THEN <<>> ELSE way(PageOf(s, b), b)]
  <1>1. ASSUME NEW p \in DOMAIN A
        PROVE  /\ Tree(A[p].entries, tree(p))
               /\ PathsTo(A[p].entries, tree(p), Len(A[p].entries), Ids(A[p].entries), v(p))
    <2> DEFINE es == A[p].entries
    <2>1. Len(es) \in Nat /\ (\E D : Tree(es, D)) /\ \A i \in 1 .. Len(es) : es[i].id \in Ids(es)
      BY EntryPlaces
    <2>2. Tree(es, tree(p))
      BY <2>1
    <2> HIDE DEF es, tree
    <2>3. Walk(tree(p), Len(es))
      BY <2>2 DEF Tree
    <2>4. \E w : PathsTo(es, tree(p), Len(es), Ids(es), w)
      BY <2>1, <2>3, PathsToExist
    <2>5. PathsTo(es, tree(p), Len(es), Ids(es), v(p))
      BY <2>4 DEF es
    <2> QED
      BY <2>2, <2>5 DEF es
  <1> HIDE DEF tree, v
  <1>2. ASSUME NEW p \in DOMAIN A, NEW i \in 1 .. Len(A[p].entries)
        PROVE  f[A[p].entries[i].id] =
                   Append(f[Container(p, A[p].entries, i)], A[p].entries[i].id)
    <2> DEFINE es == A[p].entries
               D == tree(p)
    <2>1. /\ Len(es) \in Nat /\ DOMAIN es = 1 .. Len(es) /\ Named(es)
          /\ p \in DOMAIN s.blocks /\ IsPage(s, p)
          /\ \A j \in 1 .. Len(es) : /\ es[j].id \in DOMAIN s.blocks /\ ~IsPage(s, es[j].id)
                                     /\ PageOf(s, es[j].id) = p
      BY EntryPlaces
    <2>2. Tree(es, D) /\ PathsTo(es, D, Len(es), Ids(es), v(p))
      BY <1>1
    <2> HIDE DEF es, D
    <2>3. D[i] \in 0 .. (i - 1) /\ es[i].parent = IF D[i] = 0 THEN TopLevel ELSE es[D[i]].id
      BY <2>1, <2>2, ParentIs DEF es
    <2>4. /\ v(p)[0] = <<>>
          /\ v(p)[i] = Append(v(p)[D[i]], es[i].id)
      BY <2>2 DEF PathsTo, es
    <2>5. f[p] = <<>>
      BY <2>1
    <2>6. ASSUME NEW j \in 1 .. Len(es)
          PROVE  f[es[j].id] = v(p)[j]
      <3>1. PositionOf(es, es[j].id) = j
        BY <2>1, FoundAt
      <3>2. f[es[j].id] = way(p, es[j].id)
        BY <2>1
      <3> QED
        BY <3>1, <3>2 DEF es
    <2> HIDE DEF f
    <2>7. CASE D[i] = 0
      <3>1. Container(p, es, i) = p
        BY <2>3, <2>7 DEF Container
      <3>2. i \in 1 .. Len(es)
        BY DEF es
      <3> QED
        BY <2>4, <2>5, <2>6, <2>7, <3>1, <3>2 DEF es
    <2>8. CASE D[i] # 0
      <3>1. i \in 1 .. Len(es) /\ D[i] \in 1 .. Len(es)
        BY <2>1, <2>3, <2>8 DEF es
      <3>2. es[D[i]].id # TopLevel
        BY <2>1, <3>1 DEF Named
      <3>3. Container(p, es, i) = es[D[i]].id
        BY <2>3, <2>8, <3>2 DEF Container
      <3> QED
        BY <2>4, <2>6, <3>1, <3>3 DEF es
    <2> QED
      BY <2>7, <2>8
  <1>3. ASSUME NEW b \in DOMAIN s.blocks
        PROVE  f[b] = IF IsPage(s, b) THEN <<>> ELSE Append(f[s.byChild[b][1]], b)
    <2>1. CASE b \in DOMAIN A
      <3>1. IsPage(s, b)
        BY <2>1, EntryPlaces
      <3> QED
        BY <3>1
    <2>2. CASE \E p \in DOMAIN A : \E i \in 1 .. Len(A[p].entries) : b = A[p].entries[i].id
      <3>1. PICK p \in DOMAIN A : \E i \in 1 .. Len(A[p].entries) : b = A[p].entries[i].id
        BY <2>2
      <3>2. PICK i \in 1 .. Len(A[p].entries) : b = A[p].entries[i].id
        BY <3>1
      <3>3. ~IsPage(s, b) /\ s.byChild[b] = <<Container(p, A[p].entries, i), Rank(A[p].entries, i)>>
        BY <3>2, EntryPlaces
      <3>4. f[b] = Append(f[Container(p, A[p].entries, i)], b)
        BY <1>2, <3>2
      <3> HIDE DEF f
      <3> QED
        BY <3>3, <3>4
    <2> QED
      BY <2>1, <2>2, BlockIsSomewhere
  <1>4. f = [b \in DOMAIN s.blocks |-> f[b]]
    OBVIOUS
  <1> HIDE DEF f
  <1>5. PathSteps(s, f)
    BY <1>3, <1>4 DEF PathSteps
  <1> QED
    BY <1>5

\* The path to an entry is that to its container and the entry.
LEMMA PathIs ==
    ASSUME NEW s, NEW A, NEW I, NEW U, Paged(A, I, U), Holds(s, A), NEW p \in DOMAIN A
    PROVE  /\ Path(s, p) = <<>>
           /\ \A i \in 1 .. Len(A[p].entries) :
                 Path(s, A[p].entries[i].id) =
                     Append(Path(s, Container(p, A[p].entries, i)), A[p].entries[i].id)
  <1> DEFINE c == CHOOSE f : PathSteps(s, f)
  <1>1. PathSteps(s, c)
    BY PathStepsExist
  <1>2. \A b : Path(s, b) = c[b]
    BY DEF Path, PathSteps
  <1> HIDE DEF c
  <1>3. \A b \in DOMAIN s.blocks : c[b] = IF IsPage(s, b) THEN <<>> ELSE Append(c[s.byChild[b][1]], b)
    BY <1>1 DEF PathSteps
  <1>4. /\ p \in DOMAIN s.blocks /\ IsPage(s, p)
        /\ \A i \in 1 .. Len(A[p].entries) :
              /\ A[p].entries[i].id \in DOMAIN s.blocks /\ ~IsPage(s, A[p].entries[i].id)
              /\ s.byChild[A[p].entries[i].id] = <<Container(p, A[p].entries, i), Rank(A[p].entries, i)>>
    BY EntryPlaces
  <1>5. c[p] = <<>>
    BY <1>3, <1>4
  <1>6. ASSUME NEW i \in 1 .. Len(A[p].entries)
        PROVE  c[A[p].entries[i].id] = Append(c[Container(p, A[p].entries, i)], A[p].entries[i].id)
    <2> DEFINE b == A[p].entries[i].id
               k == Container(p, A[p].entries, i)
               h == Rank(A[p].entries, i)
    <2>1. b \in DOMAIN s.blocks /\ ~IsPage(s, b) /\ s.byChild[b] = <<k, h>>
      BY <1>4
    <2> HIDE DEF b, k, h
    <2>2. c[b] = Append(c[s.byChild[b][1]], b)
      BY <1>3, <2>1
    <2>3. s.byChild[b][1] = k
      BY <2>1
    <2>4. c[b] = Append(c[k], b)
      BY <2>2, <2>3
    <2> QED
      BY <2>4 DEF b, k
  <1> QED
    BY <1>2, <1>5, <1>6

\* The ranks along the paths of a Page.
Ways(s, es) == [m \in 0 .. Len(es) |-> IF m = 0 THEN <<>> ELSE Ranks(s, es[m].id)]
RanksOf(es) == [m \in 1 .. Len(es) |-> Rank(es, m)]

\* They are those of the container and the entry's own.
LEMMA WaysDescend ==
    ASSUME NEW s, NEW A, NEW I, NEW U, Paged(A, I, U), Holds(s, A), NEW p \in DOMAIN A,
           NEW D, Tree(A[p].entries, D)
    PROVE  Descends(D, RanksOf(A[p].entries), Len(A[p].entries), Ways(s, A[p].entries))
  <1> DEFINE es == A[p].entries
             n == Len(es)
             Q == Ways(s, es)
             r == RanksOf(es)
             P == [m \in 0 .. n |-> IF m = 0 THEN <<>> ELSE Path(s, es[m].id)]
             T == Ids(es)
  <1>1. /\ n \in Nat /\ DOMAIN es = 1 .. n /\ Named(es)
        /\ \A i \in 1 .. n :
              /\ es[i].id \in T /\ s.byChild[es[i].id] = <<Container(p, es, i), Rank(es, i)>>
    BY EntryPlaces
  <1>2. \A i \in 1 .. n : D[i] \in 0 .. (i - 1) /\ D[i] \in 0 .. n
                          /\ es[i].parent = IF D[i] = 0 THEN TopLevel ELSE es[D[i]].id
    BY <1>1, ParentIs
  <1>3. \A i \in 1 .. n : P[i] = Append(P[D[i]], es[i].id)
    <2> SUFFICES ASSUME NEW i \in 1 .. n
                 PROVE  P[i] = Append(P[D[i]], es[i].id)
      OBVIOUS
    <2>1. Path(s, p) = <<>> /\ Path(s, es[i].id) = Append(Path(s, Container(p, es, i)), es[i].id)
      BY PathIs
    <2>2. P[i] = Path(s, es[i].id)
      OBVIOUS
    <2>3. P[D[i]] = Path(s, Container(p, es, i))
      <3>1. CASE D[i] = 0
        <4>1. Container(p, es, i) = p
          BY <1>2, <3>1 DEF Container
        <4>2. P[0] = <<>>
          BY <1>1
        <4> QED
          BY <2>1, <3>1, <4>1, <4>2
      <3>2. CASE D[i] # 0
        <4>1. D[i] \in 1 .. n
          BY <1>1, <1>2, <3>2
        <4>2. es[D[i]].id # TopLevel
          BY <1>1, <4>1 DEF Named
        <4>3. Container(p, es, i) = es[D[i]].id
          BY <1>2, <3>2, <4>2 DEF Container
        <4>4. P[D[i]] = Path(s, es[D[i]].id)
          BY <1>2, <3>2
        <4> QED
          BY <4>3, <4>4
      <3> QED
        BY <3>1, <3>2
    <2> QED
      BY <2>1, <2>2, <2>3
  <1>4. P[0] = <<>>
    BY <1>1
  <1>5. \A m \in 0 .. n : P[m] \in Seq(T)
    <2> DEFINE J == {m \in Nat : m \in 0 .. n => P[m] \in Seq(T)}
    <2>1. ASSUME NEW m \in Nat, \A b \in 0 .. (m - 1) : b \in J
          PROVE  m \in J
      <3> SUFFICES ASSUME m \in 0 .. n
                   PROVE  P[m] \in Seq(T)
        OBVIOUS
      <3> HIDE DEF P
      <3>1. CASE m = 0
        <4>1. <<>> \in Seq(T)
          OBVIOUS
        <4> QED
          BY <1>4, <3>1, <4>1
      <3>2. CASE m # 0
        <4>1. m \in 1 .. n /\ D[m] \in 0 .. (m - 1) /\ D[m] \in 0 .. n
          BY <1>1, <1>2, <3>2
        <4>2. P[D[m]] \in Seq(T)
          BY <2>1, <4>1
        <4>3. P[m] = Append(P[D[m]], es[m].id) /\ es[m].id \in T
          BY <1>1, <1>3, <4>1
        <4> HIDE DEF T
        <4> QED
          BY <4>2, <4>3
      <3> QED
        BY <3>1, <3>2
    <2>2. \A m \in Nat : m \in J
      <3> HIDE DEF J
      <3> QED
        BY <2>1, EarlierInduction
    <2> HIDE DEF P
    <2> QED
      BY <1>1, <2>2
  <1>6. \A b \in T : s.byChild[b][2] \in Nat
    <2> SUFFICES ASSUME NEW b \in T
                 PROVE  s.byChild[b][2] \in Nat
      OBVIOUS
    <2>1. PICK i \in 1 .. n : b = es[i].id
      BY <1>1 DEF Ids
    <2> DEFINE k == Container(p, es, i)
               h == Rank(es, i)
    <2>2. h \in 1 .. n
      BY <1>1, RankGrows
    <2>3. s.byChild[b] = <<k, h>>
      BY <1>1, <2>1
    <2> HIDE DEF k, h, n
    <2> QED
      BY <1>1, <2>2, <2>3
  <1>7. \A m \in 1 .. n : Q[m] = [i \in DOMAIN P[m] |-> s.byChild[P[m][i]][2]]
    <2> SUFFICES ASSUME NEW m \in 1 .. n
                 PROVE  Q[m] = [i \in DOMAIN P[m] |-> s.byChild[P[m][i]][2]]
      OBVIOUS
    <2>1. m \in 0 .. n /\ m # 0
      BY <1>1
    <2>2. Q[m] = Ranks(s, es[m].id) /\ P[m] = Path(s, es[m].id)
      BY <2>1 DEF Ways
    <2> HIDE DEF P, Q, es
    <2> QED
      BY <2>2 DEF Ranks
  <1>8. Q[0] = <<>> /\ DOMAIN Q = 0 .. n /\ Q = [m \in 0 .. n |-> Q[m]]
    BY <1>1 DEF Ways
  <1>9. \A m \in 0 .. n : Q[m] \in Seq(Nat) /\ Len(Q[m]) = Len(P[m])
    <2> SUFFICES ASSUME NEW m \in 0 .. n
                 PROVE  Q[m] \in Seq(Nat) /\ Len(Q[m]) = Len(P[m])
      OBVIOUS
    <2> HIDE DEF P, Q
    <2>1. CASE m = 0
      BY <1>4, <1>8, <2>1
    <2>2. CASE m # 0
      <3> DEFINE w == P[m]
      <3>1. m \in 1 .. n /\ w \in Seq(T)
        BY <1>5, <2>2
      <3>2. Q[m] = [i \in DOMAIN w |-> s.byChild[w[i]][2]]
        BY <1>7, <3>1
      <3> HIDE DEF w, T
      <3>3. Len(w) \in Nat /\ DOMAIN w = 1 .. Len(w) /\ \A i \in 1 .. Len(w) : w[i] \in T
        BY <3>1
      <3>4. Q[m] = [i \in 1 .. Len(w) |-> s.byChild[w[i]][2]]
        BY <3>2, <3>3
      <3>5. \A i \in 1 .. Len(w) : s.byChild[w[i]][2] \in Nat
        BY <1>6, <3>3
      <3>6. Q[m] \in Seq(Nat) /\ Len(Q[m]) = Len(w)
        BY <3>3, <3>4, <3>5
      <3> QED
        BY <3>6 DEF w
    <2> QED
      BY <2>1, <2>2
  <1>10. \A m \in 0 .. n : \A i \in 1 .. Len(P[m]) : Q[m][i] = s.byChild[P[m][i]][2]
    <2> SUFFICES ASSUME NEW m \in 0 .. n, NEW i \in 1 .. Len(P[m])
                 PROVE  Q[m][i] = s.byChild[P[m][i]][2]
      OBVIOUS
    <2>1. P[m] \in Seq(T)
      BY <1>5
    <2> HIDE DEF P, Q, T
    <2>2. m # 0
      BY <1>4
    <2>3. m \in 1 .. n
      BY <1>1, <2>2
    <2>4. Q[m] = [l \in DOMAIN P[m] |-> s.byChild[P[m][l]][2]]
      BY <1>7, <2>3
    <2>5. i \in DOMAIN P[m]
      BY <2>1
    <2> QED
      BY <2>4, <2>5
  <1> HIDE DEF P, Q
  <1>11. ASSUME NEW m \in 1 .. n
         PROVE  /\ Len(Q[m]) = Len(Q[D[m]]) + 1
                /\ \A i \in 1 .. Len(Q[D[m]]) : Q[m][i] = Q[D[m]][i]
                /\ Q[m][Len(Q[m])] = r[m]
    <2> DEFINE w == P[D[m]]
               x == P[m]
    <2>1. /\ w \in Seq(T) /\ es[m].id \in T /\ x = Append(w, es[m].id)
          /\ D[m] \in 0 .. n /\ m \in 0 .. n
      BY <1>1, <1>2, <1>3, <1>5
    <2>2. Len(Q[m]) = Len(x) /\ Len(Q[D[m]]) = Len(w)
      BY <1>9, <2>1
    <2>3. /\ \A i \in 1 .. Len(x) : Q[m][i] = s.byChild[x[i]][2]
          /\ \A i \in 1 .. Len(w) : Q[D[m]][i] = s.byChild[w[i]][2]
      BY <1>10, <2>1
    <2> HIDE DEF w, x, T
    <2>4. /\ Len(w) \in Nat /\ Len(x) = Len(w) + 1 /\ x[Len(x)] = es[m].id
          /\ \A i \in 1 .. Len(w) : i \in 1 .. Len(x) /\ x[i] = w[i]
      BY <2>1
    <2>5. Len(x) \in 1 .. Len(x)
      BY <2>4
    <2>6. s.byChild[es[m].id][2] = Rank(es, m) /\ r[m] = Rank(es, m)
      <3> DEFINE k == Container(p, es, m)
                 h == Rank(es, m)
                 b == es[m].id
      <3>1. s.byChild[b] = <<k, h>>
        BY <1>1
      <3>2. r[m] = h
        BY DEF RanksOf
      <3> HIDE DEF k, h, b, r
      <3>3. s.byChild[b][2] = h
        BY <3>1
      <3> QED
        BY <3>2, <3>3 DEF b, h
    <2> HIDE DEF r
    <2>7. Q[m][Len(Q[m])] = r[m]
      BY <2>2, <2>3, <2>4, <2>5, <2>6
    <2>8. \A i \in 1 .. Len(Q[D[m]]) : Q[m][i] = Q[D[m]][i]
      BY <2>2, <2>3, <2>4
    <2> QED
      BY <2>2, <2>4, <2>7, <2>8
  <1>12. Q \in [0 .. n -> Seq(Nat)]
    BY <1>8, <1>9
  <1> QED
    BY <1>11, <1>12 DEF Descends, Q

\* On a Page the ranks along the paths come in the order of the outline.
LEMMA RanksInOrder ==
    ASSUME NEW s, NEW A, NEW I, NEW U, Paged(A, I, U), Holds(s, A), NEW p \in DOMAIN A,
           NEW i \in 1 .. Len(A[p].entries), NEW j \in 1 .. Len(A[p].entries)
    PROVE  Precedes(Ranks(s, A[p].entries[i].id), Ranks(s, A[p].entries[j].id)) <=> i < j
  <1> DEFINE es == A[p].entries
             n == Len(es)
             Q == Ways(s, es)
             r == RanksOf(es)
  <1>1. n \in Nat /\ \E D : Tree(es, D)
    BY EntryPlaces
  <1>2. PICK D : Tree(es, D)
    BY <1>1
  <1>3. Descends(D, r, n, Q) /\ Walk(D, n)
    BY <1>2, WaysDescend DEF Tree
  <1>4. Climbs(D, r, n)
    <2>1. ASSUME NEW a \in 1 .. n
          PROVE  Rank(es, a) \in Nat /\ es[a].parent = IF D[a] = 0 THEN TopLevel ELSE es[D[a]].id
      <3>1. Rank(es, a) \in 1 .. n
        BY <1>1, RankGrows
      <3>2. es[a].parent = IF D[a] = 0 THEN TopLevel ELSE es[D[a]].id
        BY <1>1, <1>2, ParentIs
      <3> HIDE DEF n
      <3> QED
        BY <3>1, <3>2
    <2>2. \A a \in 1 .. n : r[a] = Rank(es, a)
      BY DEF RanksOf
    <2>3. r \in [1 .. n -> Nat]
      BY <2>1 DEF RanksOf
    <2> HIDE DEF r, es
    <2>4. ASSUME NEW a \in 1 .. n, NEW b \in 1 .. n, a < b, D[a] = D[b]
          PROVE  r[a] < r[b]
      <3>1. es[a].parent = es[b].parent
        BY <2>1, <2>4
      <3>2. Rank(es, a) < Rank(es, b)
        BY <1>1, <2>4, <3>1, RankGrows
      <3> QED
        BY <2>2, <3>2
    <2> QED
      BY <2>3, <2>4 DEF Climbs
  <1> HIDE DEF Q, r
  <1>5. \A m \in 1 .. n : \A a \in 0 .. n : a < m => Goes(Q[a], Q[m])
    BY <1>1, <1>3, <1>4, PathsInOrder
  <1>6. Q[i] \in Seq(Nat) /\ Q[j] \in Seq(Nat)
    <2>1. i \in 0 .. n /\ j \in 0 .. n
      BY <1>1
    <2> QED
      BY <1>3, <2>1 DEF Descends
  <1>7. Q[i] = Ranks(s, es[i].id) /\ Q[j] = Ranks(s, es[j].id)
    BY DEF Q, Ways
  <1>8. Precedes(Q[i], Q[j]) <=> Goes(Q[i], Q[j])
    BY <1>6, PrecedesIs
  <1>9. i < j => Goes(Q[i], Q[j])
    BY <1>5
  <1>10. j < i => Goes(Q[j], Q[i])
    BY <1>5
  <1>11. ~(Goes(Q[i], Q[j]) /\ Goes(Q[j], Q[i]))
    BY <1>6, GoesOneWay
  <1>12. i = j => ~Goes(Q[i], Q[j])
    BY <1>11
  <1> QED
    BY <1>1, <1>7, <1>8, <1>9, <1>10, <1>11, <1>12
-----------------------------------------------------------------------------
\* Sources, Page by Page.

\* The time of the newest source on a Page, and the order of SourceOrder.
NewestOn(s, S, p) == Max({s.blocks[e].updated : e \in {d \in S : PageOf(s, d) = p}})
SourceBefore(s, S, a, b) ==
    CASE PageOf(s, a) = PageOf(s, b) -> Precedes(Ranks(s, a), Ranks(s, b))
      [] PageOf(s, a) # PageOf(s, b) /\ NewestOn(s, S, PageOf(s, a)) = NewestOn(s, S, PageOf(s, b)) ->
            PageOf(s, a) < PageOf(s, b)
      [] OTHER -> NewestOn(s, S, PageOf(s, a)) > NewestOn(s, S, PageOf(s, b))
Preceding(s, S) == {k \in S \X S : SourceBefore(s, S, k[1], k[2])}

\* The outlines of a store, as the databases have them.
Stocked(s, A, n, c) ==
    /\ n \in 0 .. MaxIds /\ c \in Nat
    /\ Paged(A, 1 .. n, 0 .. c) /\ Holds(s, A)

\* The place of an entry on its Page.
Seat(s, A, e) == PositionOf(A[PageOf(s, e)].entries, e)

\* Where a source is, and when it was updated.
LEMMA SeatIs ==
    ASSUME NEW s, NEW A, NEW n, NEW c, Stocked(s, A, n, c), NEW e \in EntryIds(s)
    PROVE  /\ PageOf(s, e) \in DOMAIN A /\ PageOf(s, e) \in Nat
           /\ Seat(s, A, e) \in 1 .. Len(A[PageOf(s, e)].entries) /\ Seat(s, A, e) \in Nat
           /\ e = A[PageOf(s, e)].entries[Seat(s, A, e)].id
           /\ s.blocks[e].updated \in 0 .. c /\ s.blocks[e].text \in Seq(STRING)
           /\ Seat(s, A, e) = PositionOf(LoadOutline(s, PageOf(s, e)).entries, e)
  <1>1. /\ n \in 0 .. MaxIds /\ c \in Nat /\ Paged(A, 1 .. n, 0 .. c) /\ Holds(s, A)
        /\ MaxIds \in Nat
    BY MaxIdsAssumption DEF Stocked
  <1>2. e \in DOMAIN s.blocks /\ ~IsPage(s, e)
    BY DEF EntryIds, IsEntry, IsPage
  <1>3. \A q \in DOMAIN A : IsPage(s, q)
    BY <1>1, EntryPlaces
  <1>4. PICK p \in DOMAIN A : \E i \in 1 .. Len(A[p].entries) : e = A[p].entries[i].id
    BY <1>1, <1>2, <1>3, BlockIsSomewhere
  <1> DEFINE es == A[p].entries
  <1>5. PICK i \in 1 .. Len(es) : e = es[i].id
    BY <1>4
  <1>6. /\ Len(es) \in Nat /\ DOMAIN es = 1 .. Len(es) /\ Named(es)
        /\ PageOf(s, e) = p /\ s.blocks[e] = EntryBlock(es[i])
    BY <1>1, <1>5, EntryPlaces
  <1>7. es[i] \in Entry(1 .. n, Seq(STRING), 0 .. c) /\ p \in 1 .. n
    <2>1. Outlined(A[p], p, 1 .. n, 0 .. c) /\ p \in 1 .. n
      BY <1>1, PagedIs
    <2> QED
      BY <2>1, OutlinedIs
  <1>8. s.blocks[e].updated \in 0 .. c /\ s.blocks[e].text \in Seq(STRING)
    <2>1. es[i].updated \in 0 .. c /\ es[i].text \in Seq(STRING)
      BY <1>7 DEF Entry
    <2> QED
      BY <1>6, <2>1 DEF EntryBlock
  <1>9. PositionOf(es, e) = i
    BY <1>5, <1>6, FoundAt
  <1>10. LoadOutline(s, p) = A[p]
    <2>1. World(A)
      BY <1>1, WorldIs
    <2> QED
      BY <1>1, <2>1, LoadedIs DEF World
  <1>11. p \in Nat /\ i \in Nat
    BY <1>1, <1>6, <1>7
  <1> HIDE DEF es
  <1> QED
    BY <1>5, <1>6, <1>8, <1>9, <1>10, <1>11 DEF Seat, es

\* The newest source on a Page that has one.
LEMMA NewestOnIs ==
    ASSUME NEW s, NEW A, NEW n, NEW c, Stocked(s, A, n, c), NEW S \in SUBSET EntryIds(s), NEW e \in S
    PROVE  NewestOn(s, S, PageOf(s, e)) \in Nat
  <1> DEFINE N == {s.blocks[b].updated : b \in {d \in S : PageOf(s, d) = PageOf(s, e)}}
  <1>1. c \in Nat
    BY DEF Stocked
  <1>2. \A d \in S : s.blocks[d].updated \in 0 .. c
    BY SeatIs
  <1>3. N \in SUBSET (0 .. c)
    BY <1>2
  <1>4. N # {}
    <2>1. e \in {d \in S : PageOf(s, d) = PageOf(s, e)}
      OBVIOUS
    <2> QED
      BY <2>1
  <1> HIDE DEF N
  <1>5. N \in SUBSET Nat /\ IsFiniteSet(N)
    <2>1. IsFiniteSet(0 .. c)
      <3>1. 0 \in Int /\ c \in Int
        BY ONLY <1>1
      <3> QED
        BY ONLY <3>1, FS_Interval
    <2>2. IsFiniteSet(N)
      BY ONLY <1>3, <2>1, FS_Subset
    <2>3. N \in SUBSET Nat
      BY ONLY <1>1, <1>3
    <2> QED
      BY <2>2, <2>3
  <1>6. Max(N) \in Nat
    BY <1>4, <1>5, GreatestOf
  <1> QED
    BY <1>6 DEF N, NewestOn

\* The order of the sources, in numbers.
LEMMA SourceBeforeIs ==
    ASSUME NEW s, NEW A, NEW n, NEW c, Stocked(s, A, n, c), NEW S \in SUBSET EntryIds(s),
           NEW a \in S, NEW b \in S
    PROVE  <<a, b>> \in Preceding(s, S) <=>
              IF PageOf(s, a) = PageOf(s, b) THEN Seat(s, A, a) < Seat(s, A, b)
              ELSE IF NewestOn(s, S, PageOf(s, a)) = NewestOn(s, S, PageOf(s, b))
                   THEN PageOf(s, a) < PageOf(s, b)
                   ELSE NewestOn(s, S, PageOf(s, a)) > NewestOn(s, S, PageOf(s, b))
  <1>1. Paged(A, 1 .. n, 0 .. c) /\ Holds(s, A)
    BY DEF Stocked
  <1>2. a \in EntryIds(s) /\ b \in EntryIds(s)
    OBVIOUS
  <1>3. <<a, b>> \in Preceding(s, S) <=> SourceBefore(s, S, a, b)
    BY DEF Preceding
  <1>4. PageOf(s, a) = PageOf(s, b) =>
            (Precedes(Ranks(s, a), Ranks(s, b)) <=> Seat(s, A, a) < Seat(s, A, b))
    <2> SUFFICES ASSUME PageOf(s, a) = PageOf(s, b)
                 PROVE  Precedes(Ranks(s, a), Ranks(s, b)) <=> Seat(s, A, a) < Seat(s, A, b)
      OBVIOUS
    <2> DEFINE p == PageOf(s, a)
               i == Seat(s, A, a)
               j == Seat(s, A, b)
    <2>1. /\ p \in DOMAIN A /\ i \in 1 .. Len(A[p].entries) /\ j \in 1 .. Len(A[p].entries)
          /\ a = A[p].entries[i].id /\ b = A[p].entries[j].id
      BY <1>2, SeatIs
    <2> HIDE DEF p, i, j
    <2>2. Precedes(Ranks(s, A[p].entries[i].id), Ranks(s, A[p].entries[j].id)) <=> i < j
      BY <1>1, <2>1, RanksInOrder
    <2> QED
      BY <2>1, <2>2 DEF i, j
  <1> QED
    BY <1>3, <1>4 DEF SourceBefore

\* It is a strict order of the sources.
LEMMA SourcesOrdered ==
    ASSUME NEW s, NEW A, NEW n, NEW c, Stocked(s, A, n, c), NEW S \in SUBSET EntryIds(s)
    PROVE  Orders(Preceding(s, S), S)
  <1> DEFINE R == Preceding(s, S)
             page(e) == PageOf(s, e)
             seat(e) == Seat(s, A, e)
             new(e) == NewestOn(s, S, page(e))
  <1>1. \A a, b \in S : <<a, b>> \in R <=>
              IF page(a) = page(b) THEN seat(a) < seat(b)
              ELSE IF new(a) = new(b) THEN page(a) < page(b) ELSE new(a) > new(b)
    BY SourceBeforeIs
  <1>2. \A e \in S : page(e) \in Nat /\ seat(e) \in Nat /\ new(e) \in Nat
    BY SeatIs, NewestOnIs
  <1>3. \A a, b \in S : page(a) = page(b) /\ seat(a) = seat(b) => a = b
    BY SeatIs
  <1>4. \A a, b \in S : page(a) = page(b) => new(a) = new(b)
    OBVIOUS
  <1> HIDE DEF R, page, seat, new
  <1>5. \A x \in S : <<x, x>> \notin R
    BY <1>1, <1>2
  <1>6. ASSUME NEW x \in S, NEW y \in S, NEW z \in S, <<x, y>> \in R, <<y, z>> \in R
        PROVE  <<x, z>> \in R
    BY <1>1, <1>2, <1>4, <1>6
  <1>7. ASSUME NEW x \in S, NEW y \in S, x # y
        PROVE  <<x, y>> \in R \/ <<y, x>> \in R
    BY <1>1, <1>2, <1>3, <1>7
  <1> QED
    BY <1>5, <1>6, <1>7 DEF Orders, R

\* Every Block has one of the identifiers handed out.
LEMMA BlocksNumbered ==
    ASSUME NEW s, NEW A, NEW n, NEW c, Stocked(s, A, n, c)
    PROVE  DOMAIN s.blocks \subseteq 1 .. n /\ n \in Nat /\ 0 \notin DOMAIN s.blocks
  <1>0. n \in Nat /\ Paged(A, 1 .. n, 0 .. c) /\ Holds(s, A)
    BY MaxIdsAssumption DEF Stocked
  <1>1. \A b \in DOMAIN A : b \in 1 .. n
    BY <1>0, PagedIs
  <1>2. \A p \in DOMAIN A : \A i \in 1 .. Len(A[p].entries) : A[p].entries[i].id \in 1 .. n
    <2> SUFFICES ASSUME NEW p \in DOMAIN A, NEW i \in 1 .. Len(A[p].entries)
                 PROVE  A[p].entries[i].id \in 1 .. n
      OBVIOUS
    <2>1. Outlined(A[p], p, 1 .. n, 0 .. c)
      BY <1>0, PagedIs
    <2>2. A[p].entries[i] \in Entry(1 .. n, Seq(STRING), 0 .. c)
      BY <2>1, OutlinedIs
    <2> QED
      BY <2>2 DEF Entry
  <1>3. ASSUME NEW b \in DOMAIN s.blocks
        PROVE  b \in 1 .. n
    <2>1. b \in DOMAIN A \/ \E p \in DOMAIN A : \E i \in 1 .. Len(A[p].entries) : b = A[p].entries[i].id
      BY <1>0, BlockIsSomewhere
    <2> QED
      BY <1>1, <1>2, <2>1
  <1>4. 0 \notin 1 .. n
    BY <1>0
  <1> QED
    BY <1>0, <1>3, <1>4

\* There are finitely many.
LEMMA SourcesFinite ==
    ASSUME NEW s, NEW A, NEW n, NEW c, Stocked(s, A, n, c), NEW S \in SUBSET DOMAIN s.blocks
    PROVE  IsFiniteSet(S) /\ Cardinality(S) \in Nat
  <1>1. n \in Nat /\ DOMAIN s.blocks \subseteq 1 .. n
    BY BlocksNumbered
  <1>2. IsFiniteSet(1 .. n)
    <2>1. 1 \in Int /\ n \in Int
      BY <1>1
    <2> QED
      BY <2>1, FS_Interval
  <1>4. S \in SUBSET (1 .. n)
    BY <1>1
  <1>5. IsFiniteSet(S)
    BY <1>2, <1>4, FS_Subset
  <1> QED
    BY <1>5, FS_CardinalityType

\* SourceOrder arranges the sources.
LEMMA SourceOrderArranges ==
    ASSUME NEW s, NEW A, NEW n, NEW c, Stocked(s, A, n, c), NEW S \in SUBSET EntryIds(s)
    PROVE  Arranges(Preceding(s, S), S, SourceOrder(s, S))
  <1> DEFINE R == Preceding(s, S)
             q == SourceOrder(s, S)
             k == Cardinality(S)
             at(i) == CHOOSE x \in S : Cardinality({y \in S : SourceBefore(s, S, y, x)}) = i - 1
  <1>1. q = [i \in 1 .. k |-> at(i)]
    BY DEF SourceOrder, InOrder, SourceBefore, NewestOn
  <1>2. IsFiniteSet(S) /\ k \in Nat
    <2>1. S \in SUBSET DOMAIN s.blocks
      BY DEF EntryIds
    <2> QED
      BY <2>1, SourcesFinite
  <1>3. Orders(R, S)
    BY SourcesOrdered
  <1>4. \A x \in S : {y \in S : SourceBefore(s, S, y, x)} = Ahead(R, S, x)
    BY DEF Ahead, Preceding
  <1>5. ASSUME NEW i \in 1 .. k
        PROVE  at(i) \in S /\ Cardinality(Ahead(R, S, at(i))) = i - 1
    <2>1. \E x \in S : Cardinality(Ahead(R, S, x)) = i - 1
      BY <1>2, <1>3, AheadFound
    <2>2. \E x \in S : Cardinality({y \in S : SourceBefore(s, S, y, x)}) = i - 1
      BY <1>4, <2>1
    <2>3. at(i) \in S /\ Cardinality({y \in S : SourceBefore(s, S, y, at(i))}) = i - 1
      BY <2>2
    <2> HIDE DEF at
    <2> QED
      BY <1>4, <2>3
  <1> HIDE DEF q, at
  <1>6. DOMAIN q = 1 .. k /\ \A i \in 1 .. k : q[i] = at(i)
    BY <1>1
  <1>7. q = [i \in DOMAIN q |-> q[i]]
    BY <1>1
  <1>8. Places(R, S, q)
    BY <1>5, <1>6 DEF Places
  <1> HIDE DEF R
  <1>9. Arranges(R, S, q)
    BY <1>2, <1>3, <1>7, <1>8, PlacesArrange
  <1> QED
    BY <1>9 DEF R, q

\* Sources so arranged are in the order ADR-0016 asks for, each once.
LEMMA ArrangedSources ==
    ASSUME NEW s, NEW A, NEW n, NEW c, Stocked(s, A, n, c), NEW S \in SUBSET EntryIds(s),
           NEW q, Arranges(Preceding(s, S), S, q)
    PROVE  Range(q) = S /\ IsDistinct(q) /\ InSourceOrder(s, q)
  <1> DEFINE R == Preceding(s, S)
             page(e) == PageOf(s, e)
             seat(e) == Seat(s, A, e)
             new(e) == NewestOn(s, S, page(e))
  <1>1. /\ DOMAIN q = 1 .. Len(q) /\ Len(q) \in Nat /\ \A i \in 1 .. Len(q) : q[i] \in S
        /\ \A x \in S : \E i \in 1 .. Len(q) : q[i] = x
        /\ \A i, j \in 1 .. Len(q) : i < j <=> <<q[i], q[j]>> \in R
    BY DEF Arranges
  <1>2. \A a, b \in S : <<a, b>> \in R <=>
              IF page(a) = page(b) THEN seat(a) < seat(b)
              ELSE IF new(a) = new(b) THEN page(a) < page(b) ELSE new(a) > new(b)
    BY SourceBeforeIs
  <1>3. \A e \in S : page(e) \in Nat /\ seat(e) \in Nat /\ new(e) \in Nat
    BY SeatIs, NewestOnIs
  <1>4. Range(q) = S
    BY <1>1 DEF Range
  <1>5. IsDistinct(q)
    <2> SUFFICES ASSUME NEW i \in 1 .. Len(q), NEW j \in 1 .. Len(q), q[i] = q[j]
                 PROVE  i = j
      BY <1>1 DEF IsDistinct
    <2> HIDE DEF R
    <2>1. i < j <=> <<q[i], q[j]>> \in R
      BY <1>1
    <2>2. j < i <=> <<q[j], q[i]>> \in R
      BY <1>1
    <2>3. i < j <=> j < i
      BY <2>1, <2>2
    <2> QED
      BY <1>1, <2>3
  <1>6. ASSUME NEW i \in 1 .. Len(q)
        PROVE  /\ PositionOf(LoadOutline(s, PageOf(s, q[i])).entries, q[i]) = seat(q[i])
               /\ Max({s.blocks[q[k]].updated :
                         k \in {j \in DOMAIN q : PageOf(s, q[j]) = PageOf(s, q[i])}}) = new(q[i])
    <2>1. q[i] \in EntryIds(s)
      BY <1>1
    <2>2. {s.blocks[q[k]].updated : k \in {j \in DOMAIN q : PageOf(s, q[j]) = PageOf(s, q[i])}}
              = {s.blocks[e].updated : e \in {d \in S : PageOf(s, d) = PageOf(s, q[i])}}
      <3> HIDE DEF R
      <3>1. \A k \in DOMAIN q : q[k] \in S
        BY <1>1
      <3>2. \A e \in S : \E k \in DOMAIN q : q[k] = e
        BY <1>1
      <3> QED
        BY ONLY <3>1, <3>2
    <2> QED
      BY <2>1, <2>2, SeatIs DEF NewestOn
  <1> HIDE DEF R, seat, new
  <1>7. InSourceOrder(s, q)
    <2> SUFFICES ASSUME NEW i \in DOMAIN q, NEW k \in DOMAIN q, i < k
                 PROVE  /\ page(q[i]) = page(q[k]) => /\ seat(q[i]) < seat(q[k])
                                                      /\ \A j \in i .. k : page(q[j]) = page(q[i])
                        /\ new(q[i]) >= new(q[k])
      <3> DEFINE place(i) == PositionOf(LoadOutline(s, PageOf(s, q[i])).entries, q[i])
                 newest(i) == Max({s.blocks[q[k]].updated :
                                     k \in {j \in DOMAIN q : PageOf(s, q[j]) = PageOf(s, q[i])}})
      <3>1. \A i \in DOMAIN q : place(i) = seat(q[i]) /\ newest(i) = new(q[i])
        BY <1>1, <1>6
      <3>2. InSourceOrder(s, q) <=>
                \A i, k \in DOMAIN q : i < k =>
                    /\ PageOf(s, q[i]) = PageOf(s, q[k]) =>
                          /\ place(i) < place(k)
                          /\ \A j \in i .. k : PageOf(s, q[j]) = PageOf(s, q[i])
                    /\ newest(i) >= newest(k)
        BY DEF InSourceOrder
      <3> HIDE DEF place, newest
      <3> QED
        BY <3>1, <3>2
    <2> HIDE DEF page
    <2>1. /\ i \in 1 .. Len(q) /\ k \in 1 .. Len(q) /\ q[i] \in S /\ q[k] \in S
          /\ <<q[i], q[k]>> \in R
      BY <1>1
    <2>2. \A a, b \in S : page(a) = page(b) => new(a) = new(b)
      BY DEF new
    <2>3. new(q[i]) >= new(q[k])
      BY <1>2, <1>3, <2>1, <2>2
    <2>4. ASSUME page(q[i]) = page(q[k]), NEW j \in i .. k
          PROVE  page(q[j]) = page(q[i])
      <3>1. j \in 1 .. Len(q) /\ q[j] \in S
        BY <1>1, <2>1
      <3>2. CASE j = i \/ j = k
        BY <2>4, <3>2
      <3>3. CASE j # i /\ j # k
        <4>1. i < j /\ j < k
          BY <1>1, <2>1, <3>3
        <4>2. <<q[i], q[j]>> \in R /\ <<q[j], q[k]>> \in R
          BY <1>1, <2>1, <3>1, <4>1
        <4> QED
          BY <1>2, <1>3, <2>1, <2>2, <2>4, <3>1, <4>2
      <3> QED
        BY <3>2, <3>3
    <2>5. page(q[i]) = page(q[k]) => seat(q[i]) < seat(q[k])
      BY <1>2, <2>1
    <2> QED
      BY <2>3, <2>4, <2>5
  <1> QED
    BY <1>4, <1>5, <1>7
-----------------------------------------------------------------------------
\* The databases rebuilt by a commit, and what the reads take from them.

\* The sources of a kind of key, and the whole answer, from the databases d.
Of(d, kind, target) == {k[3] : k \in {q \in d.sources : q[1] = kind /\ q[2] = target}}
Linking(s, d, target) ==
    (IF target \in NamedPages(s) THEN Of(d, "resolvedPage", target) ELSE {})
        \cup Of(d, "resolvedBlock", target)
Yielded(s, d, request) ==
    CASE request.kind = "linked" -> SourceOrder(s, Linking(s, d, request.target))
      [] request.kind = "preview" -> SourceOrder(s, Of(d, "unresolvedPage", request.target))
      [] request.kind = "query" ->
            Answer(s, d, Parsed(s.blocks[request.target].text), request.target)

\* The whole answer of a request, now and after a step.
LEMMA ListingIs ==
    ASSUME NEW request
    PROVE  /\ Listing(store, request) = Yielded(store, derived, request)
           /\ Listing(store, request)' = Yielded(store', derived', request)
  BY DEF Listing, LinkedReferences, PagePreviewSources, SourcesOf, Yielded, Linking, Of

\* A key made of two values and a source.
LEMMA KeyIs ==
    ASSUME NEW a, NEW b, NEW e, NEW k, k = Append(<<a, b>>, e)
    PROVE  k[1] = a /\ k[2] = b /\ k[3] = e
  <1> DEFINE S == {a, b, e}
             w == <<a, b>>
  <1>1. w \in Seq(S) /\ Len(w) = 2 /\ w[1] = a /\ w[2] = b /\ e \in S
    OBVIOUS
  <1>2. k = Append(w, e)
    OBVIOUS
  <1> HIDE DEF S, w
  <1>3. /\ \A i \in 1 .. 2 : k[i] = w[i]
        /\ k[3] = e
    BY <1>1, <1>2, AppendProperties
  <1> QED
    BY <1>1, <1>3

\* An entry is a source of a key through a link, or through a reference.
ByLink(s, e, kind, target) ==
    \E i \in PageLinks(s.blocks[e].text) :
        LET p == PageByName(s, s.blocks[e].text[i])
        IN  \/ p # 0 /\ kind = "resolvedPage" /\ target = p
            \/ p = 0 /\ kind = "unresolvedPage" /\ target = s.blocks[e].text[i]
ByReference(s, e, kind, target) ==
    \E i \in BlockReferences(s.blocks[e].text) :
        /\ target = References[s.blocks[e].text[i]]
        /\ kind = IF target \in DOMAIN s.blocks THEN "resolvedBlock" ELSE "missingBlock"

\* The sources that rebuildSemanticReferenceIndexes leaves for a key.
LEMMA SourcesAre ==
    ASSUME NEW s, NEW kind, NEW target
    PROVE  Of(Rebuilt(s), kind, target) =
              {e \in EntryIds(s) : ByLink(s, e, kind, target) \/ ByReference(s, e, kind, target)}
  <1> DEFINE X == Rebuilt(s).sources
             text(e) == s.blocks[e].text
  <1>1. X = UNION {{Append(LinkKey(link), e) : link \in ResolvedLinks(s, text(e))}
                      \cup {Append(BlockKey(s, References[text(e)[i]]), e) :
                               i \in BlockReferences(text(e))} : e \in EntryIds(s)}
    BY DEF Rebuilt
  <1>2. \A k : k \in X <=> \E e \in EntryIds(s) :
                 \/ \E link \in ResolvedLinks(s, text(e)) : k = Append(LinkKey(link), e)
                 \/ \E i \in BlockReferences(text(e)) : k = Append(BlockKey(s, References[text(e)[i]]), e)
    BY <1>1
  <1> HIDE DEF X
  <1>3. ASSUME NEW e \in EntryIds(s), NEW link \in ResolvedLinks(s, text(e))
        PROVE  /\ Append(LinkKey(link), e)[3] = e
               /\ Append(LinkKey(link), e)[1] = kind /\ Append(LinkKey(link), e)[2] = target <=>
                     \/ link.target # 0 /\ kind = "resolvedPage" /\ target = link.target
                     \/ link.target = 0 /\ kind = "unresolvedPage" /\ target = link.name
    <2>1. CASE link.target # 0
      <3>1. LinkKey(link) = <<"resolvedPage", link.target>>
        BY <2>1 DEF LinkKey
      <3> QED
        BY <2>1, <3>1, KeyIs
    <2>2. CASE link.target = 0
      <3>1. LinkKey(link) = <<"unresolvedPage", link.name>>
        BY <2>2 DEF LinkKey
      <3> QED
        BY <2>2, <3>1, KeyIs
    <2> QED
      BY <2>1, <2>2
  <1>4. ASSUME NEW e \in EntryIds(s), NEW b
        PROVE  /\ Append(BlockKey(s, b), e)[3] = e
               /\ Append(BlockKey(s, b), e)[1] = kind /\ Append(BlockKey(s, b), e)[2] = target <=>
                     /\ target = b
                     /\ kind = IF target \in DOMAIN s.blocks THEN "resolvedBlock" ELSE "missingBlock"
    <2>1. BlockKey(s, b) = <<IF b \in DOMAIN s.blocks THEN "resolvedBlock" ELSE "missingBlock", b>>
      BY DEF BlockKey
    <2> QED
      BY <2>1, KeyIs
  <1>5. ASSUME NEW e \in EntryIds(s)
        PROVE  (\E link \in ResolvedLinks(s, text(e)) :
                   \/ link.target # 0 /\ kind = "resolvedPage" /\ target = link.target
                   \/ link.target = 0 /\ kind = "unresolvedPage" /\ target = link.name)
               <=> ByLink(s, e, kind, target)
    <2> DEFINE t == s.blocks[e].text
               to(i) == [at |-> i, name |-> t[i], target |-> PageByName(s, t[i])]
    <2>1. ResolvedLinks(s, text(e)) = {to(i) : i \in PageLinks(t)}
      BY DEF ResolvedLinks
    <2>2. \A i : to(i).name = t[i] /\ to(i).target = PageByName(s, t[i])
      OBVIOUS
    <2>3. ByLink(s, e, kind, target) <=>
             \E i \in PageLinks(t) :
                 \/ PageByName(s, t[i]) # 0 /\ kind = "resolvedPage" /\ target = PageByName(s, t[i])
                 \/ PageByName(s, t[i]) = 0 /\ kind = "unresolvedPage" /\ target = t[i]
      BY DEF ByLink
    <2> HIDE DEF t, to, text
    <2> QED
      BY <2>1, <2>2, <2>3
  <1>6. ASSUME NEW e \in EntryIds(s)
        PROVE  (\E i \in BlockReferences(text(e)) :
                   /\ target = References[text(e)[i]]
                   /\ kind = IF target \in DOMAIN s.blocks THEN "resolvedBlock" ELSE "missingBlock")
               <=> ByReference(s, e, kind, target)
    BY DEF ByReference
  <1>7. ASSUME NEW e
        PROVE  e \in Of(Rebuilt(s), kind, target) <=>
                  \E k \in X : k[1] = kind /\ k[2] = target /\ e = k[3]
    BY DEF Of, X
  <1>8. ASSUME NEW e, e \in Of(Rebuilt(s), kind, target)
        PROVE  e \in EntryIds(s) /\ (ByLink(s, e, kind, target) \/ ByReference(s, e, kind, target))
    <2>1. PICK k \in X : k[1] = kind /\ k[2] = target /\ e = k[3]
      BY <1>7, <1>8
    <2>2. PICK f \in EntryIds(s) :
                 \/ \E link \in ResolvedLinks(s, text(f)) : k = Append(LinkKey(link), f)
                 \/ \E i \in BlockReferences(text(f)) : k = Append(BlockKey(s, References[text(f)[i]]), f)
      BY <1>2, <2>1
    <2> HIDE DEF text
    <2>3. CASE \E link \in ResolvedLinks(s, text(f)) : k = Append(LinkKey(link), f)
      <3>1. PICK link \in ResolvedLinks(s, text(f)) : k = Append(LinkKey(link), f)
        BY <2>3
      <3>2. e = f /\ \/ link.target # 0 /\ kind = "resolvedPage" /\ target = link.target
                     \/ link.target = 0 /\ kind = "unresolvedPage" /\ target = link.name
        BY <1>3, <2>1, <3>1
      <3> QED
        BY <1>5, <3>2
    <2>4. CASE \E i \in BlockReferences(text(f)) : k = Append(BlockKey(s, References[text(f)[i]]), f)
      <3>1. PICK i \in BlockReferences(text(f)) : k = Append(BlockKey(s, References[text(f)[i]]), f)
        BY <2>4
      <3>2. e = f /\ target = References[text(f)[i]]
            /\ kind = IF target \in DOMAIN s.blocks THEN "resolvedBlock" ELSE "missingBlock"
        BY <1>4, <2>1, <3>1
      <3> QED
        BY <1>6, <3>2
    <2> QED
      BY <2>2, <2>3, <2>4
  <1>9. ASSUME NEW e \in EntryIds(s), ByLink(s, e, kind, target) \/ ByReference(s, e, kind, target)
        PROVE  e \in Of(Rebuilt(s), kind, target)
    <2> HIDE DEF text
    <2>1. CASE ByLink(s, e, kind, target)
      <3>1. PICK link \in ResolvedLinks(s, text(e)) :
                \/ link.target # 0 /\ kind = "resolvedPage" /\ target = link.target
                \/ link.target = 0 /\ kind = "unresolvedPage" /\ target = link.name
        BY <1>5, <2>1
      <3> DEFINE k == Append(LinkKey(link), e)
      <3>2. k \in X
        BY <1>2
      <3>3. k[1] = kind /\ k[2] = target /\ k[3] = e
        BY <1>3, <3>1
      <3> QED
        BY <1>7, <3>2, <3>3
    <2>2. CASE ByReference(s, e, kind, target)
      <3>1. PICK i \in BlockReferences(text(e)) :
                /\ target = References[text(e)[i]]
                /\ kind = IF target \in DOMAIN s.blocks THEN "resolvedBlock" ELSE "missingBlock"
        BY <1>6, <2>2
      <3> DEFINE k == Append(BlockKey(s, References[text(e)[i]]), e)
      <3>2. k \in X
        BY <1>2
      <3>3. k[1] = kind /\ k[2] = target /\ k[3] = e
        BY <1>4, <3>1
      <3> QED
        BY <1>7, <3>2, <3>3
    <2> QED
      BY <1>9, <2>1, <2>2
  <1> QED
    BY <1>8, <1>9

\* The look-up by name finds the Page that bears it.
LEMMA PageByNameIs ==
    ASSUME NEW s, PagesIndexed(s), NEW name, NEW p, p # 0
    PROVE  PageByName(s, name) = p <=> p \in NamedPages(s) /\ s.blocks[p].key = name
  <1> DEFINE k == <<"named", name>>
  <1>1. ASSUME PageByName(s, name) = p
        PROVE  p \in NamedPages(s) /\ s.blocks[p].key = name
    <2>1. k \in DOMAIN s.pages /\ s.pages[k] = p
      BY <1>1 DEF PageByName
    <2>2. IsPage(s, p) /\ PageKey(s.blocks[p]) = k
      BY <2>1 DEF PagesIndexed
    <2>3. s.blocks[p].kind = "named" /\ s.blocks[p].key = name
      BY <2>2 DEF PageKey
    <2> QED
      BY <2>2, <2>3 DEF NamedPages, PageIds, IsPage
  <1>2. ASSUME p \in NamedPages(s), s.blocks[p].key = name
        PROVE  PageByName(s, name) = p
    <2>1. p \in PageIds(s) /\ PageKey(s.blocks[p]) = k
      BY <1>2 DEF NamedPages, PageKey
    <2>2. k \in DOMAIN s.pages /\ s.pages[k] = p
      BY <2>1 DEF PagesIndexed
    <2> QED
      BY <2>2 DEF PageByName
  <1> QED
    BY <1>1, <1>2

\* The Entries that mention a Block, by its name or by reference.
Mentioning(s, target) ==
    {e \in EntryIds(s) : \E i \in DOMAIN s.blocks[e].text : MentionsBlock(s, e, i, target)}
Previewing(s, name) ==
    {e \in EntryIds(s) : \E i \in PageLinks(s.blocks[e].text) : s.blocks[e].text[i] = name}

\* The sources of a Block are the Entries that mention it.
LEMMA LinkingIs ==
    ASSUME NEW s, PagesIndexed(s), NEW target \in DOMAIN s.blocks, target # 0
    PROVE  Linking(s, Rebuilt(s), target) = Mentioning(s, target)
  <1>1. \A e : ~ByLink(s, e, "resolvedBlock", target) /\ ~ByReference(s, e, "resolvedPage", target)
    BY DEF ByLink, ByReference
  <1>2. ASSUME NEW e
        PROVE  /\ ByLink(s, e, "resolvedPage", target) <=>
                     \E i \in PageLinks(s.blocks[e].text) :
                         target \in NamedPages(s) /\ s.blocks[target].key = s.blocks[e].text[i]
               /\ ByReference(s, e, "resolvedBlock", target) <=>
                     \E i \in BlockReferences(s.blocks[e].text) : References[s.blocks[e].text[i]] = target
    <2>1. ByLink(s, e, "resolvedPage", target) <=>
             \E i \in PageLinks(s.blocks[e].text) : PageByName(s, s.blocks[e].text[i]) = target
      BY DEF ByLink
    <2>2. ByReference(s, e, "resolvedBlock", target) <=>
             \E i \in BlockReferences(s.blocks[e].text) : References[s.blocks[e].text[i]] = target
      BY DEF ByReference
    <2> QED
      BY <2>1, <2>2, PageByNameIs
  <1>3. /\ Of(Rebuilt(s), "resolvedPage", target) = {e \in EntryIds(s) : ByLink(s, e, "resolvedPage", target)}
        /\ Of(Rebuilt(s), "resolvedBlock", target) =
              {e \in EntryIds(s) : ByReference(s, e, "resolvedBlock", target)}
    BY <1>1, SourcesAre
  <1>4. ASSUME NEW e \in EntryIds(s)
        PROVE  (\E i \in DOMAIN s.blocks[e].text : MentionsBlock(s, e, i, target)) <=>
                  ByLink(s, e, "resolvedPage", target) \/ ByReference(s, e, "resolvedBlock", target)
    <2>1. /\ \A i \in PageLinks(s.blocks[e].text) : i \in DOMAIN s.blocks[e].text
          /\ \A i \in BlockReferences(s.blocks[e].text) : i \in DOMAIN s.blocks[e].text
      BY DEF PageLinks, BlockReferences
    <2> QED
      BY <1>2, <2>1 DEF MentionsBlock
  <1>5. target \notin NamedPages(s) => \A e : ~ByLink(s, e, "resolvedPage", target)
    BY <1>2
  <1> QED
    BY <1>3, <1>4, <1>5 DEF Linking, Mentioning

\* The sources of a name that has no Page are the Entries that link to it.
LEMMA PreviewingIs ==
    ASSUME NEW s, NEW name, PageByName(s, name) = 0
    PROVE  Of(Rebuilt(s), "unresolvedPage", name) = Previewing(s, name)
  <1>1. \A e : ~ByReference(s, e, "unresolvedPage", name)
    BY DEF ByReference
  <1>2. \A e : ByLink(s, e, "unresolvedPage", name) <=>
                  \E i \in PageLinks(s.blocks[e].text) : s.blocks[e].text[i] = name
    BY DEF ByLink
  <1> QED
    BY <1>1, <1>2, SourcesAre DEF Previewing

\* A function on 1 .. k is a sequence of its values.
LEMMA ListIsSeq ==
    ASSUME NEW k \in Nat, NEW q, DOMAIN q = 1 .. k, q = [i \in DOMAIN q |-> q[i]]
    PROVE  q \in Seq(Range(q)) /\ Len(q) = k
  <1>1. \A i \in 1 .. k : q[i] \in Range(q)
    BY DEF Range
  <1>2. q \in [1 .. k -> Range(q)]
    BY <1>1
  <1> QED
    BY <1>2

\* What InOrder lists is a sequence: of positions, or of the rows of an answer.
LEMMA PositionsInOrder ==
    ASSUME NEW S, Cardinality(S) \in Nat
    PROVE  \E T : InOrder(S, <) \in Seq(T) /\ Len(InOrder(S, <)) = Cardinality(S)
  <1> DEFINE q == InOrder(S, <)
             h(i) == CHOOSE x \in S : Cardinality({y \in S : y < x}) = i - 1
  <1>0. q = [i \in 1 .. Cardinality(S) |-> h(i)]
    BY Zenon DEF InOrder
  <1> HIDE DEF q, h
  <1>1. DOMAIN q = 1 .. Cardinality(S) /\ q = [i \in DOMAIN q |-> q[i]]
    BY <1>0
  <1>2. q \in Seq(Range(q)) /\ Len(q) = Cardinality(S)
    BY <1>1, ListIsSeq
  <1> QED
    BY <1>2 DEF q
-----------------------------------------------------------------------------
\* Batches of an answer.

\* The first entries of an answer, up to an offset.
PartOf(all, offset, got) == offset \in 0 .. Len(all) /\ got = SubSeq(all, 1, offset)

\* The next batch of an answer continues the part of it that was given.
LEMMA BatchIs ==
    ASSUME NEW T, NEW all \in Seq(T), NEW offset, NEW got, PartOf(all, offset, got),
           NEW size \in Nat \ {0}, NEW b, b = OffsetBatch(all, offset, size)
    PROVE  PartOf(all, b.next, got \o b.items) /\ (~b.more => b.next = Len(all))
  <1> DEFINE end == Min({Len(all), offset + size})
  <1>1. offset \in 0 .. Len(all) /\ got = SubSeq(all, 1, offset) /\ Len(all) \in Nat
    BY DEF PartOf
  <1>2. end \in {Len(all), offset + size}
    <2>1. {Len(all), offset + size} \in SUBSET Nat /\ {Len(all), offset + size} # {}
      BY <1>1
    <2> QED
      BY <2>1, MinIsIn
  <1>3. end <= Len(all)
    <2> DEFINE N == {Len(all), offset + size}
    <2>1. N \in SUBSET Nat /\ N # {} /\ Len(all) \in N
      BY <1>1
    <2>2. \E x \in N : \A y \in N : x <= y
      BY <2>1, LeastNumber
    <2>3. \A y \in N : Min(N) <= y
      BY <2>2 DEF Min
    <2> QED
      BY <2>1, <2>3
  <1>4. b.items = SubSeq(all, offset + 1, end) /\ b.more = (end < Len(all)) /\ b.next = end
    BY DEF OffsetBatch
  <1> HIDE DEF end
  <1>5. offset \in Nat /\ end \in Nat /\ offset <= end /\ end \in 0 .. Len(all)
    BY <1>1, <1>2, <1>3
  <1>6. SubSeq(all, 1, offset) \o SubSeq(all, offset + 1, end) = SubSeq(all, 1, end)
    <2>1. /\ \A i \in 1 .. offset : all[i] \in T
          /\ \A i \in (offset + 1) .. end : all[i] \in T
          /\ \A i \in 1 .. end : all[i] \in T
      BY <1>1, <1>5
    <2> DEFINE u == SubSeq(all, 1, offset)
               v == SubSeq(all, offset + 1, end)
               w == SubSeq(all, 1, end)
    <2>2. /\ u \in Seq(T) /\ Len(u) = offset /\ \A i \in 1 .. offset : u[i] = all[i]
          /\ w \in Seq(T) /\ Len(w) = end /\ \A i \in 1 .. end : w[i] = all[i]
      <3>1. offset \in Int /\ end \in Int /\ 1 \in Int
        BY <1>1, <1>5
      <3>2. /\ u \in Seq(T) /\ Len(u) = IF 1 <= offset THEN offset - 1 + 1 ELSE 0
            /\ \A i \in 1 .. offset - 1 + 1 : u[i] = all[1 + i - 1]
        BY <2>1, <3>1, SubSeqProperties
      <3>3. /\ w \in Seq(T) /\ Len(w) = IF 1 <= end THEN end - 1 + 1 ELSE 0
            /\ \A i \in 1 .. end - 1 + 1 : w[i] = all[1 + i - 1]
        BY <2>1, <3>1, SubSeqProperties
      <3> HIDE DEF u, w
      <3> QED
        BY <1>1, <1>5, <3>2, <3>3
    <2>3. /\ v \in Seq(T) /\ Len(v) = end - offset
          /\ \A i \in 1 .. (end - offset) : v[i] = all[offset + i]
      <3>1. offset + 1 \in Int /\ end \in Int
        BY <1>5
      <3>2. /\ v \in Seq(T) /\ Len(v) = IF offset + 1 <= end THEN end - (offset + 1) + 1 ELSE 0
            /\ \A i \in 1 .. end - (offset + 1) + 1 : v[i] = all[offset + 1 + i - 1]
        BY <2>1, <3>1, SubSeqProperties
      <3> HIDE DEF v
      <3>3. (offset + 1 <= end => Len(v) = end - offset) /\ (~(offset + 1 <= end) => Len(v) = end - offset)
        BY ONLY <1>5, <3>2
      <3>4. ASSUME NEW i \in 1 .. (end - offset)
            PROVE  v[i] = all[offset + i]
        <4>1. i \in 1 .. (end - (offset + 1) + 1) /\ offset + 1 + i - 1 = offset + i
          BY ONLY <1>5, i \in 1 .. (end - offset)
        <4> QED
          BY <3>2, <4>1
      <3> QED
        BY <3>2, <3>3, <3>4
    <2> HIDE DEF u, v, w
    <2>4. /\ u \o v \in Seq(T) /\ Len(u \o v) = end
          /\ \A j \in 1 .. offset : (u \o v)[j] = all[j]
          /\ \A j \in 1 .. (end - offset) : (u \o v)[offset + j] = all[offset + j]
      <3>1. /\ u \o v \in Seq(T) /\ Len(u \o v) = Len(u) + Len(v)
            /\ \A j \in 1 .. Len(u) : (u \o v)[j] = u[j]
            /\ \A j \in 1 .. Len(v) : (u \o v)[Len(u) + j] = v[j]
        <4>1. u \in Seq(T) /\ v \in Seq(T)
          BY <2>2, <2>3
        <4> QED
          BY ONLY <4>1, ConcatIs
      <3>2. Len(u) = offset /\ Len(v) = end - offset /\ Len(u) + Len(v) = end
        BY ONLY <1>5, <2>2, <2>3
      <3> QED
        BY <2>2, <2>3, <3>1, <3>2
    <2>5. \A j \in 1 .. end : (u \o v)[j] = w[j]
      <3>1. ASSUME NEW j \in 1 .. end
            PROVE  (u \o v)[j] = w[j]
        <4>1. CASE j <= offset
          <5>1. j \in 1 .. offset
            BY ONLY <1>5, <4>1, j \in 1 .. end
          <5> QED
            BY <2>2, <2>4, <5>1
        <4>2. CASE offset < j
          <5>1. j - offset \in 1 .. (end - offset) /\ j = offset + (j - offset)
            BY ONLY <1>5, <4>2, j \in 1 .. end
          <5>2. PICK k \in 1 .. (end - offset) : j = offset + k
            BY <5>1
          <5>3. (u \o v)[offset + k] = all[offset + k]
            BY <2>4
          <5>4. (u \o v)[j] = all[j]
            BY <5>2, <5>3, Zenon
          <5>5. w[j] = all[j]
            BY <2>2
          <5> QED
            BY <5>4, <5>5, Zenon
        <4>3. j <= offset \/ offset < j
          BY ONLY <1>5, j \in 1 .. end
        <4> QED
          BY <4>1, <4>2, <4>3, Zenon
      <3> QED
        BY <3>1
    <2>6. u \o v = w
      BY <2>2, <2>4, <2>5, SeqEqual
    <2> QED
      BY <2>6 DEF u, v, w
  <1>7. PartOf(all, end, got \o b.items)
    <2>1. got \o b.items = SubSeq(all, 1, end)
      BY <1>1, <1>4, <1>6, Zenon
    <2> QED
      BY <1>5, <2>1 DEF PartOf
  <1>8. ~b.more => end = Len(all)
    <2>1. ~(end < Len(all)) => end = Len(all)
      BY <1>1, <1>3, <1>5
    <2> QED
      BY <1>4, <2>1
  <1> QED
    BY <1>4, <1>7, <1>8

\* Nothing of an answer has been given at the start.
LEMMA NothingYet ==
    ASSUME NEW T, NEW all \in Seq(T)
    PROVE  PartOf(all, 0, <<>>)
  <1>1. SubSeq(all, 1, 0) = <<>> /\ Len(all) \in Nat
    BY SubSeqEmpty
  <1> QED
    BY <1>1 DEF PartOf

\* All of it has been given at the end.
LEMMA EverythingGiven ==
    ASSUME NEW T, NEW all \in Seq(T), NEW got, PartOf(all, Len(all), got)
    PROVE  got = all
  BY SubSeqFull DEF PartOf

\* The limit of a Query.
LEMMA LimitIs ==
    ASSUME NEW text
    PROVE  ParseQuery(text).limit \in Nat
  <1>1. NoQuery.limit = 0
    BY DEF NoQuery
  <1>2. \A i : LimitClause(text, i).limit \in Nat
    BY DEF LimitClause
  <1>3. ASSUME NEW where, NEW sorted, NEW limited, limited.limit \in Nat
        PROVE  QueryWith(text, where, sorted, limited).limit \in Nat
    <2>1. [ok |-> TRUE, where |-> where, sort |-> sorted.key,
           descending |-> sorted.descending, limit |-> limited.limit].limit = limited.limit
      OBVIOUS
    <2>2. \/ QueryWith(text, where, sorted, limited) = NoQuery
          \/ QueryWith(text, where, sorted, limited) =
                [ok |-> TRUE, where |-> where, sort |-> sorted.key,
                 descending |-> sorted.descending, limit |-> limited.limit]
      BY ZenonT(60) DEF QueryWith
    <2> QED
      BY <1>1, <1>3, <2>1, <2>2
  <1>4. \A where, sorted : QueryBehind(text, where, sorted).limit \in Nat
    BY <1>2, <1>3 DEF QueryBehind
  <1> QED
    BY <1>1, <1>4 DEF ParseQuery

\* What a Query may answer with is a sequence.
LEMMA EvaluationIsSeq ==
    ASSUME NEW query, NEW predicates, NEW self, NEW rows, NEW X,
           X = {b \in DOMAIN rows : Matches(rows, self, predicates, query.where, b)},
           Cardinality(X) \in Nat
    PROVE  \E T : Evaluate(query, predicates, self, rows) \in Seq(T)
  <1> DEFINE q == Evaluate(query, predicates, self, rows)
  <1>1. DOMAIN q = 1 .. Cardinality(X) /\ q = [i \in DOMAIN q |-> q[i]]
    BY DEF Evaluate, InOrder
  <1> HIDE DEF q
  <1>2. q \in Seq(Range(q))
    BY <1>1, ListIsSeq
  <1> QED
    BY <1>2 DEF q

\* So is what it does answer with.
LEMMA AnswerIsSeq ==
    ASSUME NEW s, NEW A, NEW n, NEW c, Stocked(s, A, n, c), NEW d, NEW text, NEW self
    PROVE  \E T : Answer(s, d, Parsed(text), self) \in Seq(T)
  <1> DEFINE query == ParseQuery(text)
             predicates == Predicates(text)
             rows == Rows(s, d)
             X == {b \in DOMAIN rows : Matches(rows, self, predicates, query.where, b)}
             all == Evaluate(query, predicates, self, rows)
  <1>1. Parsed(text).query = query /\ Parsed(text).predicates = predicates
    BY DEF Parsed
  <1>2. DOMAIN rows = DOMAIN s.blocks
    BY DEF Rows
  <1>3. X \in SUBSET DOMAIN s.blocks
    BY <1>2
  <1>4. query.limit \in Nat
    BY LimitIs
  <1> HIDE DEF query, predicates, rows
  <1>5. Cardinality(X) \in Nat
    <2> HIDE DEF X
    <2> QED
      BY <1>3, SourcesFinite
  <1>6. PICK T : all \in Seq(T)
    BY <1>5, EvaluationIsSeq
  <1>7. Answer(s, d, Parsed(text), self) = IF query.ok THEN UpTo(query.limit, all) ELSE <<>>
    BY <1>1 DEF Answer, rows
  <1> HIDE DEF all
  <1>8. UpTo(query.limit, all) \in Seq(T)
    <2> DEFINE k == query.limit
    <2>1. k \in Nat /\ Len(all) \in Nat
      BY <1>4, <1>6
    <2> HIDE DEF k
    <2>2. CASE k = 0 \/ Len(all) < k
      <3>1. UpTo(k, all) = all
        BY <2>2 DEF UpTo
      <3> QED
        BY <1>6, <3>1 DEF k
    <2>3. CASE ~(k = 0 \/ Len(all) < k)
      <3>1. \A i \in 1 .. k : all[i] \in T
        BY <1>6, <2>1, <2>3
      <3>2. SubSeq(all, 1, k) \in Seq(T)
        BY <2>1, <3>1, SubSeqProperties
      <3> QED
        BY <2>3, <3>2 DEF UpTo, k
    <2> QED
      BY <2>2, <2>3 DEF k
  <1>9. <<>> \in Seq(T)
    OBVIOUS
  <1> QED
    BY <1>7, <1>8, <1>9
-----------------------------------------------------------------------------
\* The occurrences of one source.
Occurring(s, request) ==
    {i \in DOMAIN s.blocks[request.source].text :
        MentionsBlock(s, request.source, i, request.target)}
Naming(s, request) ==
    {i \in PageLinks(s.blocks[request.source].text) :
        /\ request.target \in NamedPages(s)
        /\ s.blocks[request.target].key = s.blocks[request.source].text[i]}

\* The links that the databases have of a source are those to the target by its name.
LEMMA NamingIs ==
    ASSUME NEW s, PagesIndexed(s), NEW request, IsEntry(s, request.source),
           request.target # 0, NEW named, named = (request.target \in NamedPages(s))
    PROVE  {link.at : link \in {l \in Rebuilt(s).links[request.source] :
                                   named /\ l.target = request.target}} = Naming(s, request)
  <1> DEFINE source == request.source
             target == request.target
             t == s.blocks[source].text
             to(i) == [at |-> i, name |-> t[i], target |-> PageByName(s, t[i])]
             L == Rebuilt(s).links[source]
  <1>1. source \in EntryIds(s)
    BY DEF EntryIds, IsEntry
  <1>2. L = {to(i) : i \in PageLinks(t)}
    <2>1. Rebuilt(s).links = [e \in EntryIds(s) |-> ResolvedLinks(s, s.blocks[e].text)]
      BY DEF Rebuilt
    <2>2. L = ResolvedLinks(s, t)
      BY <1>1, <2>1
    <2> QED
      BY <2>2 DEF ResolvedLinks
  <1>3. \A i : to(i).at = i /\ to(i).target = PageByName(s, t[i])
    OBVIOUS
  <1>4. \A i : PageByName(s, t[i]) = target <=> target \in NamedPages(s) /\ s.blocks[target].key = t[i]
    BY PageByNameIs
  <1>5. Naming(s, request) = {i \in PageLinks(t) : target \in NamedPages(s) /\ s.blocks[target].key = t[i]}
    BY DEF Naming
  <1> HIDE DEF t, to, L
  <1>6. ASSUME NEW i
        PROVE  i \in {link.at : link \in {l \in L : named /\ l.target = target}} <=>
                  i \in PageLinks(t) /\ named /\ PageByName(s, t[i]) = target
    <2>1. i \in {link.at : link \in {l \in L : named /\ l.target = target}} <=>
             \E l \in L : named /\ l.target = target /\ i = l.at
      OBVIOUS
    <2>2. (\E l \in L : named /\ l.target = target /\ i = l.at) <=>
             \E k \in PageLinks(t) : named /\ to(k).target = target /\ i = to(k).at
      BY <1>2
    <2> QED
      BY <1>3, <2>1, <2>2
  <1>7. {link.at : link \in {l \in L : named /\ l.target = target}} = Naming(s, request)
    BY <1>4, <1>5, <1>6
  <1> QED
    BY <1>7 DEF L

\* With the references they are all that mentions the target.
LEMMA OccurringIs ==
    ASSUME NEW s, NEW request, request.target \in DOMAIN s.blocks
    PROVE  Naming(s, request) \cup
              {i \in BlockReferences(s.blocks[request.source].text) :
                  /\ References[s.blocks[request.source].text[i]] = request.target
                  /\ request.target \in DOMAIN s.blocks}
           = Occurring(s, request)
  <1> DEFINE t == s.blocks[request.source].text
  <1>1. PageLinks(t) \subseteq DOMAIN t /\ BlockReferences(t) \subseteq DOMAIN t
    BY DEF PageLinks, BlockReferences
  <1>2. \A i : MentionsBlock(s, request.source, i, request.target) <=>
            \/ i \in PageLinks(t) /\ request.target \in NamedPages(s) /\ s.blocks[request.target].key = t[i]
            \/ i \in BlockReferences(t) /\ References[t[i]] = request.target
    BY DEF MentionsBlock
  <1> QED
    BY <1>1, <1>2 DEF Naming, Occurring

\* There are finitely many.
LEMMA OccurringCount ==
    ASSUME NEW s, NEW A, NEW n, NEW c, Stocked(s, A, n, c), NEW request, IsEntry(s, request.source)
    PROVE  Cardinality(Occurring(s, request)) \in Nat
  <1> DEFINE t == s.blocks[request.source].text
  <1>1. request.source \in EntryIds(s)
    BY DEF EntryIds, IsEntry
  <1>2. t \in Seq(STRING)
    BY <1>1, SeatIs
  <1>3. Occurring(s, request) \subseteq DOMAIN t
    BY DEF Occurring
  <1> HIDE DEF t
  <1>4. DOMAIN t = 1 .. Len(t) /\ Len(t) \in Nat
    BY <1>2
  <1>5. IsFiniteSet(DOMAIN t)
    <2>1. 1 \in Int /\ Len(t) \in Int
      BY <1>4
    <2> QED
      BY <1>4, <2>1, FS_Interval
  <1>6. IsFiniteSet(Occurring(s, request))
    BY <1>3, <1>5, FS_Subset
  <1> QED
    BY <1>6, FS_CardinalityType
-----------------------------------------------------------------------------
\* What a caller has been given, when the store is still at the revision of its cursor.

\* The first sources or results of the whole answer, from databases d.
Listed(s, d, r) ==
    /\ Readable(s, r.request) /\ PartOf(Yielded(s, d, r.request), r.next, r.got)
    /\ r.at = "done" => r.next = Len(Yielded(s, d, r.request))

\* The first occurrences; and what the call in progress keeps between its sections.
Started(s, r) ==
    \/ r.next = 0 /\ r.got = <<>>
    \/ /\ IsEntry(s, r.request.source)
       /\ PartOf(InOrder(Occurring(s, r.request), <), r.next, r.got)
Collected(s, r) ==
    /\ Started(s, r)
    /\ r.at \in {"located", "linked", "referred"} =>
          /\ r.request.target \in DOMAIN s.blocks
          /\ r.named = (r.request.target \in NamedPages(s))
    /\ r.at \in {"linked", "referred", "done"} => IsEntry(s, r.request.source)
    /\ r.at = "linked" => r.found = Naming(s, r.request)
    /\ r.at = "referred" => r.found = Occurring(s, r.request)
    /\ r.at = "done" =>
          /\ PartOf(InOrder(Occurring(s, r.request), <), r.next, r.got)
          /\ r.next = Len(InOrder(Occurring(s, r.request), <))

Enumerations == {"linked", "preview", "query"}
Sections == {"asked", "located", "linked", "referred"}

Continued(s, d, r) ==
    /\ r.request.kind \in Enumerations => Listed(s, d, r)
    /\ r.request.kind = "occurrences" => Collected(s, r)
Followed(s, d, r) ==
    \/ r = Resting
    \/ /\ r.revision \in Nat /\ r.revision <= s.revision
       /\ r.at \in Sections => r.request.kind = "occurrences"
       /\ r.revision = s.revision => Continued(s, d, r)

\* A part of an answer, which may be none yet.
Given(all, offset, got) == PartOf(all, offset, got) \/ (offset = 0 /\ got = <<>>)

\* Every answer is a sequence.
LEMMA YieldedIsSeq ==
    ASSUME NEW s, NEW A, NEW n, NEW c, Stocked(s, A, n, c), PagesIndexed(s),
           NEW d, d = Rebuilt(s), NEW request, request.kind \in Enumerations, Readable(s, request)
    PROVE  \E T : Yielded(s, d, request) \in Seq(T)
  <1>1. ASSUME NEW S \in SUBSET EntryIds(s)
        PROVE  \E T : SourceOrder(s, S) \in Seq(T)
    <2>1. Arranges(Preceding(s, S), S, SourceOrder(s, S))
      BY SourceOrderArranges
    <2> QED
      BY <2>1 DEF Arranges
  <1>2. CASE request.kind = "linked"
    <2>1. request.target \in DOMAIN s.blocks /\ request.target # 0
      BY <1>2, BlocksNumbered DEF Readable
    <2>2. Linking(s, d, request.target) = Mentioning(s, request.target)
      BY <2>1, LinkingIs
    <2>3. Linking(s, d, request.target) \in SUBSET EntryIds(s)
      BY <2>2 DEF Mentioning
    <2>4. Yielded(s, d, request) = SourceOrder(s, Linking(s, d, request.target))
      BY <1>2 DEF Yielded
    <2> QED
      BY <1>1, <2>3, <2>4
  <1>3. CASE request.kind = "preview"
    <2>1. PageByName(s, request.target) = 0
      BY <1>3 DEF Readable
    <2>2. Of(d, "unresolvedPage", request.target) = Previewing(s, request.target)
      BY <2>1, PreviewingIs
    <2>3. Of(d, "unresolvedPage", request.target) \in SUBSET EntryIds(s)
      BY <2>2 DEF Previewing
    <2>4. Yielded(s, d, request) = SourceOrder(s, Of(d, "unresolvedPage", request.target))
      BY <1>3 DEF Yielded
    <2> QED
      BY <1>1, <2>3, <2>4
  <1>4. CASE request.kind = "query"
    <2>1. Yielded(s, d, request) = Answer(s, d, Parsed(s.blocks[request.target].text), request.target)
      BY <1>4 DEF Yielded
    <2> QED
      BY <2>1, AnswerIsSeq
  <1> QED
    BY <1>2, <1>3, <1>4 DEF Enumerations

\* What the reader has once it received a batch.
LEMMA ReceivedIs ==
    ASSUME NEW request, NEW got, NEW b, NEW revision, NEW r, r = Received(request, got, b, revision)
    PROVE  /\ r.request = request /\ r.got = got \o b.items /\ r.next = b.next
           /\ r.revision = revision
           /\ r.at = "done" => ~b.more
           /\ r.at \notin Sections
  BY DEF Received, Sections

\* A batch of sources or results.
LEMMA ListedOn ==
    ASSUME NEW s, NEW A, NEW n, NEW c, Stocked(s, A, n, c), PagesIndexed(s),
           NEW d, d = Rebuilt(s), NEW request, request.kind \in Enumerations, Readable(s, request),
           NEW offset, NEW got, Given(Yielded(s, d, request), offset, got),
           NEW revision, NEW r,
           r = Received(request, got, OffsetBatch(Yielded(s, d, request), offset, BatchSize), revision)
    PROVE  Listed(s, d, r)
  <1> DEFINE all == Yielded(s, d, request)
             b == OffsetBatch(all, offset, BatchSize)
  <1>1. PICK T : all \in Seq(T)
    BY YieldedIsSeq
  <1>2. r = Received(request, got, b, revision)
    OBVIOUS
  <1>3. Given(all, offset, got)
    OBVIOUS
  <1> HIDE DEF all
  <1>4. PartOf(all, offset, got)
    BY <1>1, <1>3, NothingYet DEF Given
  <1>5. PartOf(all, b.next, got \o b.items) /\ (~b.more => b.next = Len(all))
    <2>1. BatchSize \in Nat \ {0}
      BY BatchAssumption
    <2> QED
      BY <1>1, <1>4, <2>1, BatchIs
  <1> HIDE DEF b
  <1>6. /\ r.request = request /\ r.got = got \o b.items /\ r.next = b.next
        /\ r.at = "done" => ~b.more
    BY ONLY <1>2, ReceivedIs
  <1> QED
    BY <1>5, <1>6 DEF Listed, all

\* A batch of occurrences.
LEMMA CollectedOn ==
    ASSUME NEW s, NEW A, NEW n, NEW c, Stocked(s, A, n, c), NEW q, Collected(s, q),
           q.at = "referred", NEW revision, NEW r,
           r = Received(q.request, q.got,
                        OffsetBatch(InOrder(q.found, <), q.next, OccurrenceBatch), revision)
    PROVE  Collected(s, r)
  <1> DEFINE all == InOrder(Occurring(s, q.request), <)
             b == OffsetBatch(all, q.next, OccurrenceBatch)
  <1>1. IsEntry(s, q.request.source) /\ q.found = Occurring(s, q.request) /\ Started(s, q)
    BY DEF Collected
  <1>2. PICK T : all \in Seq(T)
    <2>1. Cardinality(Occurring(s, q.request)) \in Nat
      BY <1>1, OccurringCount
    <2> QED
      BY <2>1, PositionsInOrder
  <1> DEFINE request == q.request
             got == q.got
  <1>3. r = Received(request, got, b, revision)
    BY <1>1
  <1>4. Given(all, q.next, q.got)
    BY <1>1 DEF Started, Given
  <1> HIDE DEF all
  <1>5. PartOf(all, q.next, q.got)
    BY <1>2, <1>4, NothingYet DEF Given
  <1>6. PartOf(all, b.next, q.got \o b.items) /\ (~b.more => b.next = Len(all))
    <2>1. OccurrenceBatch \in Nat \ {0}
      BY BatchAssumption
    <2> QED
      BY <1>2, <1>5, <2>1, BatchIs
  <1> HIDE DEF b
  <1> HIDE DEF request, got
  <1>10. /\ r.request = request /\ r.got = got \o b.items /\ r.next = b.next
         /\ r.at = "done" => ~b.more
         /\ r.at \notin Sections
    BY ONLY <1>3, ReceivedIs
  <1>7. /\ r.request = q.request /\ r.got = q.got \o b.items /\ r.next = b.next
        /\ r.at = "done" => ~b.more
        /\ r.at \notin Sections
    BY <1>10 DEF request, got
  <1>8. Started(s, r)
    BY <1>1, <1>6, <1>7 DEF Started, all
  <1>9. r.at = "done" => /\ PartOf(InOrder(Occurring(s, r.request), <), r.next, r.got)
                         /\ r.next = Len(InOrder(Occurring(s, r.request), <))
    BY <1>6, <1>7 DEF all
  <1> QED
    BY <1>1, <1>7, <1>8, <1>9 DEF Collected, Sections
-----------------------------------------------------------------------------
\* The reader and the store.

\* A step changes the store only by committing, which advances the revision.
LEMMA StoreMoves ==
    ASSUME Inv, Next
    PROVE  store' = store \/ store'.revision = store.revision + 1
  <1>1. PICK A, B, F, W : Told(A, B, F, W)
    BY DEF Inv, Coherent, Told
  <1>2. Tells(store, history, clock, issued, session, A, B, F, W)
    BY <1>1 DEF Told
  <1>3. ASSUME NEW s, NEW A1, Brings(s, store, A1), store' = Committed(s)
        PROVE  store'.revision = store.revision + 1
    <2>1. IsStore(s) /\ s.revision = store.revision
      BY <1>3 DEF Brings, Holds
    <2> QED
      BY <1>3, <2>1, Committing
  <1>4. ASSUME NEW tick \in Ticks, Command(clock + tick)
        PROVE  store'.revision = store.revision + 1
    <2>1. Held(A)
      BY <1>2 DEF Tells, Held
    <2>2. Recording(A) \/ Repeating(A)
      BY <1>4, <2>1, TickRecords
    <2>3. CASE Recording(A)
      <3>1. PICK s, what, A1 : \E t \in HistoryTracks :
                CommitAndRecord(s, t, what) /\ Brings(s, store, A1)
        BY <2>3 DEF Recording
      <3>2. store' = Committed(s) /\ Brings(s, store, A1)
        BY <3>1 DEF CommitAndRecord, Commit
      <3> QED
        BY <1>3, <3>2
    <2>4. CASE Repeating(A)
      <3>1. PICK s : Commit(s) /\ Brings(s, store, A)
        BY <2>4 DEF Repeating
      <3>2. store' = Committed(s)
        BY <3>1 DEF Commit
      <3> QED
        BY <1>3, <3>1, <3>2
    <2> QED
      BY <2>2, <2>3, <2>4
  <1>5. ASSUME NEW t \in HistoryTracks, UndoEdit(t)
        PROVE  store'.revision = store.revision + 1
    <2> DEFINE s == Apply(store, t, Last(history.undo[t]).what, FALSE)
    <2>1. NewestUndo(history, t) /\ store' = Committed(s)
      BY <1>5 DEF UndoEdit, Commit
    <2>2. Unwinds(store, history, t, clock, issued, A, B, F, W)
      BY <1>2, <2>1, UndoTells
    <2>3. PICK k : Brings(s, store, B[k])
      BY <2>2 DEF Unwinds
    <2> HIDE DEF s
    <2> QED
      BY <1>3, <2>1, <2>3
  <1>6. ASSUME NEW t \in HistoryTracks, RedoEdit(t)
        PROVE  store'.revision = store.revision + 1
    <2> DEFINE s == Apply(store, t, Last(history.redo[t]).what, TRUE)
    <2>1. OldestRedo(history, t) /\ store' = Committed(s)
      BY <1>6 DEF RedoEdit, Commit
    <2>2. Rewinds(store, history, t, clock, issued, A, B, F, W)
      BY <1>2, <2>1, RedoTells
    <2>3. PICK k : Brings(s, store, F[k])
      BY <2>2 DEF Rewinds
    <2> HIDE DEF s
    <2> QED
      BY <1>3, <2>1, <2>3
  <1>7. ASSUME Open \/ Close
        PROVE  store' = store
    BY <1>7 DEF Open, Close
  <1> QED
    BY <1>4, <1>5, <1>6, <1>7 DEF Next

\* The databases are those of the last commit, and the reader holds a part of one answer.
ReadInv == Inv /\ derived = Rebuilt(store) /\ Followed(store, derived, reader)

\* What the reads rely on.
LEMMA ReadsRelyOn ==
    ASSUME Inv
    PROVE  /\ \E A : Stocked(store, A, issued, clock)
           /\ PagesIndexed(store) /\ store.revision \in Nat
           /\ session.open => session.revision = store.revision
  <1>1. PICK A, B, F, W : Tells(store, history, clock, issued, session, A, B, F, W)
    BY DEF Inv, Coherent
  <1>2. /\ issued \in 0 .. MaxIds /\ clock \in Nat
        /\ Paged(A, 1 .. issued, 0 .. clock) /\ Holds(store, A)
    BY <1>1 DEF Tells
  <1>3. Stocked(store, A, issued, clock)
    BY <1>2 DEF Stocked
  <1>4. store.revision \in Nat
    BY <1>2 DEF Holds, IsStore
  <1>5. TypeOK /\ PageIndexesAgree
    BY CoherentPromises
  <1> QED
    BY <1>3, <1>4, <1>5 DEF TypeOK, PageIndexesAgree

\* A commit outdates every cursor; nothing else changes what there is to read.
LEMMA WriteFollowed ==
    ASSUME ReadInv, Write
    PROVE  ReadInv'
  <1>1. /\ Inv /\ derived = Rebuilt(store) /\ Followed(store, derived, reader)
        /\ Next /\ reader' = reader
        /\ derived' = IF store'.revision # store.revision THEN Rebuilt(store') ELSE derived
    BY DEF ReadInv, Write
  <1>2. Inv'
    BY <1>1, NextCoherent
  <1>3. store' = store \/ store'.revision = store.revision + 1
    BY <1>1, StoreMoves
  <1>4. store.revision \in Nat
    BY <1>1, ReadsRelyOn
  <1>5. CASE store' = store
    <2>1. derived' = derived
      BY <1>1, <1>5
    <2>2. derived' = Rebuilt(store') /\ Followed(store', derived', reader')
      BY <1>1, <1>5, <2>1
    <2> QED
      BY <1>2, <2>2 DEF ReadInv
  <1>6. CASE store'.revision = store.revision + 1
    <2>1. store'.revision # store.revision /\ store.revision < store'.revision
          /\ store'.revision \in Nat
      BY <1>4, <1>6
    <2>2. derived' = Rebuilt(store')
      BY <1>1, <2>1
    <2>3. reader = Resting \/ /\ reader.revision \in Nat /\ reader.revision <= store.revision
                              /\ reader.at \in Sections => reader.request.kind = "occurrences"
      BY <1>1 DEF Followed
    <2>4. reader.revision \in Nat /\ reader.revision <= store.revision =>
             reader.revision <= store'.revision /\ reader.revision # store'.revision
      BY <1>4, <2>1
    <2>5. Followed(store', derived', reader)
      BY <2>3, <2>4 DEF Followed
    <2>6. Followed(store', derived', reader')
      BY <1>1, <2>5
    <2> QED
      BY <1>2, <2>2, <2>6 DEF ReadInv
  <1> QED
    BY <1>3, <1>5, <1>6

\* A read leaves the Notebook alone.
LEMMA ReadKeeps ==
    ASSUME ReadInv, UNCHANGED <<vars, derived>>, Followed(store, derived, reader')
    PROVE  ReadInv'
  <1>1. Inv /\ derived = Rebuilt(store)
    BY DEF ReadInv
  <1>2. /\ store' = store /\ history' = history /\ clock' = clock /\ issued' = issued
        /\ session' = session /\ derived' = derived
    BY DEF vars
  <1>3. Inv'
    BY <1>1, <1>2, NextCoherent DEF vars
  <1>4. derived' = Rebuilt(store') /\ Followed(store', derived', reader')
    BY <1>1, <1>2
  <1> QED
    BY <1>3, <1>4 DEF ReadInv

\* The sources and results come in batches, the first one ...
LEMMA ReadFirstFollowed ==
    ASSUME ReadInv, NEW request, ReadFirst(request)
    PROVE  Followed(store, derived, reader')
  <1>1. /\ session.open /\ request.kind # "occurrences" /\ Readable(store, request)
        /\ reader' = Received(request, <<>>, Batch(store, request, Start(request)), session.revision)
    BY DEF ReadFirst
  <1>2. Inv /\ derived = Rebuilt(store)
    BY DEF ReadInv
  <1>3. PICK A : Stocked(store, A, issued, clock)
    BY <1>2, ReadsRelyOn
  <1>4. PagesIndexed(store) /\ store.revision \in Nat /\ session.revision = store.revision
    BY <1>1, <1>2, ReadsRelyOn
  <1> DEFINE r == reader'
  <1>5. /\ r.request = request /\ r.revision = session.revision /\ r.at \notin Sections
    BY <1>1, ReceivedIs
  <1>6. ASSUME request.kind \in Enumerations
        PROVE  Listed(store, derived, r)
    <2>1. request.kind # "children"
      BY <1>6 DEF Enumerations
    <2>2. Batch(store, request, Start(request)) = OffsetBatch(Yielded(store, derived, request), 0, BatchSize)
      BY <2>1, ListingIs DEF Batch, Start
    <2>3. Given(Yielded(store, derived, request), 0, <<>>)
      BY DEF Given
    <2> QED
      BY <1>1, <1>2, <1>3, <1>4, <1>6, <2>2, <2>3, ListedOn
  <1>7. Continued(store, derived, r)
    BY <1>1, <1>5, <1>6 DEF Continued
  <1>8. r.revision \in Nat /\ r.revision <= store.revision
    BY <1>4, <1>5
  <1> HIDE DEF r
  <1>9. Followed(store, derived, r)
    BY <1>5, <1>7, <1>8 DEF Followed
  <1> QED
    BY <1>9 DEF r

\* A cursor that is taken goes on with its own request.
LEMMA ReadNextIs ==
    ASSUME NEW handed, ReadNext(handed)
    PROVE  /\ reader.at = "paging" /\ reader.request.kind # "occurrences"
           /\ session.open /\ reader.revision = session.revision /\ Readable(store, reader.request)
           /\ reader' = Received(reader.request, reader.got,
                                 Batch(store, reader.request, reader.next), session.revision)
  <1>1. handed = reader.request
    BY DEF ReadNext, Continues
  <1> QED
    BY <1>1 DEF ReadNext, Continues, CursorIsCurrent

\* ... and the next, as long as the cursor is current.
LEMMA ReadNextFollowed ==
    ASSUME ReadInv, NEW handed, ReadNext(handed)
    PROVE  Followed(store, derived, reader')
  <1> DEFINE request == reader.request
             r == reader'
  <1>1. /\ reader.at = "paging" /\ request.kind # "occurrences"
        /\ session.open /\ reader.revision = session.revision /\ Readable(store, request)
        /\ r = Received(request, reader.got, Batch(store, request, reader.next), session.revision)
    BY ReadNextIs
  <1>2. Inv /\ derived = Rebuilt(store) /\ Followed(store, derived, reader)
    BY DEF ReadInv
  <1>3. PICK A : Stocked(store, A, issued, clock)
    BY <1>2, ReadsRelyOn
  <1>4. PagesIndexed(store) /\ store.revision \in Nat /\ session.revision = store.revision
    BY <1>1, <1>2, ReadsRelyOn
  <1>5. r.request = request /\ r.revision = session.revision /\ r.at \notin Sections
    BY <1>1, ReceivedIs
  <1>6. ASSUME request.kind \in Enumerations
        PROVE  Listed(store, derived, r)
    <2>1. request.kind # "children"
      BY <1>6 DEF Enumerations
    <2>2. Batch(store, request, reader.next)
             = OffsetBatch(Yielded(store, derived, request), reader.next, BatchSize)
      BY <2>1, ListingIs DEF Batch
    <2>3. reader # Resting
      BY <1>1 DEF Resting
    <2>4. Listed(store, derived, reader)
      BY <1>1, <1>2, <1>4, <1>6, <2>3 DEF Followed, Continued
    <2>5. Given(Yielded(store, derived, request), reader.next, reader.got)
      BY <2>4 DEF Given, Listed
    <2> HIDE DEF request
    <2> QED
      BY <1>1, <1>2, <1>3, <1>4, <1>6, <2>2, <2>5, ListedOn
  <1>7. Continued(store, derived, r)
    BY <1>1, <1>5, <1>6 DEF Continued
  <1>8. r.revision \in Nat /\ r.revision <= store.revision
    BY <1>4, <1>5
  <1> HIDE DEF r
  <1>9. Followed(store, derived, r)
    BY <1>5, <1>7, <1>8 DEF Followed
  <1> QED
    BY <1>9 DEF r

\* What a section of a call keeps.
LEMMA CollectingIs ==
    ASSUME NEW q, NEW at, NEW named, NEW found, NEW r, r = Collecting(q, at, named, found)
    PROVE  /\ r.at = at /\ r.request = q.request /\ r.got = q.got /\ r.next = q.next
           /\ r.revision = q.revision /\ r.named = named /\ r.found = found
  BY DEF Collecting

\* A call begins, at the start or with the cursor of an earlier one.
LEMMA AskFollowed ==
    ASSUME ReadInv, NEW request, AskOccurrences(request)
    PROVE  Followed(store, derived, reader')
  <1> DEFINE begin == [request |-> request, got |-> <<>>, next |-> 0, revision |-> session.revision]
             r == reader'
  <1>1. /\ request.kind = "occurrences" /\ session.open
        /\ \/ r = Collecting(begin, "asked", FALSE, {})
           \/ /\ reader.at = "paging" /\ reader.request = request
              /\ reader.revision = session.revision
              /\ r = Collecting(reader, "asked", FALSE, {})
    BY DEF AskOccurrences, CursorIsCurrent
  <1>2. Inv /\ Followed(store, derived, reader)
    BY DEF ReadInv
  <1>3. store.revision \in Nat /\ session.revision = store.revision
    BY <1>1, <1>2, ReadsRelyOn
  <1>4. begin.request = request /\ begin.got = <<>> /\ begin.next = 0
        /\ begin.revision = session.revision
    OBVIOUS
  <1> HIDE DEF begin, r
  <1>5. ASSUME r = Collecting(begin, "asked", FALSE, {})
        PROVE  Followed(store, derived, r)
    <2>1. /\ r.at = "asked" /\ r.request = request /\ r.got = <<>> /\ r.next = 0
          /\ r.revision = session.revision
      BY <1>4, <1>5 DEF Collecting
    <2>2. Started(store, r)
      BY <2>1 DEF Started
    <2>5. Collected(store, r)
      BY <2>1, <2>2 DEF Collected
    <2>6. Continued(store, derived, r)
      BY <1>1, <2>1, <2>5 DEF Continued, Enumerations
    <2>7. r.revision \in Nat /\ r.revision <= store.revision
      BY <1>3, <2>1
    <2> QED
      BY <1>1, <2>1, <2>6, <2>7 DEF Followed
  <1>6. ASSUME /\ reader.at = "paging" /\ reader.request = request
               /\ reader.revision = session.revision
               /\ r = Collecting(reader, "asked", FALSE, {})
        PROVE  Followed(store, derived, r)
    <2>1. /\ r.at = "asked" /\ r.request = request /\ r.got = reader.got /\ r.next = reader.next
          /\ r.revision = session.revision
      BY <1>6 DEF Collecting
    <2>2. reader # Resting
      BY <1>6 DEF Resting
    <2>3. Started(store, reader)
      BY <1>1, <1>2, <1>3, <1>6, <2>2 DEF Followed, Continued, Collected
    <2>4. Started(store, r)
      BY <1>6, <2>1, <2>3 DEF Started
    <2>5. Collected(store, r)
      BY <2>1, <2>4 DEF Collected
    <2>6. Continued(store, derived, r)
      BY <1>1, <2>1, <2>5 DEF Continued, Enumerations
    <2>7. r.revision \in Nat /\ r.revision <= store.revision
      BY <1>3, <2>1
    <2> QED
      BY <1>1, <2>1, <2>6, <2>7 DEF Followed
  <1>7. Followed(store, derived, r)
    BY <1>1, <1>5, <1>6
  <1> QED
    BY <1>7 DEF r

\* Each section adds what the store has for the revision of the call, if it still has it.
LEMMA SectionFollowed ==
    ASSUME ReadInv, LocateTarget \/ ReadSourceLinks \/ ReadSourceReferences
    PROVE  Followed(store, derived, reader')
  <1> DEFINE r == reader'
             request == reader.request
  <1>1. Inv /\ derived = Rebuilt(store) /\ Followed(store, derived, reader)
    BY DEF ReadInv
  <1>2. PICK A : Stocked(store, A, issued, clock)
    BY <1>1, ReadsRelyOn
  <1>3. PagesIndexed(store) /\ 0 \notin DOMAIN store.blocks
    BY <1>1, <1>2, ReadsRelyOn, BlocksNumbered
  <1>4. ASSUME NEW at \in Sections, NEW named, NEW found, r = Collecting(reader, at, named, found),
               reader.at \in Sections,
               reader.revision = store.revision /\ Collected(store, reader) => Collected(store, r)
        PROVE  Followed(store, derived, r)
    <2>1. /\ r.at = at /\ r.request = request /\ r.revision = reader.revision
      BY <1>4, CollectingIs
    <2>2. reader # Resting
      BY <1>4 DEF Resting, Sections
    <2>3. /\ reader.revision \in Nat /\ reader.revision <= store.revision
          /\ request.kind = "occurrences"
          /\ reader.revision = store.revision => Collected(store, reader)
      BY <1>1, <1>4, <2>2 DEF Followed, Continued
    <2>4. r.revision = store.revision => Continued(store, derived, r)
      BY <1>4, <2>1, <2>3 DEF Continued, Enumerations
    <2> QED
      BY <2>1, <2>3, <2>4 DEF Followed
  <1>5. ASSUME LocateTarget
        PROVE  Followed(store, derived, r)
    <2> DEFINE named == request.target \in NamedPages(store)
    <2>1. /\ reader.at = "asked" /\ Readable(store, request)
          /\ r = Collecting(reader, "located", named, {})
      BY <1>5 DEF LocateTarget
    <2>2. /\ r.at = "located" /\ r.request = request /\ r.got = reader.got /\ r.next = reader.next
          /\ r.named = named
      BY <2>1, CollectingIs
    <2>3. ASSUME Collected(store, reader), request.kind = "occurrences"
          PROVE  Collected(store, r)
      <3>1. request.target \in DOMAIN store.blocks
        BY <2>1, <2>3 DEF Readable
      <3>2. Started(store, r)
        BY <2>2, <2>3 DEF Collected, Started
      <3> QED
        BY <2>2, <3>1, <3>2 DEF Collected
    <2>4. request.kind = "occurrences"
      BY <1>1, <2>1 DEF Followed, Sections, Resting
    <2> QED
      BY <1>4, <2>1, <2>3, <2>4 DEF Sections
  <1>6. ASSUME ReadSourceLinks
        PROVE  Followed(store, derived, r)
    <2> DEFINE found == {link.at : link \in {l \in derived.links[request.source] :
                                                reader.named /\ l.target = request.target}}
    <2>1. /\ reader.at = "located" /\ IsEntry(store, request.source)
          /\ r = Collecting(reader, "linked", reader.named, found)
      BY <1>6 DEF ReadSourceLinks
    <2>2. /\ r.at = "linked" /\ r.request = request /\ r.got = reader.got /\ r.next = reader.next
          /\ r.named = reader.named /\ r.found = found
      BY <2>1, CollectingIs
    <2>3. ASSUME Collected(store, reader)
          PROVE  Collected(store, r)
      <3>1. request.target \in DOMAIN store.blocks /\ reader.named = (request.target \in NamedPages(store))
        BY <2>1, <2>3 DEF Collected
      <3>2. found = Naming(store, request)
        <4>1. request.target # 0
          BY <1>3, <3>1
        <4> HIDE DEF request
        <4> QED
          BY <1>1, <1>3, <2>1, <3>1, <4>1, NamingIs
      <3>3. Started(store, r)
        BY <2>2, <2>3 DEF Collected, Started
      <3> QED
        BY <2>1, <2>2, <3>1, <3>2, <3>3 DEF Collected
    <2> QED
      BY <1>4, <2>1, <2>3 DEF Sections
  <1>7. ASSUME ReadSourceReferences
        PROVE  Followed(store, derived, r)
    <2> DEFINE text == store.blocks[request.source].text
               found == reader.found \cup
                            {i \in BlockReferences(text) :
                                References[text[i]] = request.target
                                /\ request.target \in DOMAIN store.blocks}
    <2>1. /\ reader.at = "linked" /\ IsEntry(store, request.source)
          /\ r = Collecting(reader, "referred", reader.named, found)
      BY <1>7 DEF ReadSourceReferences
    <2>2. /\ r.at = "referred" /\ r.request = request /\ r.got = reader.got /\ r.next = reader.next
          /\ r.named = reader.named /\ r.found = found
      <3> HIDE DEF found
      <3> QED
        BY ONLY <2>1, CollectingIs
    <2>3. ASSUME Collected(store, reader)
          PROVE  Collected(store, r)
      <3>1. /\ request.target \in DOMAIN store.blocks /\ reader.named = (request.target \in NamedPages(store))
            /\ reader.found = Naming(store, request)
        BY <2>1, <2>3 DEF Collected
      <3>2. found = Occurring(store, request)
        BY <3>1, OccurringIs
      <3>3. Started(store, r)
        BY <2>2, <2>3 DEF Collected, Started
      <3> QED
        BY <2>1, <2>2, <3>1, <3>2, <3>3 DEF Collected
    <2> QED
      BY <1>4, <2>1, <2>3 DEF Sections
  <1> QED
    BY <1>5, <1>6, <1>7

\* The last one answers only if the revision is still that of the call.
LEMMA AnswerFollowed ==
    ASSUME ReadInv, AnswerOccurrences
    PROVE  Followed(store, derived, reader')
  <1> DEFINE r == reader'
  <1>1. /\ reader.at = "referred"
        /\ r = Received(reader.request, reader.got,
                        OffsetBatch(InOrder(reader.found, <), reader.next, OccurrenceBatch),
                        reader.revision)
    BY DEF AnswerOccurrences
  <1>2. Inv /\ derived = Rebuilt(store) /\ Followed(store, derived, reader)
    BY DEF ReadInv
  <1>3. PICK A : Stocked(store, A, issued, clock)
    BY <1>2, ReadsRelyOn
  <1>4. r.request = reader.request /\ r.revision = reader.revision /\ r.at \notin Sections
    <2> DEFINE b == OffsetBatch(InOrder(reader.found, <), reader.next, OccurrenceBatch)
    <2>1. r = Received(reader.request, reader.got, b, reader.revision)
      BY <1>1
    <2> HIDE DEF b
    <2> QED
      BY ONLY <2>1, ReceivedIs
  <1>5. reader # Resting /\ reader.at \in Sections
    <2>1. reader.at = "referred"
      BY <1>1
    <2> QED
      BY ONLY <2>1 DEF Resting, Sections
  <1>6. /\ reader.revision \in Nat /\ reader.revision <= store.revision
        /\ reader.request.kind = "occurrences"
        /\ reader.revision = store.revision => Collected(store, reader)
    BY <1>2, <1>5 DEF Followed, Continued
  <1>7. ASSUME reader.revision = store.revision
        PROVE  Collected(store, r)
    BY <1>1, <1>3, <1>6, <1>7, CollectedOn
  <1> HIDE DEF r
  <1>8. Followed(store, derived, r)
    BY <1>4, <1>6, <1>7 DEF Followed, Continued, Enumerations
  <1> QED
    BY <1>8 DEF r
-----------------------------------------------------------------------------
\* Every step of the store or of the reader keeps the invariant.
LEMMA ReadsKeep ==
    ASSUME ReadInv, [ReadsNext]_readVars
    PROVE  ReadInv'
  <1>1. ASSUME Write
        PROVE  ReadInv'
    BY <1>1, WriteFollowed
  <1>2. ASSUME NEW request, ReadFirst(request)
        PROVE  ReadInv'
    <2>1. UNCHANGED <<vars, derived>>
      BY <1>2 DEF ReadFirst
    <2> QED
      BY <1>2, <2>1, ReadFirstFollowed, ReadKeeps
  <1>3. ASSUME NEW request, AskOccurrences(request)
        PROVE  ReadInv'
    <2>1. UNCHANGED <<vars, derived>>
      BY <1>3 DEF AskOccurrences
    <2> QED
      BY <1>3, <2>1, AskFollowed, ReadKeeps
  <1>4. ASSUME NEW request, ReadNext(request)
        PROVE  ReadInv'
    <2>1. UNCHANGED <<vars, derived>>
      BY <1>4 DEF ReadNext
    <2> QED
      BY <1>4, <2>1, ReadNextFollowed, ReadKeeps
  <1>5. ASSUME LocateTarget \/ ReadSourceLinks \/ ReadSourceReferences
        PROVE  ReadInv'
    <2>1. UNCHANGED <<vars, derived>>
      BY <1>5 DEF LocateTarget, ReadSourceLinks, ReadSourceReferences
    <2> QED
      BY <1>5, <2>1, SectionFollowed, ReadKeeps
  <1>6. ASSUME AnswerOccurrences
        PROVE  ReadInv'
    <2>1. UNCHANGED <<vars, derived>>
      BY <1>6 DEF AnswerOccurrences
    <2> QED
      BY <1>6, <2>1, AnswerFollowed, ReadKeeps
  <1>7. ASSUME GiveUp
        PROVE  ReadInv'
    <2>1. UNCHANGED <<vars, derived>> /\ reader' = Resting
      BY <1>7 DEF GiveUp
    <2>2. Followed(store, derived, reader')
      BY <2>1 DEF Followed
    <2> QED
      BY <2>1, <2>2, ReadKeeps
  <1>8. ASSUME UNCHANGED readVars
        PROVE  ReadInv'
    <2>1. UNCHANGED <<vars, derived>> /\ reader' = reader
      BY <1>8 DEF readVars, vars
    <2>2. Followed(store, derived, reader')
      BY <2>1 DEF ReadInv
    <2> QED
      BY <2>1, <2>2, ReadKeeps
  <1> QED
    BY <1>1, <1>2, <1>3, <1>4, <1>5, <1>6, <1>7, <1>8 DEF ReadsNext

\* An answer given in full is whole.
LEMMA AllGivenIsWhole ==
    ASSUME ReadInv
    PROVE  EnumerationsAreWhole
  <1> DEFINE s == store
             request == reader.request
             got == reader.got
             target == request.target
  <1>1. SUFFICES ASSUME reader.at = "done", reader.revision = store.revision
                 PROVE  IsWhole(store, reader.request, reader.got)
    BY DEF EnumerationsAreWhole
  <1>2. Inv /\ derived = Rebuilt(s) /\ Followed(s, derived, reader)
    BY DEF ReadInv
  <1>3. PICK A : Stocked(s, A, issued, clock)
    BY <1>2, ReadsRelyOn
  <1>4. PagesIndexed(s)
    BY <1>2, ReadsRelyOn
  <1>5. Continued(s, derived, reader)
    <2>1. reader # Resting
      BY <1>1 DEF Resting
    <2> QED
      BY <1>1, <1>2, <2>1 DEF Followed
  <1>6. ASSUME request.kind \in Enumerations
        PROVE  got = Yielded(s, derived, request) /\ Readable(s, request)
    <2> DEFINE all == Yielded(s, derived, request)
    <2>1. Readable(s, request) /\ PartOf(all, Len(all), got)
      BY <1>1, <1>5, <1>6 DEF Continued, Listed
    <2>2. PICK T : all \in Seq(T)
      BY <1>2, <1>3, <1>4, <1>6, <2>1, YieldedIsSeq
    <2> HIDE DEF all
    <2>3. got = all
      BY <2>1, <2>2, EverythingGiven
    <2> QED
      BY <2>1, <2>3 DEF all
  <1>7. ASSUME NEW S \in SUBSET EntryIds(s), got = SourceOrder(s, S)
        PROVE  Range(got) = S /\ IsDistinct(got) /\ InSourceOrder(s, got)
    <2>1. Arranges(Preceding(s, S), S, got)
      BY <1>3, <1>7, SourceOrderArranges
    <2> HIDE DEF got, s
    <2> QED
      BY <1>3, <2>1, ArrangedSources
  <1>8. CASE request.kind = "linked"
    <2>1. got = SourceOrder(s, Linking(s, derived, target)) /\ target \in DOMAIN s.blocks
      BY <1>6, <1>8 DEF Yielded, Enumerations, Readable
    <2>2. target # 0
      BY <1>3, <2>1, BlocksNumbered
    <2>3. Linking(s, derived, target) = Mentioning(s, target)
      BY <1>2, <1>4, <2>1, <2>2, LinkingIs
    <2>4. Mentioning(s, target) \in SUBSET EntryIds(s)
      BY DEF Mentioning
    <2>5. Range(got) = Mentioning(s, target) /\ IsDistinct(got) /\ InSourceOrder(s, got)
      <3>1. got = SourceOrder(s, Mentioning(s, target))
        BY <2>1, <2>3
      <3> QED
        BY <1>7, <2>4, <3>1
    <2> QED
      BY <1>8, <2>5 DEF IsWhole, Mentioning
  <1>9. CASE request.kind = "preview"
    <2>1. got = SourceOrder(s, Of(derived, "unresolvedPage", target)) /\ PageByName(s, target) = 0
      BY <1>6, <1>9 DEF Yielded, Enumerations, Readable
    <2>2. Of(derived, "unresolvedPage", target) = Previewing(s, target)
      BY <1>2, <2>1, PreviewingIs
    <2>3. Previewing(s, target) \in SUBSET EntryIds(s)
      BY DEF Previewing
    <2>4. Range(got) = Previewing(s, target) /\ IsDistinct(got) /\ InSourceOrder(s, got)
      <3>1. got = SourceOrder(s, Previewing(s, target))
        BY <2>1, <2>2
      <3> QED
        BY <1>7, <2>3, <3>1
    <2> QED
      BY <1>9, <2>4 DEF IsWhole, Previewing
  <1>10. CASE request.kind = "query"
    <2>1. got = Answer(s, derived, Parsed(s.blocks[target].text), target)
      BY <1>6, <1>10 DEF Yielded, Enumerations
    <2> QED
      BY <1>10, <2>1 DEF IsWhole
  <1>11. CASE request.kind = "occurrences"
    <2> DEFINE all == InOrder(Occurring(s, request), <)
    <2>1. IsEntry(s, request.source) /\ PartOf(all, Len(all), got)
      BY <1>1, <1>5, <1>11 DEF Continued, Collected
    <2>2. PICK T : all \in Seq(T)
      <3>1. Cardinality(Occurring(s, request)) \in Nat
        BY <1>3, <2>1, OccurringCount
      <3> QED
        BY <3>1, PositionsInOrder
    <2> HIDE DEF all
    <2>3. got = all
      BY <2>1, <2>2, EverythingGiven
    <2>4. got = InOrder({i \in DOMAIN s.blocks[request.source].text :
                            MentionsBlock(s, request.source, i, request.target)}, <)
      BY <2>3 DEF all, Occurring
    <2> QED
      BY <1>11, <2>4 DEF IsWhole
  <1>12. CASE request.kind \notin {"linked", "preview", "query", "occurrences"}
    BY <1>12 DEF IsWhole
  <1> QED
    BY <1>8, <1>9, <1>10, <1>11, <1>12

\* ADR-0016: whatever is committed between two batches of an answer, or between two critical
\* sections of the call that collects the occurrences of a source (linkedReferenceOccurrences
\* takes the mutex five times), and however often the session is closed and opened in between,
\* a caller who reaches the end without an error was given every source, result or occurrence
\* of one revision, once and in order.
THEOREM EnumerationsAreWholeHolds == ReadsSpec => []EnumerationsAreWhole
  <1>1. ReadsInit => ReadInv
    BY InitCoherent DEF ReadsInit, ReadInv, Followed
  <1>2. ReadInv /\ [ReadsNext]_readVars => ReadInv'
    BY ReadsKeep
  <1>3. ReadInv => EnumerationsAreWhole
    BY AllGivenIsWhole
  <1> QED
    BY <1>1, <1>2, <1>3, PTL DEF ReadsSpec
-----------------------------------------------------------------------------
\* The bytewise order of names.

\* Two different sequences differ first somewhere, or one is a beginning of the other.
LEMMA GoesEitherWay ==
    ASSUME NEW x \in Seq(Nat), NEW y \in Seq(Nat), x # y
    PROVE  Goes(x, y) \/ Goes(y, x)
  <1> DEFINE D == {k \in Nat : k \in 1 .. Len(x) /\ k <= Len(y) /\ x[k] # y[k]}
  <1>1. Len(x) \in Nat /\ Len(y) \in Nat
    OBVIOUS
  <1>2. /\ \A i \in 1 .. Len(x) : x[i] \in Nat
        /\ \A i \in 1 .. Len(y) : y[i] \in Nat
    OBVIOUS
  <1>3. CASE D = {}
    <2>1. \A i \in Nat : i \in 1 .. Len(x) /\ i <= Len(y) => x[i] = y[i]
      BY <1>3
    <2>2. CASE Len(x) = Len(y)
      <3>1. \A i \in 1 .. Len(x) : x[i] = y[i]
        BY <1>1, <2>1, <2>2
      <3> QED
        BY <2>2, <3>1, SeqEqual
    <2>3. CASE Len(x) < Len(y)
      <3>1. \A i \in 1 .. Len(x) : x[i] = y[i]
        BY <1>1, <2>1, <2>3
      <3> QED
        BY <2>3, <3>1 DEF Goes
    <2>4. CASE Len(y) < Len(x)
      <3>1. \A i \in 1 .. Len(y) : y[i] = x[i]
        BY <1>1, <2>1, <2>4
      <3> QED
        BY <2>4, <3>1 DEF Goes
    <2> QED
      BY <1>1, <2>2, <2>3, <2>4
  <1>4. CASE D # {}
    <2>1. D \in SUBSET Nat
      OBVIOUS
    <2>2. PICK k \in D : \A j \in D : k <= j
      <3> HIDE DEF D
      <3> QED
        BY <1>4, <2>1, LeastNumber
    <2>3. k \in Nat /\ k \in 1 .. Len(x) /\ k \in 1 .. Len(y) /\ k <= Len(x) /\ k <= Len(y)
      BY <1>1
    <2>4. x[k] # y[k] /\ x[k] \in Nat /\ y[k] \in Nat
      BY <1>2, <2>3
    <2>5. ASSUME NEW i \in 1 .. (k - 1)
          PROVE  x[i] = y[i]
      <3>1. i \in Nat /\ ~(k <= i) /\ i \in 1 .. Len(x) /\ i <= Len(y)
        BY <1>1, <2>3
      <3>2. i \notin D
        BY <2>2, <3>1
      <3> QED
        BY <3>1, <3>2
    <2>6. CASE x[k] < y[k]
      BY <2>3, <2>5, <2>6 DEF Goes
    <2>7. CASE y[k] < x[k]
      BY <2>3, <2>5, <2>7 DEF Goes
    <2> QED
      BY <2>4, <2>6, <2>7
  <1> QED
    BY <1>3, <1>4

\* Up to where x goes before y: the first difference, or the end of x.
Parts(x, y, k) ==
    /\ k \in Nat /\ 1 <= k /\ k <= Len(y) /\ k <= Len(x) + 1
    /\ \A i \in Nat : 1 <= i /\ i < k => x[i] = y[i]
    /\ k <= Len(x) => x[k] < y[k]

LEMMA GoesAt ==
    ASSUME NEW x \in Seq(Nat), NEW y \in Seq(Nat)
    PROVE  Goes(x, y) <=> \E k : Parts(x, y, k)
  <1>1. Len(x) \in Nat /\ Len(y) \in Nat
    OBVIOUS
  <1>2. ASSUME Len(x) < Len(y), \A i \in 1 .. Len(x) : x[i] = y[i]
        PROVE  Parts(x, y, Len(x) + 1)
    BY <1>1, <1>2 DEF Parts
  <1>3. ASSUME NEW k \in 1 .. Len(x), k <= Len(y), x[k] < y[k], \A i \in 1 .. (k - 1) : x[i] = y[i]
        PROVE  Parts(x, y, k)
    <2>1. \A i \in Nat : 1 <= i /\ i < k => i \in 1 .. (k - 1)
      BY <1>1
    <2> QED
      BY <1>1, <1>3, <2>1 DEF Parts
  <1>4. ASSUME NEW k, Parts(x, y, k)
        PROVE  Goes(x, y)
    <2>1. /\ k \in Nat /\ 1 <= k /\ k <= Len(y) /\ k <= Len(x) + 1
          /\ \A i \in Nat : 1 <= i /\ i < k => x[i] = y[i]
          /\ k <= Len(x) => x[k] < y[k]
      BY <1>4 DEF Parts
    <2>2. CASE k <= Len(x)
      <3>1. k \in 1 .. Len(x) /\ k <= Len(y) /\ x[k] < y[k]
        BY <1>1, <2>1, <2>2
      <3>2. \A i \in 1 .. (k - 1) : x[i] = y[i]
        BY <2>1
      <3> QED
        BY <3>1, <3>2 DEF Goes
    <2>3. CASE k = Len(x) + 1
      <3>1. Len(x) < Len(y) /\ \A i \in 1 .. Len(x) : x[i] = y[i]
        BY <1>1, <2>1, <2>3
      <3> QED
        BY <3>1 DEF Goes
    <2> QED
      BY <1>1, <2>1, <2>2, <2>3
  <1> QED
    BY <1>2, <1>3, <1>4 DEF Goes

\* What comes before what comes before z comes before z.
LEMMA GoesOn ==
    ASSUME NEW x \in Seq(Nat), NEW y \in Seq(Nat), NEW z \in Seq(Nat), Goes(x, y), Goes(y, z)
    PROVE  Goes(x, z)
  <1>1. PICK k : Parts(x, y, k)
    BY GoesAt
  <1>2. PICK j : Parts(y, z, j)
    BY GoesAt
  <1>3. /\ k \in Nat /\ 1 <= k /\ k <= Len(y) /\ k <= Len(x) + 1
        /\ \A i \in Nat : 1 <= i /\ i < k => x[i] = y[i]
        /\ k <= Len(x) => x[k] < y[k]
    BY <1>1 DEF Parts
  <1>4. /\ j \in Nat /\ 1 <= j /\ j <= Len(z) /\ j <= Len(y) + 1
        /\ \A i \in Nat : 1 <= i /\ i < j => y[i] = z[i]
        /\ j <= Len(y) => y[j] < z[j]
    BY <1>2 DEF Parts
  <1>5. Len(x) \in Nat /\ Len(y) \in Nat /\ Len(z) \in Nat
    OBVIOUS
  <1>6. /\ \A i \in Nat : 1 <= i /\ i <= Len(x) => x[i] \in Nat
        /\ \A i \in Nat : 1 <= i /\ i <= Len(y) => y[i] \in Nat
        /\ \A i \in Nat : 1 <= i /\ i <= Len(z) => z[i] \in Nat
    OBVIOUS
  <1>7. CASE k < j
    <2>1. k <= Len(z) /\ y[k] = z[k] /\ \A i \in Nat : 1 <= i /\ i < k => x[i] = z[i]
      BY <1>3, <1>4, <1>5, <1>7
    <2>2. Parts(x, z, k)
      BY <1>3, <2>1 DEF Parts
    <2> QED
      BY <2>2, GoesAt
  <1>8. CASE j <= k
    <2>1. j <= Len(x) + 1 /\ j <= Len(y) /\ \A i \in Nat : 1 <= i /\ i < j => x[i] = z[i]
      BY <1>3, <1>4, <1>5, <1>8
    <2>2. ASSUME j <= Len(x)
          PROVE  x[j] < z[j]
      <3>1. y[j] < z[j] /\ x[j] \in Nat /\ y[j] \in Nat /\ z[j] \in Nat
        BY <1>4, <1>6, <2>1, <2>2
      <3>2. j < k => x[j] = y[j]
        BY <1>3, <1>4
      <3>3. j = k => x[j] < y[j]
        BY <1>3, <2>2
      <3>4. CASE j < k
        BY ONLY <3>1, <3>2, <3>4
      <3>5. CASE j = k
        BY ONLY <3>1, <3>3, <3>5
      <3>6. j < k \/ j = k
        BY ONLY <1>3, <1>4, <1>8
      <3> QED
        BY ONLY <3>4, <3>5, <3>6
    <2>3. Parts(x, z, j)
      BY <1>4, <2>1, <2>2 DEF Parts
    <2> QED
      BY <2>3, GoesAt
  <1> QED
    BY <1>3, <1>4, <1>7, <1>8

\* Sequences of names in bytewise order.
Rising(q) ==
    /\ q \in Seq(Seq(Nat))
    /\ \A i, j \in 1 .. Len(q) : i < j => Goes(q[i], q[j])

\* In such a sequence the order of the names is that of their places.
LEMMA RisingIs ==
    ASSUME NEW q, Rising(q)
    PROVE  /\ Len(q) \in Nat /\ DOMAIN q = 1 .. Len(q)
           /\ \A i \in 1 .. Len(q) : q[i] \in Seq(Nat)
           /\ \A i, j \in 1 .. Len(q) : (i < j <=> Goes(q[i], q[j])) /\ (i = j <=> q[i] = q[j])
  <1>1. q \in Seq(Seq(Nat)) /\ \A i, j \in 1 .. Len(q) : i < j => Goes(q[i], q[j])
    BY DEF Rising
  <1>2. /\ Len(q) \in Nat /\ DOMAIN q = 1 .. Len(q)
        /\ \A i \in 1 .. Len(q) : q[i] \in Seq(Nat)
    BY <1>1
  <1>3. ASSUME NEW i \in 1 .. Len(q), NEW j \in 1 .. Len(q), Goes(q[i], q[j])
        PROVE  i < j
    <2>1. q[i] \in Seq(Nat) /\ q[j] \in Seq(Nat)
      BY <1>2
    <2>2. ~Goes(q[j], q[i])
      BY <1>3, <2>1, GoesOneWay
    <2>3. ~(j < i)
      BY <1>1, <2>2
    <2>4. i # j
      BY <1>3, <2>2
    <2> QED
      BY <1>2, <2>3, <2>4
  <1>4. ASSUME NEW i \in 1 .. Len(q), NEW j \in 1 .. Len(q), q[i] = q[j]
        PROVE  i = j
    <2>1. q[i] \in Seq(Nat) /\ q[j] \in Seq(Nat)
      BY <1>2
    <2>2. ~Goes(q[i], q[j]) /\ ~Goes(q[j], q[i])
      BY <1>4, <2>1, GoesOneWay
    <2> QED
      BY <1>1, <1>2, <2>2
  <1> QED
    BY <1>1, <1>2, <1>3, <1>4

\* Every name of q is one of r; q and r have the same name at place m.
Within(q, r) == \A i \in 1 .. Len(q) : \E j \in 1 .. Len(r) : q[i] = r[j]
AgreeAt(q, r, m) == m \in 1 .. Len(q) => m \in 1 .. Len(r) /\ q[m] = r[m]

\* Two such sequences with the same names agree as far as one of them goes ...
LEMMA RisingAgree ==
    ASSUME NEW q, NEW r, Rising(q), Rising(r), Within(q, r), Within(r, q),
           NEW m \in Nat, \A b \in 0 .. (m - 1) : AgreeAt(q, r, b)
    PROVE  AgreeAt(q, r, m)
  <1>0. SUFFICES ASSUME m \in 1 .. Len(q) PROVE m \in 1 .. Len(r) /\ q[m] = r[m]
    BY DEF AgreeAt
  <1>1. /\ Len(q) \in Nat
        /\ \A i \in 1 .. Len(q) : q[i] \in Seq(Nat)
        /\ \A i, j \in 1 .. Len(q) : (i < j <=> Goes(q[i], q[j])) /\ (i = j <=> q[i] = q[j])
    BY RisingIs
  <1>2. /\ Len(r) \in Nat
        /\ \A i \in 1 .. Len(r) : r[i] \in Seq(Nat)
        /\ \A i, j \in 1 .. Len(r) : (i < j <=> Goes(r[i], r[j])) /\ (i = j <=> r[i] = r[j])
    BY RisingIs
  <1>3. PICK j \in 1 .. Len(r) : q[m] = r[j]
    BY <1>0 DEF Within
  <1>4. ~(j < m)
    <2> SUFFICES ASSUME j < m PROVE FALSE
      OBVIOUS
    <2>1. j \in 0 .. (m - 1) /\ j \in 1 .. Len(q) /\ j # m
      BY <1>0, <1>1, <1>2
    <2>2. q[j] = r[j]
      BY <2>1 DEF AgreeAt
    <2> QED
      BY <1>0, <1>1, <1>3, <2>1, <2>2
  <1>5. m \in 1 .. Len(r)
    BY <1>0, <1>1, <1>2, <1>4
  <1>6. PICK i \in 1 .. Len(q) : r[m] = q[i]
    BY <1>5 DEF Within
  <1>7. ~(i < m)
    <2> SUFFICES ASSUME i < m PROVE FALSE
      OBVIOUS
    <2>1. i \in 0 .. (m - 1)
      BY <1>1
    <2>2. i \in 1 .. Len(r) /\ q[i] = r[i] /\ i # m
      BY <1>1, <2>1 DEF AgreeAt
    <2> QED
      BY <1>2, <1>5, <1>6, <2>2
  <1>8. ~(m < j)
    <2> SUFFICES ASSUME m < j PROVE FALSE
      OBVIOUS
    <2>1. Goes(r[m], r[j])
      BY <1>0, <1>2, <1>5
    <2>2. Goes(q[i], q[m])
      BY <1>3, <1>6, <2>1
    <2> QED
      BY <1>0, <1>1, <1>7, <2>2
  <1>9. j = m
    BY <1>0, <1>1, <1>2, <1>4, <1>8
  <1> QED
    BY <1>3, <1>5, <1>9

\* ... so they are the same sequence.
LEMMA RisingSame ==
    ASSUME NEW q, NEW r, Rising(q), Rising(r), Within(q, r), Within(r, q)
    PROVE  q = r
  <1>1. q \in Seq(Seq(Nat)) /\ r \in Seq(Seq(Nat)) /\ Len(q) \in Nat /\ Len(r) \in Nat
    BY DEF Rising
  <1>2. \A m \in Nat : AgreeAt(q, r, m) /\ AgreeAt(r, q, m)
    <2> DEFINE I == {m \in Nat : AgreeAt(q, r, m) /\ AgreeAt(r, q, m)}
    <2>1. ASSUME NEW m \in Nat, \A b \in 0 .. (m - 1) : b \in I
          PROVE  m \in I
      <3>1. /\ \A b \in 0 .. (m - 1) : AgreeAt(q, r, b)
            /\ \A b \in 0 .. (m - 1) : AgreeAt(r, q, b)
        BY <2>1
      <3>2. AgreeAt(q, r, m) /\ AgreeAt(r, q, m)
        BY <3>1, RisingAgree
      <3> QED
        BY <3>2
    <2> HIDE DEF I
    <2>2. \A m \in Nat : m \in I
      BY <2>1, EarlierInduction
    <2> QED
      BY <2>2 DEF I
  <1>3. \A m \in 1 .. Len(q) : m \in 1 .. Len(r) /\ q[m] = r[m]
    BY <1>1, <1>2 DEF AgreeAt
  <1>5. \A m \in 1 .. Len(r) : m \in 1 .. Len(q)
    BY <1>1, <1>2 DEF AgreeAt
  <1>4. Len(q) = Len(r)
    <2>1. Len(q) <= Len(r)
      <3>1. Len(q) \in 1 .. Len(q) \/ Len(q) = 0
        BY <1>1
      <3> QED
        BY <1>1, <1>3, <3>1
    <2>2. Len(r) <= Len(q)
      <3>1. Len(r) \in 1 .. Len(r) \/ Len(r) = 0
        BY <1>1
      <3> QED
        BY <1>1, <1>5, <3>1
    <2> QED
      BY <1>1, <2>1, <2>2
  <1> QED
    BY <1>1, <1>3, <1>4, SeqEqual

\* A finite set of names, as InOrder lists it.
LEMMA NamesInOrder ==
    ASSUME NEW S \in SUBSET Seq(Nat), IsFiniteSet(S)
    PROVE  /\ Rising(InOrder(S, Precedes))
           /\ \A i \in 1 .. Len(InOrder(S, Precedes)) : InOrder(S, Precedes)[i] \in S
           /\ \A x \in S : \E i \in 1 .. Len(InOrder(S, Precedes)) : InOrder(S, Precedes)[i] = x
  <1> DEFINE R == {k \in S \X S : Goes(k[1], k[2])}
             q == InOrder(S, Precedes)
             k == Cardinality(S)
             at(i) == CHOOSE x \in S : Cardinality({y \in S : Precedes(y, x)}) = i - 1
  <1>1. q = [i \in 1 .. k |-> at(i)]
    BY DEF InOrder
  <1>2. k \in Nat
    BY FS_CardinalityType
  <1>3. \A x, y \in S : <<x, y>> \in R <=> Goes(x, y)
    OBVIOUS
  <1>4. Orders(R, S)
    <2>1. \A x \in S : <<x, x>> \notin R
      BY <1>3, GoesOneWay
    <2>2. \A x, y, z \in S : <<x, y>> \in R /\ <<y, z>> \in R => <<x, z>> \in R
      <3> SUFFICES ASSUME NEW x \in S, NEW y \in S, NEW z \in S, <<x, y>> \in R, <<y, z>> \in R
                   PROVE  <<x, z>> \in R
        OBVIOUS
      <3>1. x \in Seq(Nat) /\ y \in Seq(Nat) /\ z \in Seq(Nat) /\ Goes(x, y) /\ Goes(y, z)
        BY <1>3
      <3>2. Goes(x, z)
        BY <3>1, GoesOn
      <3> QED
        BY <1>3, <3>2
    <2>3. \A x, y \in S : x # y => <<x, y>> \in R \/ <<y, x>> \in R
      BY <1>3, GoesEitherWay
    <2> QED
      BY <2>1, <2>2, <2>3 DEF Orders
  <1>5. \A x \in S : {y \in S : Precedes(y, x)} = Ahead(R, S, x)
    <2> SUFFICES ASSUME NEW x \in S, NEW y \in S
                 PROVE  Precedes(y, x) <=> <<y, x>> \in R
      BY DEF Ahead
    <2>1. x \in Seq(Nat) /\ y \in Seq(Nat)
      OBVIOUS
    <2>2. Precedes(y, x) <=> Goes(y, x)
      BY <2>1, PrecedesIs
    <2> QED
      BY <1>3, <2>2
  <1>6. ASSUME NEW i \in 1 .. k
        PROVE  at(i) \in S /\ Cardinality(Ahead(R, S, at(i))) = i - 1
    <2>1. \E x \in S : Cardinality(Ahead(R, S, x)) = i - 1
      <3> HIDE DEF R, at
      <3> QED
        BY <1>4, AheadFound
    <2>2. \E x \in S : Cardinality({y \in S : Precedes(y, x)}) = i - 1
      BY <1>5, <2>1
    <2>3. at(i) \in S /\ Cardinality({y \in S : Precedes(y, at(i))}) = i - 1
      BY <2>2
    <2> HIDE DEF at
    <2> QED
      BY <1>5, <2>3
  <1> HIDE DEF q, at
  <1>7. DOMAIN q = 1 .. k /\ \A i \in 1 .. k : q[i] = at(i)
    BY <1>1
  <1>8. q = [i \in DOMAIN q |-> q[i]]
    BY <1>1
  <1>9. Places(R, S, q)
    BY <1>6, <1>7 DEF Places
  <1>10. Arranges(R, S, q)
    <2> HIDE DEF R
    <2> QED
      BY <1>4, <1>8, <1>9, PlacesArrange
  <1>11. /\ q \in Seq(S) /\ \A x \in S : \E i \in 1 .. Len(q) : q[i] = x
         /\ \A i, j \in 1 .. Len(q) : i < j <=> <<q[i], q[j]>> \in R
    BY <1>10 DEF Arranges
  <1>12. \A i \in 1 .. Len(q) : q[i] \in S
    BY <1>11
  <1>13. Rising(q)
    <2>1. q \in Seq(Seq(Nat))
      BY <1>11
    <2> QED
      BY <1>3, <1>11, <1>12, <2>1 DEF Rising
  <1> QED
    BY <1>11, <1>12, <1>13 DEF q
-----------------------------------------------------------------------------
\* A level of the Page hierarchy: the segments of names.

\* The name n has the beginning P.
Begins(P, n) == Len(P) <= Len(n) /\ \A i \in Nat : 1 <= i /\ i <= Len(P) => n[i] = P[i]

LEMMA BeginsIs ==
    ASSUME NEW P \in Seq(Nat), NEW n \in Seq(Nat)
    PROVE  IsPrefix(P, n) <=> Begins(P, n)
  <1>1. Len(P) \in Nat /\ Len(n) \in Nat
    OBVIOUS
  <1>2. Len(P) <= Len(n) => (SubSeq(P, 1, Len(P)) = SubSeq(n, 1, Len(P)) <=>
                                 \A i \in 1 .. Len(P) : P[i] = n[i])
    BY <1>1, SameBeginning
  <1>3. (\A i \in 1 .. Len(P) : P[i] = n[i]) <=> \A i \in Nat : 1 <= i /\ i <= Len(P) => n[i] = P[i]
    <2>1. \A i : i \in 1 .. Len(P) <=> i \in Nat /\ 1 <= i /\ i <= Len(P)
      BY <1>1
    <2> QED
      BY <2>1
  <1> QED
    BY <1>2, <1>3 DEF IsPrefix, Begins

\* x is what follows P in n, up to the next slash.
IsSegment(P, n, x) ==
    /\ x \in Seq(Nat) /\ Len(P) + Len(x) <= Len(n)
    /\ \A i \in Nat : 1 <= i /\ i <= Len(x) => x[i] = n[Len(P) + i] /\ x[i] # Slash
    /\ Len(P) + Len(x) = Len(n) \/ n[Len(P) + Len(x) + 1] = Slash

LEMMA SegmentIs ==
    ASSUME NEW P \in Seq(Nat), NEW n \in Seq(Nat), Begins(P, n)
    PROVE  IsSegment(P, n, Segment(P, n))
  <1> DEFINE a == Len(P)
             b == Len(n)
             slashes == {i \in a + 1 .. b : n[i] = Slash}
             e == IF slashes = {} THEN b ELSE Min(slashes) - 1
             x == Segment(P, n)
  <1>1. a \in Nat /\ b \in Nat /\ a <= b
    BY DEF Begins
  <1>2. /\ e \in Nat /\ a <= e /\ e <= b
        /\ \A i \in Nat : a < i /\ i <= e => n[i] # Slash
        /\ e = b \/ n[e + 1] = Slash
    <2>1. CASE slashes = {}
      <3>1. \A i \in Nat : a < i /\ i <= b => i \in a + 1 .. b
        BY <1>1
      <3> QED
        BY <1>1, <2>1, <3>1
    <2>2. CASE slashes # {}
      <3>1. slashes \in SUBSET Nat
        BY <1>1
      <3>2. \E m \in slashes : \A i \in slashes : m <= i
        <4> HIDE DEF slashes
        <4> QED
          BY <2>2, <3>1, LeastNumber
      <3>3. Min(slashes) \in slashes /\ \A i \in slashes : Min(slashes) <= i
        <4> HIDE DEF slashes
        <4> QED
          BY <3>2 DEF Min
      <3> DEFINE m == Min(slashes)
      <3>4. m \in Nat /\ a + 1 <= m /\ m <= b /\ n[m] = Slash
        BY <1>1, <3>3
      <3>5. \A i \in Nat : a < i /\ i <= m - 1 => n[i] # Slash
        <4> SUFFICES ASSUME NEW i \in Nat, a < i, i <= m - 1
                     PROVE  n[i] # Slash
          OBVIOUS
        <4>1. i \in a + 1 .. b /\ ~(m <= i)
          BY <1>1, <3>4
        <4> QED
          BY <3>3, <4>1
      <3>6. e = m - 1 /\ (m - 1) + 1 = m
        BY <2>2, <3>4
      <3> HIDE DEF m, slashes, a, b
      <3> QED
        BY <1>1, <3>4, <3>5, <3>6
    <2> QED
      BY <2>1, <2>2
  <1>3. x = SubSeq(n, a + 1, e)
    BY DEF Segment
  <1> HIDE DEF x, e, slashes
  <1>4. x \in Seq(Nat) /\ Len(x) = e - a /\ \A i \in Nat : 1 <= i /\ i <= e - a => x[i] = n[a + i]
    <2>1. a + 1 \in Int /\ e \in Int
      BY <1>1, <1>2
    <2>2. \A i \in (a + 1) .. e : n[i] \in Nat
      <3> SUFFICES ASSUME NEW i \in (a + 1) .. e
                   PROVE  n[i] \in Nat
        OBVIOUS
      <3>1. i \in 1 .. Len(n)
        BY <1>1, <1>2 DEF b
      <3> QED
        BY <3>1
    <2>3. /\ x \in Seq(Nat) /\ Len(x) = IF a + 1 <= e THEN e - (a + 1) + 1 ELSE 0
          /\ \A i \in 1 .. (e - (a + 1) + 1) : x[i] = n[(a + 1) + i - 1]
      <3> HIDE DEF a, b
      <3> QED
        BY ONLY <1>3, <2>1, <2>2, SubSeqProperties
    <2>4. e - (a + 1) + 1 = e - a /\ \A i \in Nat : (a + 1) + i - 1 = a + i
      BY <1>1, <1>2
    <2>5. Len(x) = e - a
      BY <1>1, <1>2, <2>3
    <2>6. \A i \in Nat : 1 <= i /\ i <= e - a => i \in 1 .. (e - a)
      BY <1>1, <1>2
    <2> QED
      BY <2>3, <2>4, <2>5, <2>6
  <1>5. \A i \in Nat : 1 <= i /\ i <= Len(x) => x[i] = n[a + i] /\ x[i] # Slash
    <2> SUFFICES ASSUME NEW i \in Nat, 1 <= i, i <= Len(x)
                 PROVE  x[i] = n[a + i] /\ x[i] # Slash
      OBVIOUS
    <2>1. x[i] = n[a + i]
      BY <1>4
    <2>2. a + i \in Nat /\ a < a + i /\ a + i <= e
      BY <1>1, <1>2, <1>4
    <2> QED
      BY <1>2, <2>1, <2>2
  <1>6. a + Len(x) = e
    BY <1>1, <1>2, <1>4
  <1> QED
    BY <1>1, <1>2, <1>4, <1>5, <1>6 DEF IsSegment, x, a, b

\* Two names that are alike beyond the segment of one of them have the same segment.
EqualBelow(n, m, c) ==
    /\ c \in Nat /\ c <= Len(n) + 1 /\ c <= Len(m) + 1
    /\ \A i \in Nat : 1 <= i /\ i < c => n[i] = m[i]

LEMMA SameSegment ==
    ASSUME NEW P \in Seq(Nat), NEW n \in Seq(Nat), NEW m \in Seq(Nat), NEW c, EqualBelow(n, m, c),
           NEW x, IsSegment(P, n, x), NEW y, IsSegment(P, m, y), Len(P) + Len(x) + 1 < c
    PROVE  x = y
  <1> DEFINE a == Len(P)
             b == Len(x)
             d == Len(y)
  <1>1. /\ x \in Seq(Nat) /\ y \in Seq(Nat)
        /\ a \in Nat /\ b \in Nat /\ d \in Nat /\ Len(n) \in Nat /\ Len(m) \in Nat
    BY DEF IsSegment
  <1>2. /\ a + b <= Len(n)
        /\ \A i \in Nat : 1 <= i /\ i <= b => x[i] = n[a + i] /\ x[i] # Slash
        /\ a + b = Len(n) \/ n[a + b + 1] = Slash
    BY DEF IsSegment
  <1>3. /\ a + d <= Len(m)
        /\ \A i \in Nat : 1 <= i /\ i <= d => y[i] = m[a + i] /\ y[i] # Slash
        /\ a + d = Len(m) \/ m[a + d + 1] = Slash
    BY DEF IsSegment
  <1>4. /\ c \in Nat /\ c <= Len(n) + 1 /\ c <= Len(m) + 1
        /\ \A i \in Nat : 1 <= i /\ i < c => n[i] = m[i]
    BY DEF EqualBelow
  <1>5. a + b + 1 < c
    OBVIOUS
  <1> HIDE DEF a, b, d
  <1>6. n[a + b + 1] = Slash /\ m[a + b + 1] = Slash
    <2>1. a + b # Len(n) /\ a + b + 1 \in Nat /\ 1 <= a + b + 1
      BY <1>1, <1>4, <1>5
    <2> QED
      BY <1>2, <1>4, <1>5, <2>1
  <1>7. ~(b < d)
    <2> SUFFICES ASSUME b < d PROVE FALSE
      OBVIOUS
    <2>1. b + 1 \in Nat /\ 1 <= b + 1 /\ b + 1 <= d /\ a + (b + 1) = a + b + 1
      BY <1>1
    <2>2. y[b + 1] = m[a + (b + 1)] /\ y[b + 1] # Slash
      BY <1>3, <2>1
    <2> QED
      BY <1>6, <2>1, <2>2
  <1>8. ~(d < b)
    <2> SUFFICES ASSUME d < b PROVE FALSE
      OBVIOUS
    <2>1. d + 1 \in Nat /\ 1 <= d + 1 /\ d + 1 <= b /\ a + (d + 1) = a + d + 1
      BY <1>1
    <2>2. a + d # Len(m) /\ a + d + 1 \in Nat /\ 1 <= a + d + 1 /\ a + d + 1 < c
      BY <1>1, <1>4, <1>5
    <2>3. n[a + d + 1] = Slash
      BY <1>3, <1>4, <2>2
    <2>4. x[d + 1] = n[a + (d + 1)] /\ x[d + 1] # Slash
      BY <1>2, <2>1
    <2> QED
      BY <2>1, <2>3, <2>4
  <1>9. b = d
    BY <1>1, <1>7, <1>8
  <1>10. ASSUME NEW i \in 1 .. b
         PROVE  x[i] = y[i]
    <2>1. i \in Nat /\ 1 <= i /\ i <= b /\ i <= d /\ a + i \in Nat /\ 1 <= a + i /\ a + i < c
      BY <1>1, <1>4, <1>5, <1>9
    <2> QED
      BY <1>2, <1>3, <1>4, <2>1
  <1> QED
    BY <1>1, <1>9, <1>10, SeqEqual DEF b, d

\* A name has one segment.
LEMMA OneSegment ==
    ASSUME NEW P \in Seq(Nat), NEW n \in Seq(Nat), NEW x, IsSegment(P, n, x), NEW y, IsSegment(P, n, y)
    PROVE  x = y
  <1> DEFINE a == Len(P)
             b == Len(x)
             d == Len(y)
             c == Len(n) + 1
  <1>1. /\ x \in Seq(Nat) /\ y \in Seq(Nat)
        /\ a \in Nat /\ b \in Nat /\ d \in Nat /\ Len(n) \in Nat
        /\ a + b <= Len(n) /\ a + d <= Len(n)
    BY DEF IsSegment
  <1>2. /\ \A i \in Nat : 1 <= i /\ i <= b => x[i] = n[a + i]
        /\ \A i \in Nat : 1 <= i /\ i <= d => y[i] = n[a + i]
    BY DEF IsSegment
  <1>3. EqualBelow(n, n, c)
    BY <1>1 DEF EqualBelow
  <1>4. CASE a + b + 1 < c
    BY <1>3, <1>4, SameSegment
  <1>5. CASE a + d + 1 < c
    BY <1>3, <1>5, SameSegment
  <1>6. CASE ~(a + b + 1 < c) /\ ~(a + d + 1 < c)
    <2>1. b = d
      BY <1>1, <1>6
    <2>2. \A i \in 1 .. b : x[i] = y[i]
      BY <1>1, <1>2, <2>1
    <2> QED
      BY <1>1, <2>1, <2>2, SeqEqual
  <1> QED
    BY <1>4, <1>5, <1>6

\* Of two names, one goes on with a slash where the other goes on with a byte below it.
Crossed(n, m) ==
    \E k \in Nat : /\ 1 <= k /\ k <= Len(n) /\ k <= Len(m)
                   /\ \A i \in Nat : 1 <= i /\ i < k => n[i] = m[i]
                   /\ m[k] = Slash /\ n[k] < Slash

\* In order, names that are not crossed have their segments in order.
LEMMA SegmentsRise ==
    ASSUME NEW P \in Seq(Nat), NEW n \in Seq(Nat), NEW m \in Seq(Nat), Begins(P, n), Begins(P, m),
           Goes(n, m), ~Crossed(n, m), NEW x, IsSegment(P, n, x), NEW y, IsSegment(P, m, y)
    PROVE  x = y \/ Goes(x, y)
  <1> DEFINE a == Len(P)
             b == Len(x)
             d == Len(y)
  <1>1. /\ x \in Seq(Nat) /\ y \in Seq(Nat)
        /\ a \in Nat /\ b \in Nat /\ d \in Nat /\ Len(n) \in Nat /\ Len(m) \in Nat
    BY DEF IsSegment
  <1>2. /\ a + b <= Len(n)
        /\ \A i \in Nat : 1 <= i /\ i <= b => x[i] = n[a + i] /\ x[i] # Slash
        /\ a + b = Len(n) \/ n[a + b + 1] = Slash
    BY DEF IsSegment
  <1>3. /\ a + d <= Len(m)
        /\ \A i \in Nat : 1 <= i /\ i <= d => y[i] = m[a + i] /\ y[i] # Slash
        /\ a + d = Len(m) \/ m[a + d + 1] = Slash
    BY DEF IsSegment
  <1>4. PICK k : Parts(n, m, k)
    BY GoesAt
  <1>5. /\ k \in Nat /\ 1 <= k /\ k <= Len(m) /\ k <= Len(n) + 1
        /\ \A i \in Nat : 1 <= i /\ i < k => n[i] = m[i]
        /\ k <= Len(n) => n[k] < m[k]
    BY <1>4 DEF Parts
  <1>6. a < k
    <2>1. /\ a <= Len(n) /\ \A i \in Nat : 1 <= i /\ i <= a => n[i] = P[i]
          /\ a <= Len(m) /\ \A i \in Nat : 1 <= i /\ i <= a => m[i] = P[i]
      BY DEF Begins
    <2> SUFFICES ASSUME k <= a PROVE FALSE
      BY <1>1, <1>5
    <2>2. n[k] = P[k] /\ m[k] = P[k]
      BY <1>5, <2>1
    <2>3. n[k] < m[k]
      BY <1>1, <1>5, <2>1
    <2>4. P[k] \in Nat
      BY <1>5
    <2> QED
      BY <2>2, <2>3, <2>4
  <1>7. EqualBelow(n, m, k) /\ EqualBelow(m, n, k)
    BY <1>1, <1>5 DEF EqualBelow
  <1>8. CASE a + b + 1 < k
    BY <1>7, <1>8, SameSegment
  <1>9. CASE a + d + 1 < k
    BY <1>7, <1>9, SameSegment
  <1>10. CASE ~(a + b + 1 < k) /\ ~(a + d + 1 < k)
    <2> DEFINE j == k - a
    <2>1. j \in Nat /\ 1 <= j /\ a + j = k /\ j <= b + 1 /\ j <= d + 1
      BY <1>1, <1>5, <1>6, <1>10
    <2> HIDE DEF j
    <2>2. ASSUME NEW i \in Nat, 1 <= i, i < j
          PROVE  x[i] = y[i]
      <3>1. i <= b /\ i <= d /\ a + i \in Nat /\ 1 <= a + i /\ a + i < k
        BY <1>1, <2>1, <2>2
      <3> QED
        BY <1>2, <1>3, <1>5, <2>2, <3>1
    <2>3. CASE d + 1 = j
      <3>1. m[k] = Slash
        <4>1. a + d + 1 = k /\ a + d # Len(m)
          BY <1>1, <1>5, <2>1, <2>3
        <4> QED
          BY <1>3, <4>1
      <3>2. ~(k <= Len(n))
        <4> SUFFICES ASSUME k <= Len(n) PROVE FALSE
          OBVIOUS
        <4>1. n[k] < Slash
          BY <1>5, <3>1
        <4> QED
          BY <1>5, <3>1, <4>1 DEF Crossed
      <3>3. b = d
        BY <1>1, <1>2, <1>5, <2>1, <2>3, <3>2
      <3>4. \A i \in 1 .. b : x[i] = y[i]
        BY <1>1, <2>1, <2>2, <2>3, <3>3
      <3> QED
        BY <1>1, <3>3, <3>4, SeqEqual
    <2>4. CASE j <= d
      <3>1. ASSUME j <= b
            PROVE  x[j] < y[j]
        <4>1. x[j] = n[k] /\ y[j] = m[k]
          BY <1>2, <1>3, <2>1, <2>4, <3>1
        <4>2. k <= Len(n)
          BY <1>1, <1>2, <2>1, <3>1
        <4> QED
          BY <1>5, <4>1, <4>2
      <3>2. Parts(x, y, j)
        BY <2>1, <2>2, <2>4, <3>1 DEF Parts
      <3> QED
        BY <1>1, <3>2, GoesAt
    <2> QED
      BY <1>1, <2>1, <2>3, <2>4
  <1> QED
    BY <1>8, <1>9, <1>10

\* A name with a segment after the last one comes after where the scan begins.
LEMMA SegmentAhead ==
    ASSUME NEW P \in Seq(Nat), NEW n \in Seq(Nat), Begins(P, n), NEW x, IsSegment(P, n, x),
           NEW last \in Seq(Nat), Goes(last, x)
    PROVE  ~Goes(n, P \o last)
  <1> DEFINE a == Len(P)
             b == Len(x)
             z == P \o last
  <1>1. /\ x \in Seq(Nat) /\ a \in Nat /\ b \in Nat /\ Len(n) \in Nat /\ Len(last) \in Nat
        /\ a + b <= Len(n)
        /\ \A i \in Nat : 1 <= i /\ i <= b => x[i] = n[a + i]
    <2>1. /\ x \in Seq(Nat) /\ Len(P) + Len(x) <= Len(n)
          /\ \A i \in Nat : 1 <= i /\ i <= Len(x) => x[i] = n[Len(P) + i]
      BY ONLY IsSegment(P, n, x) DEF IsSegment
    <2>2. Len(P) \in Nat /\ Len(x) \in Nat /\ Len(n) \in Nat /\ Len(last) \in Nat
      BY <2>1
    <2> QED
      BY <2>1, <2>2
  <1>2. /\ z \in Seq(Nat) /\ Len(z) = a + Len(last)
        /\ \A i \in Nat : 1 <= i /\ i <= a => z[i] = P[i]
        /\ \A i \in Nat : 1 <= i /\ i <= Len(last) => z[a + i] = last[i]
    OBVIOUS
  <1>3. \A i \in Nat : 1 <= i /\ i <= a => n[i] = P[i]
    BY DEF Begins
  <1>4. PICK k : Parts(last, x, k)
    BY <1>1, GoesAt
  <1>5. /\ k \in Nat /\ 1 <= k /\ k <= b /\ k <= Len(last) + 1
        /\ \A i \in Nat : 1 <= i /\ i < k => last[i] = x[i]
        /\ k <= Len(last) => last[k] < x[k]
    BY <1>4 DEF Parts
  <1> HIDE DEF a, b, z
  <1>6. ASSUME NEW i \in Nat, 1 <= i, i < a + k
        PROVE  z[i] = n[i]
    <2>1. CASE i <= a
      BY <1>2, <1>3, <1>6, <2>1
    <2>2. CASE a < i
      <3> DEFINE j == i - a
      <3>1. j \in Nat /\ 1 <= j /\ j < k /\ a + j = i /\ j <= Len(last) /\ j <= b
        BY <1>1, <1>5, <1>6, <2>2
      <3> HIDE DEF j
      <3> QED
        BY <1>1, <1>2, <1>5, <3>1
    <2> QED
      BY <1>1, <2>1, <2>2
  <1>7. ASSUME a + k <= Len(z)
        PROVE  z[a + k] < n[a + k]
    <2>1. k <= Len(last)
      BY <1>1, <1>2, <1>5, <1>7
    <2> QED
      BY <1>1, <1>2, <1>5, <2>1
  <1>8. Parts(z, n, a + k)
    <2>1. a + k \in Nat /\ 1 <= a + k /\ a + k <= Len(n) /\ a + k <= Len(z) + 1
      <3>1. /\ a \in Nat /\ b \in Nat /\ Len(n) \in Nat /\ Len(last) \in Nat /\ a + b <= Len(n)
            /\ Len(z) = a + Len(last)
        BY <1>1, <1>2
      <3>2. k \in Nat /\ 1 <= k /\ k <= b /\ k <= Len(last) + 1
        BY <1>5
      <3> QED
        BY ONLY <3>1, <3>2
    <2> QED
      BY <1>6, <1>7, <2>1 DEF Parts
  <1>9. Goes(z, n)
    BY <1>2, <1>8, GoesAt
  <1>10. ~Goes(n, z)
    BY <1>2, <1>9, GoesOneWay
  <1> QED
    BY <1>10 DEF z

\* What the scan has taken with the i-th name, of those in q, when it had taken v.
ScanNext(P, q, last, i, v) ==
    IF Takes(v, Segment(P, q[i]), last) THEN Append(v, Segment(P, q[i])) ELSE v
ScanSteps(P, q, last, f) ==
    f = [i \in 0 .. Len(q) |->
            IF i = 0 THEN <<>>
            ELSE IF Takes(f[i - 1], Segment(P, q[i]), last)
                 THEN Append(f[i - 1], Segment(P, q[i])) ELSE f[i - 1]]

\* The names a scan goes through.
ScannedNames(s, P, last) ==
    {n \in PageSpellings(s) : IsPrefix(P, n) /\ ~Precedes(n, P \o last)}

\* The scan exists, and ends with the segments of the level.
LEMMA ScanStepsExist ==
    ASSUME NEW s, NEW parent, NEW last, NEW P, P = HierarchyPrefix(parent),
           NEW q, q = InOrder(ScannedNames(s, P, last), Precedes), Len(q) \in Nat,
           \A i \in 1 .. Len(q) : Segment(P, q[i]) \in Seq(Nat)
    PROVE  \E f : /\ f[0] = <<>> /\ ReadHierarchyChildren(s, parent, last) = f[Len(q)]
                  /\ \A i \in 1 .. Len(q) : f[i] = ScanNext(P, q, last, i, f[i - 1])
  <1> DEFINE A == Seq(Seq(Nat))
             n == Len(q)
             F == [m \in 1 .. n |-> [v \in A |-> ScanNext(P, q, last, m, v)]]
             c == CHOOSE f : ScanSteps(P, q, last, f)
  <1>n. n \in Nat
    OBVIOUS
  <1>9. ReadHierarchyChildren(s, parent, last) = c[n]
    BY DEF ReadHierarchyChildren, ScanSteps, ScannedNames
  <1>1. \A m \in 1 .. n : \A v \in A : F[m][v] = ScanNext(P, q, last, m, v)
    OBVIOUS
  <1>2. \A m \in 1 .. n, v \in A : ScanNext(P, q, last, m, v) \in A
    <2> SUFFICES ASSUME NEW m \in 1 .. n, NEW v \in A
                 PROVE  ScanNext(P, q, last, m, v) \in A
      OBVIOUS
    <2> DEFINE x == Segment(P, q[m])
    <2>1. x \in Seq(Nat)
      OBVIOUS
    <2> HIDE DEF x
    <2>2. Append(v, x) \in A
      BY <2>1
    <2> QED
      BY <2>2 DEF ScanNext, x
  <1>3. StepsIn(A, F, n)
    <2> HIDE DEF F, A, n
    <2> QED
      BY <1>1, <1>2 DEF StepsIn
  <1>4. <<>> \in A
    OBVIOUS
  <1>6. \A f : ScanSteps(P, q, last, f) <=>
                  f = [m \in 0 .. n |-> IF m = 0 THEN <<>> ELSE ScanNext(P, q, last, m, f[m - 1])]
    BY DEF ScanSteps, ScanNext
  <1> HIDE DEF A, F, n
  <1>5. PICK g : StepsFrom(A, <<>>, F, n, g)
    BY <1>n, <1>3, <1>4, StepsExist
  <1> DEFINE body(f, m) == IF m = 0 THEN <<>> ELSE ScanNext(P, q, last, m, f[m - 1])
  <1>7. ScanSteps(P, q, last, g)
    <2>1. /\ g \in [0 .. n -> A] /\ g[0] = <<>>
          /\ \A m \in 1 .. n : g[m] = F[m][g[m - 1]]
      BY <1>5 DEF StepsFrom
    <2>2. \A m \in 0 .. n : m # 0 => m \in 1 .. n /\ m - 1 \in 0 .. n
      BY <1>n
    <2>3. ASSUME NEW m \in 0 .. n
          PROVE  g[m] = body(g, m)
      <3>1. CASE m = 0
        BY <2>1, <3>1
      <3>2. CASE m # 0
        <4>1. m \in 1 .. n /\ g[m - 1] \in A
          BY <2>1, <2>2, <3>2
        <4>2. g[m] = F[m][g[m - 1]]
          BY <2>1, <4>1
        <4>3. F[m][g[m - 1]] = body(g, m)
          BY <1>1, <3>2, <4>1
        <4> QED
          BY <4>2, <4>3
      <3> QED
        BY <3>1, <3>2
    <2>4. g = [m \in 0 .. n |-> g[m]]
      BY <2>1
    <2> HIDE DEF body
    <2>5. g = [m \in 0 .. n |-> body(g, m)]
      BY <2>3, <2>4
    <2> QED
      BY <1>6, <2>5 DEF body
  <1>8. ScanSteps(P, q, last, c)
    BY <1>7
  <1> HIDE DEF c
  <1>10. \A m \in 0 .. n : c[m] = body(c, m)
    <2>1. c = [m \in 0 .. n |-> body(c, m)]
      BY <1>6, <1>8
    <2> HIDE DEF body
    <2> QED
      BY <2>1
  <1>11. c[0] = <<>>
    BY <1>n, <1>10
  <1>12. \A i \in 1 .. n : c[i] = ScanNext(P, q, last, i, c[i - 1])
    BY <1>n, <1>10
  <1> QED
    BY <1>9, <1>11, <1>12 DEF n

\* The segments of names in order: each is the one before it or comes after it.
Ascends(g, n) ==
    /\ \A i \in 1 .. n : g[i] \in Seq(Nat)
    /\ \A i, j \in 1 .. n : i < j => g[i] = g[j] \/ Goes(g[i], g[j])

\* v has the segments after the last one among the first i, once each and in order.
TakenIs(g, last, i, v) ==
    /\ Rising(v)
    /\ \A a \in 1 .. Len(v) : /\ v[a] # <<>> /\ Goes(last, v[a])
                              /\ \E j \in 1 .. i : v[a] = g[j]
    /\ \A j \in 1 .. i : g[j] # <<>> /\ Goes(last, g[j]) => \E a \in 1 .. Len(v) : v[a] = g[j]

LEMMA TakenNext ==
    ASSUME NEW g, NEW n \in Nat, Ascends(g, n), NEW last \in Seq(Nat), NEW i \in 1 .. n,
           NEW v, TakenIs(g, last, i - 1, v)
    PROVE  TakenIs(g, last, i, IF Takes(v, g[i], last) THEN Append(v, g[i]) ELSE v)
  <1> DEFINE x == g[i]
             k == Len(v)
             w == Append(v, x)
  <1>1. /\ \A j \in 1 .. n : g[j] \in Seq(Nat)
        /\ \A h, j \in 1 .. n : h < j => g[h] = g[j] \/ Goes(g[h], g[j])
    BY DEF Ascends
  <1>2. /\ Rising(v)
        /\ \A a \in 1 .. k : /\ v[a] # <<>> /\ Goes(last, v[a])
                             /\ \E j \in 1 .. (i - 1) : v[a] = g[j]
        /\ \A j \in 1 .. (i - 1) : g[j] # <<>> /\ Goes(last, g[j]) => \E a \in 1 .. k : v[a] = g[j]
    BY DEF TakenIs
  <1>3. v \in Seq(Seq(Nat)) /\ k \in Nat /\ (v = <<>> <=> k = 0)
    BY <1>2 DEF Rising
  <1>4. x \in Seq(Nat)
    BY <1>1
  <1>5. \A j \in 1 .. i : j \in 1 .. (i - 1) \/ j = i
    OBVIOUS
  <1>6. \A j \in 1 .. (i - 1) : j \in 1 .. i /\ j \in 1 .. n /\ j < i
    OBVIOUS
  <1>7. Takes(v, x, last) <=> x # <<>> /\ (k = 0 \/ x # v[k]) /\ Goes(last, x)
    <2>1. Precedes(last, x) <=> Goes(last, x)
      BY <1>4, PrecedesIs
    <2>2. Last(v) = v[k]
      BY DEF Last
    <2> QED
      BY <1>3, <2>1, <2>2 DEF Takes
  <1> HIDE DEF x
  <1>8. ASSUME Takes(v, x, last)
        PROVE  TakenIs(g, last, i, w)
    <2>1. /\ w \in Seq(Seq(Nat)) /\ Len(w) = k + 1 /\ w[k + 1] = x
          /\ \A a \in 1 .. k : w[a] = v[a]
      BY <1>3, <1>4
    <2>2. \A a \in 1 .. (k + 1) : a \in 1 .. k \/ a = k + 1
      BY <1>3
    <2>3. \A a \in 1 .. k : v[a] = x \/ Goes(v[a], x)
      <3> SUFFICES ASSUME NEW a \in 1 .. k
                   PROVE  v[a] = x \/ Goes(v[a], x)
        OBVIOUS
      <3>1. PICK j \in 1 .. (i - 1) : v[a] = g[j]
        BY <1>2
      <3> QED
        BY <1>1, <1>6, <3>1 DEF x
    <2>4. ASSUME NEW a \in 1 .. k
          PROVE  Goes(v[a], x)
      <3>1. k \in 1 .. k /\ v[k] \in Seq(Nat) /\ v[a] \in Seq(Nat)
        BY <1>3
      <3>2. Goes(v[k], x)
        BY <1>3, <1>7, <1>8, <2>3, <3>1
      <3>3. CASE a = k
        BY <3>2, <3>3
      <3>4. CASE a # k
        <4>1. a < k
          BY <1>3, <3>4
        <4>2. Goes(v[a], v[k])
          BY <1>2, <3>1, <4>1 DEF Rising
        <4> QED
          BY <1>4, <3>1, <3>2, <4>2, GoesOn
      <3> QED
        BY <3>3, <3>4
    <2>5. Rising(w)
      <3>1. ASSUME NEW a \in 1 .. (k + 1), NEW b \in 1 .. (k + 1), a < b
            PROVE  Goes(w[a], w[b])
        <4>1. a \in 1 .. k
          BY <1>3, <3>1
        <4>2. CASE b = k + 1
          BY <2>1, <2>4, <4>1, <4>2
        <4>3. CASE b \in 1 .. k
          <5>1. Goes(v[a], v[b])
            BY <1>2, <3>1, <4>1, <4>3 DEF Rising
          <5> QED
            BY <2>1, <4>1, <4>3, <5>1
        <4> QED
          BY <2>2, <4>2, <4>3
      <3> HIDE DEF w
      <3> QED
        BY <2>1, <3>1 DEF Rising
    <2> HIDE DEF w
    <2>6. ASSUME NEW a \in 1 .. Len(w)
          PROVE  w[a] # <<>> /\ Goes(last, w[a]) /\ \E j \in 1 .. i : w[a] = g[j]
      <3>1. CASE a = k + 1
        BY <1>7, <1>8, <2>1, <3>1 DEF x
      <3>2. CASE a \in 1 .. k
        <4>1. w[a] = v[a]
          BY <2>1, <3>2
        <4>2. v[a] # <<>> /\ Goes(last, v[a]) /\ \E j \in 1 .. (i - 1) : v[a] = g[j]
          BY <1>2, <3>2
        <4>3. PICK j \in 1 .. (i - 1) : v[a] = g[j]
          BY <4>2
        <4>4. j \in 1 .. i
          BY <1>6
        <4> QED
          BY <4>1, <4>2, <4>3, <4>4
      <3> QED
        BY <2>1, <2>2, <3>1, <3>2
    <2>7. ASSUME NEW j \in 1 .. i, g[j] # <<>>, Goes(last, g[j])
          PROVE  \E a \in 1 .. Len(w) : w[a] = g[j]
      <3>1. CASE j = i
        <4>1. k + 1 \in 1 .. Len(w)
          BY <1>3, <2>1
        <4> QED
          BY <2>1, <3>1, <4>1 DEF x
      <3>2. CASE j \in 1 .. (i - 1)
        <4>1. PICK a \in 1 .. k : v[a] = g[j]
          BY <1>2, <2>7, <3>2
        <4>2. a \in 1 .. Len(w)
          BY <1>3, <2>1
        <4> QED
          BY <2>1, <4>1, <4>2
      <3> QED
        BY <1>5, <3>1, <3>2
    <2> QED
      BY <2>5, <2>6, <2>7 DEF TakenIs
  <1>9. ASSUME ~Takes(v, x, last)
        PROVE  TakenIs(g, last, i, v)
    <2>1. \A a \in 1 .. k : v[a] # <<>> /\ Goes(last, v[a]) /\ \E j \in 1 .. i : v[a] = g[j]
      BY <1>2, <1>6
    <2>2. ASSUME NEW j \in 1 .. i, g[j] # <<>>, Goes(last, g[j])
          PROVE  \E a \in 1 .. k : v[a] = g[j]
      <3>1. CASE j = i
        <4>1. k # 0 /\ x = v[k]
          BY <1>7, <1>9, <2>2, <3>1 DEF x
        <4>2. k \in 1 .. k
          BY <1>3, <4>1
        <4> QED
          BY <3>1, <4>1, <4>2 DEF x
      <3>2. CASE j \in 1 .. (i - 1)
        BY <1>2, <2>2, <3>2
      <3> QED
        BY <1>5, <3>1, <3>2
    <2> QED
      BY <1>2, <2>1, <2>2 DEF TakenIs
  <1> QED
    BY <1>8, <1>9 DEF x, w

\* The scan takes the segments after the last one, once each and in order.
LEMMA ScanTakes ==
    ASSUME NEW P, NEW q, NEW last \in Seq(Nat), NEW g, Len(q) \in Nat, Ascends(g, Len(q)),
           \A i \in 1 .. Len(q) : g[i] = Segment(P, q[i]),
           NEW f, f[0] = <<>>, \A i \in 1 .. Len(q) : f[i] = ScanNext(P, q, last, i, f[i - 1])
    PROVE  TakenIs(g, last, Len(q), f[Len(q)])
  <1> DEFINE n == Len(q)
             J == {i \in Nat : i <= n => TakenIs(g, last, i, f[i])}
  <1>n. n \in Nat
    OBVIOUS
  <1>1. 0 \in J
    <2>1. Rising(<<>>) /\ Len(<<>>) = 0
      BY DEF Rising
    <2>2. \A i : i \notin 1 .. 0
      OBVIOUS
    <2>3. TakenIs(g, last, 0, <<>>)
      BY <2>1, <2>2 DEF TakenIs
    <2> QED
      BY <2>3
  <1>2. ASSUME NEW i \in Nat, i \in J
        PROVE  i + 1 \in J
    <2>1. ASSUME i + 1 <= n
          PROVE  TakenIs(g, last, i + 1, f[i + 1])
      <3>1. i + 1 \in 1 .. n /\ (i + 1) - 1 = i /\ i <= n
        BY <1>n, <2>1
      <3>2. TakenIs(g, last, (i + 1) - 1, f[i])
        BY <1>2, <3>1
      <3>3. f[i + 1] = IF Takes(f[i], g[i + 1], last) THEN Append(f[i], g[i + 1]) ELSE f[i]
        BY <3>1 DEF ScanNext
      <3>4. TakenIs(g, last, i + 1, IF Takes(f[i], g[i + 1], last) THEN Append(f[i], g[i + 1]) ELSE f[i])
        <4> HIDE DEF n
        <4>1. Ascends(g, n)
          BY DEF n
        <4> QED
          BY ONLY <1>n, <3>1, <3>2, <4>1, TakenNext, last \in Seq(Nat)
      <3> QED
        BY <3>3, <3>4
    <2> QED
      BY <2>1
  <1>3. \A i \in Nat : i \in J
    <2> HIDE DEF J
    <2> QED
      BY <1>1, <1>2, IndexInduction
  <1> QED
    BY <1>n, <1>3

\* A name begins with the prefix and the segment.
LEMMA SegmentFollows ==
    ASSUME NEW P \in Seq(Nat), NEW n \in Seq(Nat), Begins(P, n), NEW x, IsSegment(P, n, x)
    PROVE  /\ P \o x \in Seq(Nat) /\ Len(P \o x) = Len(P) + Len(x) /\ Len(P) + Len(x) <= Len(n)
           /\ \A i \in Nat : 1 <= i /\ i <= Len(P) + Len(x) => (P \o x)[i] = n[i]
  <1> DEFINE z == P \o x
  <1>1. /\ x \in Seq(Nat) /\ Len(P) + Len(x) <= Len(n)
        /\ \A i \in Nat : 1 <= i /\ i <= Len(x) => x[i] = n[Len(P) + i]
    BY DEF IsSegment
  <1>2. /\ z \in Seq(Nat) /\ Len(z) = Len(P) + Len(x) /\ Len(P) \in Nat /\ Len(x) \in Nat
        /\ \A i \in Nat : 1 <= i /\ i <= Len(P) => z[i] = P[i]
        /\ \A i \in Nat : 1 <= i /\ i <= Len(x) => z[Len(P) + i] = x[i]
    BY <1>1
  <1>3. \A i \in Nat : 1 <= i /\ i <= Len(P) => n[i] = P[i]
    BY DEF Begins
  <1> HIDE DEF z
  <1>4. ASSUME NEW i \in Nat, 1 <= i, i <= Len(P) + Len(x)
        PROVE  z[i] = n[i]
    <2>1. CASE i <= Len(P)
      BY <1>2, <1>3, <1>4, <2>1
    <2>2. CASE Len(P) < i
      <3> DEFINE j == i - Len(P)
      <3>1. j \in Nat /\ 1 <= j /\ j <= Len(x) /\ Len(P) + j = i
        BY <1>2, <1>4, <2>2
      <3> HIDE DEF j
      <3> QED
        BY <1>1, <1>2, <3>1
    <2> QED
      BY <1>2, <2>1, <2>2
  <1> QED
    BY <1>1, <1>2, <1>4 DEF z

\* A node has a Page of its name, or Pages below it.
LEMMA NodeExistsIs ==
    ASSUME NEW s, PageSpellings(s) \in SUBSET Seq(Nat), NEW P \in Seq(Nat), NEW x \in Seq(Nat),
           \A i \in Nat : 1 <= i /\ i <= Len(x) => x[i] # Slash
    PROVE  HierarchyNodeExists(s, P \o x) <=>
              \E n \in PageSpellings(s) : Begins(P, n) /\ IsSegment(P, n, x)
  <1> DEFINE S == PageSpellings(s)
             z == P \o x
             y == Append(z, Slash)
             a == Len(P)
             b == Len(x)
  <1>1. /\ z \in Seq(Nat) /\ Len(z) = a + b /\ a \in Nat /\ b \in Nat
        /\ \A i \in Nat : 1 <= i /\ i <= a => z[i] = P[i]
        /\ \A i \in Nat : 1 <= i /\ i <= b => z[a + i] = x[i]
    OBVIOUS
  <1>2. Slash \in Nat
    BY DEF Slash
  <1>3. /\ y \in Seq(Nat) /\ Len(y) = a + b + 1 /\ y[a + b + 1] = Slash
        /\ \A i \in Nat : 1 <= i /\ i <= a + b => y[i] = z[i]
    <2> HIDE DEF z, a, b
    <2> QED
      BY <1>1, <1>2
  <1>4. HierarchyNodeExists(s, z) <=> z \in S \/ \E n \in S : IsPrefix(y, n)
    BY DEF HierarchyNodeExists, HierarchyNameHasChildren
  <1> HIDE DEF S, z, y, a, b
  <1>5. ASSUME z \in S
        PROVE  \E n \in S : Begins(P, n) /\ IsSegment(P, n, x)
    <2>1. Begins(P, z)
      BY <1>1 DEF Begins, a
    <2>2. IsSegment(P, z, x)
      BY <1>1 DEF IsSegment, a, b
    <2> QED
      BY <1>5, <2>1, <2>2
  <1>6. ASSUME NEW n \in S, IsPrefix(y, n)
        PROVE  Begins(P, n) /\ IsSegment(P, n, x)
    <2>1. n \in Seq(Nat)
      BY DEF S
    <2>2. Begins(y, n)
      BY <1>3, <1>6, <2>1, BeginsIs
    <2>3. a + b + 1 <= Len(n) /\ \A i \in Nat : 1 <= i /\ i <= a + b + 1 => n[i] = y[i]
      BY <1>3, <2>2 DEF Begins
    <2>4. \A i \in Nat : 1 <= i /\ i <= a + b => n[i] = z[i]
      BY <1>1, <1>3, <2>3
    <2>5. n[a + b + 1] = Slash
      BY <1>1, <1>3, <2>3
    <2>6. Len(n) \in Nat /\ a <= Len(n) /\ a + b <= Len(n)
      BY <1>1, <2>1, <2>3
    <2>7. \A i \in Nat : 1 <= i /\ i <= a => n[i] = P[i]
      BY <1>1, <2>4
    <2>8. ASSUME NEW i \in Nat, 1 <= i, i <= b
          PROVE  x[i] = n[a + i]
      <3>1. a + i \in Nat /\ 1 <= a + i /\ a + i <= a + b
        BY <1>1, <2>8
      <3> QED
        BY <1>1, <2>4, <2>8, <3>1
    <2>9. Begins(P, n)
      BY <2>6, <2>7 DEF Begins, a
    <2>10. IsSegment(P, n, x)
      BY <2>5, <2>6, <2>8 DEF IsSegment, a, b
    <2> QED
      BY <2>9, <2>10
  <1>7. ASSUME NEW n \in S, Begins(P, n), IsSegment(P, n, x)
        PROVE  z \in S \/ IsPrefix(y, n)
    <2>1. n \in Seq(Nat) /\ Len(n) \in Nat
      BY DEF S
    <2>2. a + b <= Len(n) /\ \A i \in Nat : 1 <= i /\ i <= a + b => z[i] = n[i]
      BY <1>7, <2>1, SegmentFollows DEF a, b, z
    <2>3. a + b = Len(n) \/ n[a + b + 1] = Slash
      BY <1>7 DEF IsSegment, a, b
    <2>4. CASE a + b = Len(n)
      <3>1. \A i \in 1 .. Len(z) : z[i] = n[i]
        BY <1>1, <2>2
      <3>2. z = n
        BY <1>1, <2>1, <2>4, <3>1, SeqEqual
      <3> QED
        BY <3>2
    <2>5. CASE a + b # Len(n)
      <3>1. a + b + 1 <= Len(n) /\ n[a + b + 1] = Slash
        BY <1>1, <2>1, <2>2, <2>3, <2>5
      <3>2. \A i \in Nat : 1 <= i /\ i <= Len(y) => n[i] = y[i]
        <4> SUFFICES ASSUME NEW i \in Nat, 1 <= i, i <= Len(y)
                     PROVE  n[i] = y[i]
          OBVIOUS
        <4>1. i <= a + b \/ i = a + b + 1
          BY <1>1, <1>3
        <4> QED
          BY <1>3, <2>2, <3>1, <4>1
      <3>3. Begins(y, n)
        BY <1>3, <3>1, <3>2 DEF Begins
      <3> QED
        BY <1>3, <2>1, <3>3, BeginsIs
    <2> QED
      BY <2>4, <2>5
  <1>8. HierarchyNodeExists(s, z) <=> \E n \in S : Begins(P, n) /\ IsSegment(P, n, x)
    BY <1>4, <1>5, <1>6, <1>7
  <1> QED
    BY <1>8 DEF z, S

\* The nodes below a parent are the segments of the names below it.
LEMMA NodesBelowAre ==
    ASSUME NEW s, PageSpellings(s) \in SUBSET Seq(Nat), NEW parent \in Seq(Nat),
           NEW P \in Seq(Nat), P = HierarchyPrefix(parent), NEW x
    PROVE  x \in NodesBelow(s, parent) <=>
              x # <<>> /\ \E n \in PageSpellings(s) : Begins(P, n) /\ IsSegment(P, n, x)
  <1> DEFINE S == PageSpellings(s)
             a == Len(P)
  <1>1. x \in NodesBelow(s, parent) <=>
           /\ \E n \in S : IsPrefix(P, n) /\ \E k \in a + 1 .. Len(n) : x = SubSeq(n, a + 1, k)
           /\ Slash \notin Range(x) /\ HierarchyNodeExists(s, P \o x)
    BY DEF NodesBelow
  <1>2. a \in Nat /\ \A n \in S : n \in Seq(Nat) /\ Len(n) \in Nat
    OBVIOUS
  <1> HIDE DEF S, a
  <1>3. ASSUME NEW n \in S, NEW k \in a + 1 .. Len(n), x = SubSeq(n, a + 1, k)
        PROVE  x \in Seq(Nat) /\ x # <<>>
    <2>1. a + 1 \in Int /\ k \in Int /\ a + 1 <= k
      BY <1>2
    <2>2. \A i \in (a + 1) .. k : n[i] \in Nat
      <3> SUFFICES ASSUME NEW i \in (a + 1) .. k
                   PROVE  n[i] \in Nat
        OBVIOUS
      <3>1. n \in Seq(Nat) /\ i \in 1 .. Len(n)
        BY <1>2
      <3> QED
        BY <3>1
    <2>3. x \in Seq(Nat) /\ Len(x) = IF a + 1 <= k THEN k - (a + 1) + 1 ELSE 0
      BY ONLY <1>3, <2>1, <2>2, SubSeqProperties
    <2>4. Len(x) # 0
      BY <1>2, <2>1, <2>3
    <2> QED
      BY <2>3, <2>4, EmptySeq
  <1>4. ASSUME x \in Seq(Nat)
        PROVE  Slash \notin Range(x) <=> \A i \in Nat : 1 <= i /\ i <= Len(x) => x[i] # Slash
    <2>1. \A i : i \in DOMAIN x <=> i \in Nat /\ 1 <= i /\ i <= Len(x)
      BY <1>4
    <2> QED
      BY <2>1 DEF Range
  <1>5. ASSUME x \in NodesBelow(s, parent)
        PROVE  x # <<>> /\ \E n \in S : Begins(P, n) /\ IsSegment(P, n, x)
    <2>1. x \in Seq(Nat) /\ x # <<>>
      BY <1>1, <1>3, <1>5
    <2>2. \A i \in Nat : 1 <= i /\ i <= Len(x) => x[i] # Slash
      BY <1>1, <1>4, <1>5, <2>1
    <2>3. HierarchyNodeExists(s, P \o x)
      BY <1>1, <1>5
    <2> QED
      BY <2>1, <2>2, <2>3, NodeExistsIs DEF S
  <1>6. ASSUME x # <<>>, NEW n \in S, Begins(P, n), IsSegment(P, n, x)
        PROVE  x \in NodesBelow(s, parent)
    <2>1. /\ x \in Seq(Nat) /\ a + Len(x) <= Len(n) /\ Len(x) \in Nat
          /\ \A i \in Nat : 1 <= i /\ i <= Len(x) => x[i] = n[a + i] /\ x[i] # Slash
      BY <1>6 DEF IsSegment, a
    <2>2. n \in Seq(Nat) /\ Len(n) \in Nat
      BY <1>2
    <2> DEFINE k == a + Len(x)
    <2>3. Len(x) # 0
      BY <1>6, <2>1, EmptySeq
    <2>4. k \in a + 1 .. Len(n) /\ k \in Int /\ a + 1 \in Int /\ a + 1 <= k
          /\ k - (a + 1) + 1 = Len(x)
      BY <1>2, <2>1, <2>2, <2>3
    <2> HIDE DEF k
    <2>5. \A i \in (a + 1) .. k : n[i] \in Nat
      <3> SUFFICES ASSUME NEW i \in (a + 1) .. k
                   PROVE  n[i] \in Nat
        OBVIOUS
      <3>1. i \in 1 .. Len(n)
        BY <1>2, <2>2, <2>4
      <3> QED
        BY <2>2, <3>1
    <2> DEFINE y == SubSeq(n, a + 1, k)
    <2>6. /\ y \in Seq(Nat) /\ Len(y) = IF a + 1 <= k THEN k - (a + 1) + 1 ELSE 0
          /\ \A i \in 1 .. (k - (a + 1) + 1) : y[i] = n[(a + 1) + i - 1]
      BY ONLY <2>4, <2>5, SubSeqProperties
    <2> HIDE DEF y
    <2>7. Len(y) = Len(x)
      BY <2>4, <2>6
    <2>8. \A i \in 1 .. Len(y) : y[i] = x[i]
      <3> SUFFICES ASSUME NEW i \in 1 .. Len(y)
                   PROVE  y[i] = x[i]
        OBVIOUS
      <3>1. i \in Nat /\ 1 <= i /\ i <= Len(x) /\ (a + 1) + i - 1 = a + i
        BY <1>2, <2>1, <2>7
      <3>2. y[i] = n[(a + 1) + i - 1]
        BY <2>4, <2>6, <2>7
      <3> QED
        BY <2>1, <3>1, <3>2
    <2>9. x = y
      BY <2>1, <2>6, <2>7, <2>8, SeqEqual
    <2>10. IsPrefix(P, n)
      BY <1>6, <2>2, BeginsIs
    <2>11. Slash \notin Range(x) /\ \A i \in Nat : 1 <= i /\ i <= Len(x) => x[i] # Slash
      BY <1>4, <2>1
    <2>12. HierarchyNodeExists(s, P \o x)
      BY <1>6, <2>1, <2>11, NodeExistsIs DEF S
    <2> QED
      BY <1>1, <2>4, <2>9, <2>10, <2>11, <2>12 DEF y
  <1> QED
    BY <1>5, <1>6 DEF S

\* Spellings that a scan lists well: finitely many, and none crossed.
Listable(S) ==
    /\ S \in SUBSET Seq(Nat) /\ IsFiniteSet(S)
    /\ \A n, m \in S : ~Crossed(n, m)

\* The Pages of a Notebook have such, if the slash sorts first.
LEMMA SpellingsListable ==
    ASSUME NEW s, NEW A, NEW n, NEW c, Stocked(s, A, n, c), SlashSortsFirst
    PROVE  Listable(PageSpellings(s))
  <1> DEFINE spelt == {Spelling[name] : name \in Names}
             S == PageSpellings(s)
             N == NamedPages(s)
             f == [p \in N |-> Spelling[s.blocks[p].key]]
  <1>1. n \in Nat /\ Paged(A, 1 .. n, 0 .. c) /\ Holds(s, A)
    BY MaxIdsAssumption DEF Stocked
  <1>2. ASSUME NEW p \in N
        PROVE  s.blocks[p].key \in Names
    <2>1. p \in DOMAIN s.blocks /\ s.blocks[p].kind = "named"
      BY DEF NamedPages, PageIds
    <2>2. p \in DOMAIN A \/ p \in EntriesOf(A)
      BY <1>1, <2>1 DEF Holds, BlocksAre
    <2>3. CASE p \in DOMAIN A
      <3>1. s.blocks[p] = A[p].page
        BY <1>1, <2>3 DEF Holds, BlocksAre
      <3>2. A[p].page \in PageBlocks
        BY <1>1, <2>3, PagedIs DEF Outlined
      <3> QED
        BY <2>1, <3>1, <3>2 DEF PageBlocks
    <2>4. CASE p \in EntriesOf(A)
      <3>1. PICK r \in DOMAIN A : p \in Ids(A[r].entries)
        BY <2>4 DEF EntriesOf
      <3>2. PICK i \in DOMAIN A[r].entries : A[r].entries[i].id = p
        BY <3>1 DEF Ids
      <3>3. s.blocks[p] = EntryBlock(A[r].entries[i])
        BY <1>1, <3>2 DEF Holds, BlocksAre
      <3> QED
        BY <2>1, <3>3 DEF EntryBlock
    <2> QED
      BY <2>2, <2>3, <2>4
  <1>3. S = {Spelling[s.blocks[p].key] : p \in N}
    BY DEF PageSpellings
  <1>4. S \in SUBSET spelt
    BY <1>2, <1>3
  <1>5. spelt \in SUBSET Seq(Nat)
    BY SpellingAssumption
  <1>6. IsFiniteSet(S)
    <2>1. IsFiniteSet(N)
      <3>1. N \in SUBSET DOMAIN s.blocks
        BY DEF NamedPages, PageIds
      <3> HIDE DEF N
      <3> QED
        BY <3>1, SourcesFinite
    <2>2. f \in [N -> S] /\ f \in Surjection(N, S)
      BY <1>3 DEF Surjection
    <2> HIDE DEF N, S, f
    <2> QED
      BY <2>1, <2>2, FS_Surjection
  <1>7. ASSUME NEW x \in spelt, NEW y \in spelt
        PROVE  ~Crossed(x, y)
    <2> SUFFICES ASSUME Crossed(x, y) PROVE FALSE
      OBVIOUS
    <2>1. x \in Seq(Nat) /\ y \in Seq(Nat) /\ Len(x) \in Nat /\ Len(y) \in Nat
      BY <1>5
    <2>2. PICK k \in Nat : /\ 1 <= k /\ k <= Len(x) /\ k <= Len(y)
                           /\ \A i \in Nat : 1 <= i /\ i < k => x[i] = y[i]
                           /\ y[k] = Slash /\ x[k] < Slash
      BY DEF Crossed
    <2>3. k \in DOMAIN x \cap DOMAIN y /\ k \in DOMAIN y \cap DOMAIN x
      BY <2>1, <2>2
    <2>4. \A i \in 1 .. k - 1 : y[i] = x[i]
      BY <2>2
    <2>5. x[k] >= Slash
      <3> HIDE DEF spelt
      <3> QED
        BY <2>2, <2>3, <2>4 DEF SlashSortsFirst, spelt
    <2>6. x[k] \in Nat /\ Slash \in Nat
      BY <2>1, <2>3 DEF Slash
    <2> QED
      BY <2>2, <2>5, <2>6
  <1> HIDE DEF spelt, S
  <1>8. Listable(S)
    BY <1>4, <1>5, <1>6, <1>7 DEF Listable
  <1> QED
    BY <1>8 DEF S

\* The parent of a level, as bytes.
LEMMA PrefixIs ==
    ASSUME NEW parent \in Seq(Nat)
    PROVE  HierarchyPrefix(parent) \in Seq(Nat)
  BY DEF HierarchyPrefix, Slash

\* The nodes of a level, in order.
Nodes(s, parent) == InOrder(NodesBelow(s, parent), Precedes)
LEMMA NodesAre ==
    ASSUME NEW s, Listable(PageSpellings(s)), NEW parent \in Seq(Nat)
    PROVE  /\ Rising(Nodes(s, parent))
           /\ \A i \in 1 .. Len(Nodes(s, parent)) : Nodes(s, parent)[i] \in NodesBelow(s, parent)
           /\ \A x \in NodesBelow(s, parent) : \E i \in 1 .. Len(Nodes(s, parent)) : Nodes(s, parent)[i] = x
           /\ \A x \in NodesBelow(s, parent) : x \in Seq(Nat) /\ x # <<>>
  <1> DEFINE P == HierarchyPrefix(parent)
             S == PageSpellings(s)
             B == NodesBelow(s, parent)
             T == {n \in S : Begins(P, n)}
             f == [n \in T |-> Segment(P, n)]
             C == {f[n] : n \in T}
  <1>1. P \in Seq(Nat) /\ S \in SUBSET Seq(Nat) /\ IsFiniteSet(S)
    BY PrefixIs DEF Listable
  <1>2. \A x \in B : x # <<>> /\ \E n \in S : Begins(P, n) /\ IsSegment(P, n, x)
    BY <1>1, NodesBelowAre
  <1> HIDE DEF B, P, S
  <1>3. \A x \in B : x \in Seq(Nat) /\ x # <<>>
    BY <1>2 DEF IsSegment
  <1>4. B \in SUBSET C
    <2> SUFFICES ASSUME NEW x \in B
                 PROVE  x \in C
      OBVIOUS
    <2>1. PICK n \in S : Begins(P, n) /\ IsSegment(P, n, x)
      BY <1>2
    <2>2. n \in Seq(Nat)
      BY <1>1
    <2>3. IsSegment(P, n, Segment(P, n))
      BY <1>1, <2>1, <2>2, SegmentIs
    <2>4. x = Segment(P, n)
      BY <1>1, <2>1, <2>2, <2>3, OneSegment
    <2> QED
      BY <2>1, <2>4
  <1>5. IsFiniteSet(B)
    <2>1. IsFiniteSet(T)
      BY <1>1, FS_Subset
    <2>2. f \in Surjection(T, C)
      BY DEF Surjection
    <2> HIDE DEF T, f, C
    <2>3. IsFiniteSet(C)
      BY <2>1, <2>2, FS_Surjection
    <2> QED
      BY <1>4, <2>3, FS_Subset
  <1>6. B \in SUBSET Seq(Nat)
    BY <1>3
  <1> QED
    BY <1>3, <1>5, <1>6, NamesInOrder DEF B, Nodes

\* What a scan from a segment takes: the nodes after it, in order.
LEMMA ScanIs ==
    ASSUME NEW s, Listable(PageSpellings(s)), NEW parent \in Seq(Nat), NEW last \in Seq(Nat)
    PROVE  /\ Rising(ReadHierarchyChildren(s, parent, last))
           /\ \A a \in 1 .. Len(ReadHierarchyChildren(s, parent, last)) :
                 /\ ReadHierarchyChildren(s, parent, last)[a] \in NodesBelow(s, parent)
                 /\ Goes(last, ReadHierarchyChildren(s, parent, last)[a])
           /\ \A x \in NodesBelow(s, parent) : Goes(last, x) =>
                 \E a \in 1 .. Len(ReadHierarchyChildren(s, parent, last)) :
                    ReadHierarchyChildren(s, parent, last)[a] = x
  <1> DEFINE P == HierarchyPrefix(parent)
             S == PageSpellings(s)
             B == NodesBelow(s, parent)
             D == ScannedNames(s, P, last)
             q == InOrder(D, Precedes)
             k == Len(q)
             g == [i \in 1 .. k |-> Segment(P, q[i])]
             all == ReadHierarchyChildren(s, parent, last)
  <1>1. P \in Seq(Nat) /\ S \in SUBSET Seq(Nat) /\ IsFiniteSet(S) /\ \A n, m \in S : ~Crossed(n, m)
    BY PrefixIs DEF Listable
  <1>2. \A x : x \in B <=> x # <<>> /\ \E n \in S : Begins(P, n) /\ IsSegment(P, n, x)
    BY <1>1, NodesBelowAre
  <1>3. \A n : n \in D <=> n \in S /\ Begins(P, n) /\ ~Goes(n, P \o last)
    <2> SUFFICES ASSUME NEW n \in S
                 PROVE  (IsPrefix(P, n) <=> Begins(P, n)) /\ (Precedes(n, P \o last) <=> Goes(n, P \o last))
      BY DEF ScannedNames
    <2>1. n \in Seq(Nat) /\ P \o last \in Seq(Nat)
      BY <1>1
    <2> HIDE DEF P
    <2> QED
      BY <1>1, <2>1, BeginsIs, PrecedesIs
  <1> HIDE DEF P, S, B, D
  <1>4. D \in SUBSET Seq(Nat) /\ IsFiniteSet(D)
    <2>1. D \in SUBSET S
      BY <1>3
    <2> QED
      BY <1>1, <2>1, FS_Subset
  <1>5. /\ Rising(q) /\ \A i \in 1 .. k : q[i] \in D
        /\ \A x \in D : \E i \in 1 .. k : q[i] = x
    BY <1>4, NamesInOrder
  <1> HIDE DEF q
  <1>6. k \in Nat /\ \A i \in 1 .. k : q[i] \in Seq(Nat) /\ q[i] \in S /\ Begins(P, q[i])
    BY <1>1, <1>3, <1>5 DEF Rising
  <1>7. \A i \in 1 .. k : IsSegment(P, q[i], Segment(P, q[i])) /\ g[i] = Segment(P, q[i])
    BY <1>1, <1>6, SegmentIs
  <1> HIDE DEF g
  <1>8. \A i \in 1 .. k : g[i] \in Seq(Nat) /\ Segment(P, q[i]) \in Seq(Nat)
    BY <1>7 DEF IsSegment
  <1>9. Ascends(g, k)
    <2>1. ASSUME NEW i \in 1 .. k, NEW j \in 1 .. k, i < j
          PROVE  g[i] = g[j] \/ Goes(g[i], g[j])
      <3>1. Goes(q[i], q[j])
        BY <1>5, <2>1 DEF Rising
      <3>2. ~Crossed(q[i], q[j])
        BY <1>1, <1>6
      <3> DEFINE n == q[i]
                 m == q[j]
                 x == g[i]
                 y == g[j]
      <3>3. n \in Seq(Nat) /\ m \in Seq(Nat) /\ Begins(P, n) /\ Begins(P, m)
            /\ IsSegment(P, n, x) /\ IsSegment(P, m, y)
        BY <1>6, <1>7
      <3>4. Goes(n, m) /\ ~Crossed(n, m) /\ P \in Seq(Nat)
        BY <1>1, <3>1, <3>2
      <3> HIDE DEF n, m, x, y
      <3>5. x = y \/ Goes(x, y)
        BY ONLY <3>3, <3>4, SegmentsRise
      <3> QED
        BY <3>5 DEF x, y
    <2> QED
      BY <1>8, <2>1 DEF Ascends
  <1>10. PICK f : /\ f[0] = <<>> /\ all = f[k]
                  /\ \A i \in 1 .. k : f[i] = ScanNext(P, q, last, i, f[i - 1])
    <2> HIDE DEF all
    <2> QED
      BY <1>6, <1>8, ScanStepsExist DEF P, q, D, all
  <1>11. TakenIs(g, last, k, all)
    <2>1. \A i \in 1 .. k : g[i] = Segment(P, q[i])
      BY <1>7
    <2>2. f[0] = <<>> /\ \A i \in 1 .. k : f[i] = ScanNext(P, q, last, i, f[i - 1])
      BY <1>10
    <2>3. TakenIs(g, last, k, f[k])
      BY <1>6, <1>9, <2>1, <2>2, ScanTakes
    <2> QED
      BY <1>10, <2>3
  <1> HIDE DEF all
  <1>12. /\ Rising(all)
         /\ \A a \in 1 .. Len(all) : /\ all[a] # <<>> /\ Goes(last, all[a])
                                     /\ \E j \in 1 .. k : all[a] = g[j]
         /\ \A j \in 1 .. k : g[j] # <<>> /\ Goes(last, g[j]) => \E a \in 1 .. Len(all) : all[a] = g[j]
    BY <1>11 DEF TakenIs
  <1>13. ASSUME NEW a \in 1 .. Len(all)
         PROVE  all[a] \in B /\ Goes(last, all[a])
    <2>1. all[a] # <<>> /\ Goes(last, all[a])
      BY <1>12
    <2>2. PICK j \in 1 .. k : all[a] = g[j]
      BY <1>12
    <2>3. q[j] \in S /\ Begins(P, q[j]) /\ IsSegment(P, q[j], all[a])
      BY <1>6, <1>7, <2>2
    <2> QED
      BY <1>2, <2>1, <2>3
  <1>14. ASSUME NEW x \in B, Goes(last, x)
         PROVE  \E a \in 1 .. Len(all) : all[a] = x
    <2>1. x # <<>>
      BY <1>2
    <2>2. PICK n \in S : Begins(P, n) /\ IsSegment(P, n, x)
      BY <1>2
    <2>3. n \in Seq(Nat) /\ x \in Seq(Nat)
      BY <1>1, <2>2 DEF IsSegment
    <2>4. ~Goes(n, P \o last)
      BY <1>1, <1>14, <2>2, <2>3, SegmentAhead
    <2>5. n \in D
      BY <1>3, <2>2, <2>4
    <2>6. PICK i \in 1 .. k : q[i] = n
      BY <1>5, <2>5
    <2>7. x = g[i]
      BY <1>1, <1>7, <2>2, <2>3, <2>6, OneSegment
    <2> QED
      BY <1>12, <1>14, <2>1, <2>7
  <1> QED
    BY <1>12, <1>13, <1>14 DEF all, B
-----------------------------------------------------------------------------
\* The batches of a level.

\* v is what is left of a level after its first m nodes, up to the e-th.
IsRest(q, m, e, v) ==
    /\ Rising(v) /\ Len(v) = e - m
    /\ \A i \in 1 .. (e - m) : v[i] = q[m + i]
LEMMA RestOfLevel ==
    ASSUME NEW q, Rising(q), NEW m \in 0 .. Len(q), NEW e \in m .. Len(q),
           NEW v, v = SubSeq(q, m + 1, e)
    PROVE  IsRest(q, m, e, v)
  <1>1. /\ Len(q) \in Nat /\ \A i \in 1 .. Len(q) : q[i] \in Seq(Nat)
        /\ \A i, j \in 1 .. Len(q) : i < j => Goes(q[i], q[j])
    BY RisingIs
  <1>2. m \in Nat /\ e \in Nat /\ m + 1 \in Int /\ e \in Int /\ m <= e /\ e <= Len(q)
    BY <1>1
  <1>3. \A i \in (m + 1) .. e : q[i] \in Seq(Nat)
    BY <1>1, <1>2
  <1>4. /\ v \in Seq(Seq(Nat)) /\ Len(v) = IF m + 1 <= e THEN e - (m + 1) + 1 ELSE 0
        /\ \A i \in 1 .. e - (m + 1) + 1 : v[i] = q[m + 1 + i - 1]
    BY ONLY <1>2, <1>3, v = SubSeq(q, m + 1, e), SubSeqProperties
  <1>5. Len(v) = e - m
    BY ONLY <1>2, <1>4
  <1>6. ASSUME NEW i \in 1 .. (e - m)
        PROVE  v[i] = q[m + i]
    <2>1. i \in 1 .. (e - (m + 1) + 1) /\ m + 1 + i - 1 = m + i
      BY ONLY <1>2, i \in 1 .. (e - m)
    <2> QED
      BY <1>4, <2>1
  <1>7. ASSUME NEW i \in 1 .. (e - m), NEW j \in 1 .. (e - m), i < j
        PROVE  Goes(v[i], v[j])
    <2>1. m + i \in 1 .. Len(q) /\ m + j \in 1 .. Len(q) /\ m + i < m + j
      BY <1>2, <1>7
    <2>2. Goes(q[m + i], q[m + j])
      BY <1>1, <2>1
    <2>3. v[i] = q[m + i] /\ v[j] = q[m + j]
      BY <1>6
    <2> QED
      BY <2>2, <2>3
  <1>8. Rising(v)
    BY <1>4, <1>5, <1>7 DEF Rising
  <1> QED
    BY <1>5, <1>6, <1>8 DEF IsRest

\* The segment a scan continues from after the first m nodes.
Attained(nodes, m) == IF m = 0 THEN <<>> ELSE nodes[m]

\* A scan from the last node of a batch finds the rest of the level.
LEMMA ScanRest ==
    ASSUME NEW s, Listable(PageSpellings(s)), NEW parent \in Seq(Nat),
           NEW m \in 0 .. Len(Nodes(s, parent))
    PROVE  LET nodes == Nodes(s, parent)
           IN  ReadHierarchyChildren(s, parent, Attained(nodes, m)) = SubSeq(nodes, m + 1, Len(nodes))
  <1> DEFINE B == NodesBelow(s, parent)
             nodes == Nodes(s, parent)
             L == Len(nodes)
             next == Attained(nodes, m)
             all == ReadHierarchyChildren(s, parent, next)
             rest == SubSeq(nodes, m + 1, L)
  <1>1. /\ Rising(nodes) /\ \A i \in 1 .. L : nodes[i] \in B
        /\ \A x \in B : \E i \in 1 .. L : nodes[i] = x
        /\ \A x \in B : x \in Seq(Nat) /\ x # <<>>
    BY NodesAre
  <1> HIDE DEF nodes
  <1>2. L \in Nat /\ \A i, j \in 1 .. L : i < j <=> Goes(nodes[i], nodes[j])
    BY <1>1, RisingIs
  <1>3. m \in Nat /\ m <= L /\ m \in 0 .. L
    BY <1>2 DEF nodes
  <1>4. next \in Seq(Nat)
    <2>1. CASE m = 0
      BY <2>1 DEF Attained
    <2>2. CASE m # 0
      <3>1. m \in 1 .. L
        BY <1>2, <1>3, <2>2
      <3> QED
        BY <1>1, <2>2, <3>1 DEF Attained
    <2> QED
      BY <2>1, <2>2
  <1>5. ASSUME NEW j \in 1 .. L
        PROVE  Goes(next, nodes[j]) <=> m < j
    <2>1. CASE m = 0
      <3>1. nodes[j] \in Seq(Nat) /\ nodes[j] # <<>>
        BY <1>1
      <3>2. Len(nodes[j]) \in Nat /\ Len(nodes[j]) > 0
        BY <3>1
      <3>3. next = <<>> /\ Len(<<>>) = 0
        BY <2>1 DEF Attained
      <3>4. Goes(next, nodes[j])
        BY <3>2, <3>3 DEF Goes
      <3> QED
        BY <1>2, <2>1, <3>4
    <2>2. CASE m # 0
      <3>1. m \in 1 .. L /\ next = nodes[m]
        BY <1>2, <1>3, <2>2 DEF Attained
      <3> QED
        BY <1>2, <3>1
    <2> QED
      BY <2>1, <2>2
  <1> HIDE DEF next
  <1>6. /\ Rising(all)
        /\ \A a \in 1 .. Len(all) : all[a] \in B /\ Goes(next, all[a])
        /\ \A x \in B : Goes(next, x) => \E a \in 1 .. Len(all) : all[a] = x
    BY <1>4, ScanIs
  <1> HIDE DEF B, all
  <1>7. Rising(rest) /\ Len(rest) = L - m /\ \A i \in 1 .. (L - m) : rest[i] = nodes[m + i]
    <2>1. L \in m .. L
      BY <1>2, <1>3
    <2>2. IsRest(nodes, m, L, rest)
      BY <1>1, <1>3, <2>1, RestOfLevel
    <2> HIDE DEF rest
    <2> QED
      BY <2>2 DEF IsRest
  <1> HIDE DEF rest
  <1>8. Within(all, rest)
    <2> SUFFICES ASSUME NEW a \in 1 .. Len(all)
                 PROVE  \E i \in 1 .. Len(rest) : all[a] = rest[i]
      BY DEF Within
    <2>1. all[a] \in B /\ Goes(next, all[a])
      BY <1>6
    <2>2. PICK j \in 1 .. L : nodes[j] = all[a]
      BY <1>1, <2>1
    <2>3. m < j
      BY <1>5, <2>1, <2>2
    <2>4. j - m \in 1 .. (L - m) /\ m + (j - m) = j
      BY <1>2, <1>3, <2>3
    <2>5. rest[j - m] = nodes[m + (j - m)]
      BY <1>7, <2>4
    <2>6. rest[j - m] = all[a] /\ j - m \in 1 .. Len(rest)
      BY <1>7, <2>2, <2>4, <2>5
    <2> QED
      BY <2>6
  <1>9. Within(rest, all)
    <2> SUFFICES ASSUME NEW i \in 1 .. Len(rest)
                 PROVE  \E a \in 1 .. Len(all) : rest[i] = all[a]
      BY DEF Within
    <2>1. i \in 1 .. (L - m) /\ m + i \in 1 .. L /\ m < m + i
      BY <1>2, <1>3, <1>7
    <2>2. rest[i] = nodes[m + i] /\ nodes[m + i] \in B
      BY <1>1, <1>7, <2>1
    <2>3. Goes(next, nodes[m + i])
      BY <1>5, <2>1
    <2>4. PICK a \in 1 .. Len(all) : all[a] = nodes[m + i]
      BY <1>6, <2>2, <2>3
    <2> QED
      BY <2>2, <2>4
  <1>10. all = rest
    BY <1>6, <1>7, <1>8, <1>9, RisingSame
  <1> QED
    BY <1>10 DEF all, rest, next, nodes

\* The lesser of two numbers.
LEMMA LesserIs ==
    ASSUME NEW a \in Nat, NEW b \in Nat
    PROVE  Min({a, b}) = IF a <= b THEN a ELSE b
  <1>1. \E x \in {a, b} : \A y \in {a, b} : x <= y
    OBVIOUS
  <1>2. Min({a, b}) \in {a, b} /\ \A y \in {a, b} : Min({a, b}) <= y
    BY <1>1 DEF Min
  <1> HIDE DEF Min
  <1> QED
    BY <1>2

\* The reader has the first m nodes, and goes on from the last of them.
LevelAt(nodes, r, m) ==
    /\ PartOf(nodes, m, r.got) /\ r.next = Attained(nodes, m)
    /\ r.at = "done" => m = Len(nodes)

\* The next batch of a level continues the part of it that was given.
LEMMA LevelOn ==
    ASSUME NEW s, Listable(PageSpellings(s)), NEW parent \in Seq(Nat),
           NEW m, NEW got, PartOf(Nodes(s, parent), m, got),
           NEW request, NEW revision, NEW r,
           r = Received(request, got, ChildrenBatch(s, parent, Attained(Nodes(s, parent), m)), revision)
    PROVE  \E k : LevelAt(Nodes(s, parent), r, k)
  <1> DEFINE nodes == Nodes(s, parent)
             L == Len(nodes)
             next == Attained(nodes, m)
             rest == SubSeq(nodes, m + 1, L)
             e == Min({L, m + BatchSize})
             c == ChildrenBatch(s, parent, next)
             b == OffsetBatch(nodes, m, BatchSize)
             items == SubSeq(nodes, m + 1, e)
  <1>1. Rising(nodes) /\ L \in Nat /\ nodes \in Seq(Seq(Nat))
    <2>1. Rising(nodes)
      BY NodesAre
    <2> HIDE DEF nodes
    <2> QED
      BY <2>1, RisingIs DEF Rising
  <1>2. m \in 0 .. L /\ m \in Nat /\ m <= L /\ BatchSize \in Nat /\ BatchSize > 0
    BY <1>1, BatchAssumption DEF PartOf
  <1>3. ReadHierarchyChildren(s, parent, next) = rest
    BY <1>2, ScanRest
  <1>4. r = Received(request, got, c, revision) /\ PartOf(nodes, m, got)
    OBVIOUS
  <1>5. /\ c.items = SubSeq(rest, 1, Min({Len(rest), BatchSize}))
        /\ c.more = (Len(rest) > BatchSize)
        /\ c.next = IF c.items = <<>> THEN next ELSE Last(c.items)
    <2> HIDE DEF next, rest
    <2> QED
      BY <1>3 DEF ChildrenBatch
  <1>6. b.items = items /\ b.more = (e < L) /\ b.next = e
    BY DEF OffsetBatch
  <1> HIDE DEF c, b, nodes
  <1>7. e = (IF L <= m + BatchSize THEN L ELSE m + BatchSize) /\ e \in m .. L
    <2>1. m + BatchSize \in Nat
      BY <1>2
    <2>2. e = IF L <= m + BatchSize THEN L ELSE m + BatchSize
      BY <1>1, <2>1, LesserIs
    <2> HIDE DEF e
    <2> QED
      BY <1>1, <1>2, <2>2
  <1> HIDE DEF e
  <1>8. Rising(rest) /\ Len(rest) = L - m /\ \A i \in 1 .. (L - m) : rest[i] = nodes[m + i]
    <2>1. L \in m .. L
      BY <1>1, <1>2
    <2>2. IsRest(nodes, m, L, rest)
      BY <1>1, <1>2, <2>1, RestOfLevel
    <2> HIDE DEF rest
    <2> QED
      BY <2>2 DEF IsRest
  <1>9. Rising(items) /\ Len(items) = e - m /\ \A i \in 1 .. (e - m) : items[i] = nodes[m + i]
    <2>1. IsRest(nodes, m, e, items)
      BY <1>1, <1>2, <1>7, RestOfLevel
    <2> HIDE DEF items
    <2> QED
      BY <2>1 DEF IsRest
  <1> HIDE DEF rest, items
  <1>10. Min({Len(rest), BatchSize}) = e - m
    <2>1. Len(rest) \in Nat
      BY <1>1, <1>2, <1>8
    <2>2. Min({Len(rest), BatchSize}) = IF Len(rest) <= BatchSize THEN Len(rest) ELSE BatchSize
      BY <1>2, <2>1, LesserIs
    <2> HIDE DEF L
    <2> QED
      BY <1>1, <1>2, <1>7, <1>8, <2>2
  <1>11. c.items = items
    <2> DEFINE u == c.items
    <2>1. u = SubSeq(rest, 1, e - m)
      BY <1>5, <1>10
    <2>2. 0 \in 0 .. Len(rest) /\ e - m \in 0 .. Len(rest) /\ 0 + 1 = 1
      BY <1>1, <1>2, <1>7, <1>8
    <2>3. u = SubSeq(rest, 0 + 1, e - m)
      BY <2>1, <2>2
    <2> HIDE DEF u
    <2>4. /\ Rising(u) /\ Len(u) = e - m - 0
          /\ \A i \in 1 .. (e - m - 0) : u[i] = rest[0 + i]
      <3>1. IsRest(rest, 0, e - m, u)
        BY ONLY <1>8, <2>2, <2>3, RestOfLevel
      <3> QED
        BY <3>1 DEF IsRest
    <2>5. Len(u) = e - m /\ \A i \in 1 .. (e - m) : u[i] = items[i]
      <3>1. e - m - 0 = e - m /\ e - m \in Nat
        BY <1>1, <1>2, <1>7
      <3>2. ASSUME NEW i \in 1 .. (e - m)
            PROVE  u[i] = items[i]
        <4>1. 0 + i = i /\ i \in 1 .. (L - m)
          BY <1>1, <1>2, <1>7
        <4>2. u[i] = rest[i]
          BY <2>4, <3>1, <4>1
        <4>3. rest[i] = nodes[m + i] /\ items[i] = nodes[m + i]
          BY <1>8, <1>9, <4>1
        <4> QED
          BY <4>2, <4>3, Zenon
      <3> QED
        BY <2>4, <3>1, <3>2
    <2>6. u \in Seq(Seq(Nat)) /\ items \in Seq(Seq(Nat))
      BY <1>9, <2>4 DEF Rising
    <2>7. u = items
      BY <1>9, <2>5, <2>6, SeqEqual
    <2> QED
      BY <2>7 DEF u
  <1>12. c.next = Attained(nodes, e)
    <2>1. CASE e = m
      <3>1. c.items = <<>>
        BY <1>1, <1>2, <1>9, <1>11, <2>1 DEF Rising
      <3> QED
        BY <1>5, <2>1, <3>1
    <2>2. CASE e # m
      <3>1. e - m \in 1 .. (e - m) /\ m + (e - m) = e /\ e # 0 /\ e - m # 0
        BY <1>1, <1>2, <1>7, <2>2
      <3>2. items[e - m] = nodes[m + (e - m)]
        BY <1>9, <3>1
      <3>3. items # <<>>
        BY <1>9, <3>1
      <3>4. Last(items) = nodes[e]
        BY <1>9, <3>1, <3>2 DEF Last
      <3> QED
        BY <1>5, <1>11, <3>1, <3>3, <3>4 DEF Attained
    <2> QED
      BY <2>1, <2>2
  <1>13. PartOf(nodes, e, got \o items) /\ (~(e < L) => e = L)
    <2>1. BatchSize \in Nat \ {0}
      BY <1>2
    <2>2. PartOf(nodes, b.next, got \o b.items) /\ (~b.more => b.next = L)
      BY <1>1, <1>4, <2>1, BatchIs DEF b
    <2> QED
      BY <1>6, <2>2
  <1>14. c.more = (e < L)
    <2> HIDE DEF L
    <2>1. Len(rest) > BatchSize <=> e < L
      BY <1>1, <1>2, <1>7, <1>8
    <2> QED
      BY <1>5, <2>1
  <1>15. r.got = got \o c.items /\ r.next = c.next /\ (r.at = "done" => ~c.more)
    BY ONLY <1>4, ReceivedIs
  <1>16. LevelAt(nodes, r, e)
    BY <1>11, <1>12, <1>13, <1>14, <1>15 DEF LevelAt
  <1> QED
    BY <1>16 DEF nodes

\* As long as its revision is the store's, the reader of a level holds its first nodes.
OnLevel(s, r) == \E m : LevelAt(Nodes(s, r.request.target), r, m)
LevelFollowed(s, r) ==
    r = Resting \/
        (r.request.kind = "children" =>
            /\ r.request.target \in Seq(Nat)
            /\ r.revision = s.revision => OnLevel(s, r))

LevelInv == ReadInv /\ LevelFollowed(store, reader)

\* A commit outdates the cursor of a level; without one the level stays as it was.
LEMMA WriteOnLevel ==
    ASSUME LevelInv, Write
    PROVE  LevelFollowed(store', reader')
  <1>1. /\ Inv /\ Followed(store, derived, reader) /\ LevelFollowed(store, reader)
        /\ Next /\ reader' = reader
    BY DEF LevelInv, ReadInv, Write
  <1>2. store' = store \/ store'.revision = store.revision + 1
    BY <1>1, StoreMoves
  <1>3. store.revision \in Nat
    BY <1>1, ReadsRelyOn
  <1>4. CASE store' = store
    BY <1>1, <1>4
  <1>5. CASE store'.revision = store.revision + 1
    <2>1. reader = Resting \/ (reader.revision \in Nat /\ reader.revision <= store.revision)
      BY <1>1 DEF Followed
    <2>2. reader = Resting \/ reader.revision # store'.revision
      BY <1>3, <1>5, <2>1
    <2>3. LevelFollowed(store', reader)
      BY <1>1, <2>2 DEF LevelFollowed
    <2> QED
      BY <1>1, <2>3
  <1> QED
    BY <1>2, <1>4, <1>5

\* The first batch of a level ...
LEMMA ReadFirstOnLevel ==
    ASSUME LevelInv, SlashSortsFirst, NEW request \in Requests, ReadFirst(request)
    PROVE  LevelFollowed(store, reader')
  <1> DEFINE r == reader'
             parent == request.target
             nodes == Nodes(store, parent)
             b == Batch(store, request, Start(request))
  <1>1. Inv /\ r = Received(request, <<>>, b, session.revision)
    BY DEF LevelInv, ReadInv, ReadFirst
  <1>2. PICK A : Stocked(store, A, issued, clock)
    BY <1>1, ReadsRelyOn
  <1>3. Listable(PageSpellings(store))
    BY <1>2, SpellingsListable
  <1>4. r.request = request
    <2> HIDE DEF r, b
    <2> QED
      BY ONLY <1>1, ReceivedIs
  <1>5. ASSUME request.kind = "children"
        PROVE  parent \in Seq(Nat) /\ OnLevel(store, r)
    <2>1. parent \in Seq(Nat)
      BY <1>5, RequestsAssumption
    <2>2. Rising(nodes)
      BY <1>3, <2>1, NodesAre
    <2>3. b = ChildrenBatch(store, parent, Attained(nodes, 0))
      BY <1>5 DEF Batch, Start, Attained
    <2>4. PartOf(nodes, 0, <<>>)
      <3> HIDE DEF nodes
      <3>1. nodes \in Seq(Seq(Nat))
        BY <2>2 DEF Rising
      <3> QED
        BY <3>1, NothingYet
    <2> HIDE DEF b
    <2>5. r = Received(request, <<>>, ChildrenBatch(store, parent, Attained(nodes, 0)), session.revision)
      BY <1>1, <2>3
    <2> HIDE DEF r, parent
    <2>6. \E k : LevelAt(nodes, r, k)
      BY <1>3, <2>1, <2>4, <2>5, LevelOn
    <2> QED
      BY <1>4, <2>1, <2>6 DEF OnLevel, parent
  <1> HIDE DEF r
  <1>6. LevelFollowed(store, r)
    BY <1>4, <1>5 DEF LevelFollowed
  <1> QED
    BY <1>6 DEF r

\* ... and the next.
LEMMA ReadNextOnLevel ==
    ASSUME LevelInv, SlashSortsFirst, NEW handed, ReadNext(handed)
    PROVE  LevelFollowed(store, reader')
  <1> DEFINE r == reader'
             request == reader.request
             parent == request.target
             nodes == Nodes(store, parent)
             b == Batch(store, request, reader.next)
  <1>1. /\ Inv /\ LevelFollowed(store, reader) /\ reader.at = "paging"
        /\ session.open /\ reader.revision = session.revision
        /\ r = Received(request, reader.got, b, session.revision)
    BY ReadNextIs DEF LevelInv, ReadInv
  <1>2. PICK A : Stocked(store, A, issued, clock)
    BY <1>1, ReadsRelyOn
  <1>3. Listable(PageSpellings(store)) /\ reader.revision = store.revision
    BY <1>1, <1>2, SpellingsListable, ReadsRelyOn
  <1>4. r.request = request
    <2> HIDE DEF r, b, request
    <2> QED
      BY ONLY <1>1, ReceivedIs
  <1>5. ASSUME request.kind = "children"
        PROVE  parent \in Seq(Nat) /\ OnLevel(store, r)
    <2>1. reader # Resting
      BY <1>1 DEF Resting
    <2>2. parent \in Seq(Nat) /\ OnLevel(store, reader)
      BY <1>1, <1>3, <1>5, <2>1 DEF LevelFollowed
    <2>3. PICK m : PartOf(nodes, m, reader.got) /\ reader.next = Attained(nodes, m)
      BY <2>2 DEF OnLevel, LevelAt
    <2>4. b = ChildrenBatch(store, parent, reader.next)
      BY <1>5 DEF Batch
    <2> HIDE DEF b, nodes
    <2>5. r = Received(request, reader.got, ChildrenBatch(store, parent, Attained(nodes, m)), session.revision)
      BY <1>1, <2>3, <2>4
    <2> HIDE DEF r, parent, request
    <2>6. \E k : LevelAt(nodes, r, k)
      BY <1>3, <2>2, <2>3, <2>5, LevelOn DEF nodes
    <2> QED
      BY <1>4, <2>2, <2>6 DEF OnLevel, parent, nodes
  <1> HIDE DEF r
  <1>6. LevelFollowed(store, r)
    BY <1>4, <1>5 DEF LevelFollowed
  <1> QED
    BY <1>6 DEF r

\* The calls for the occurrences of a source concern no level.
LEMMA OccurrencesOnLevel ==
    ASSUME LevelInv,
           \/ \E request \in Requests : AskOccurrences(request)
           \/ LocateTarget \/ ReadSourceLinks \/ ReadSourceReferences \/ AnswerOccurrences
    PROVE  LevelFollowed(store, reader')
  <1> DEFINE r == reader'
  <1>1. Followed(store, derived, reader)
    BY DEF LevelInv, ReadInv
  <1>2. ASSUME NEW request, AskOccurrences(request)
        PROVE  r.request.kind = "occurrences"
    <2> DEFINE begin == [request |-> request, got |-> <<>>, next |-> 0, revision |-> session.revision]
    <2>1. /\ request.kind = "occurrences"
          /\ \/ r = Collecting(begin, "asked", FALSE, {})
             \/ reader.request = request /\ r = Collecting(reader, "asked", FALSE, {})
      BY <1>2 DEF AskOccurrences
    <2>2. begin.request = request
      OBVIOUS
    <2> HIDE DEF begin, r
    <2>3. r.request = request
      BY <2>1, <2>2 DEF Collecting
    <2> QED
      BY <2>1, <2>3
  <1>3. ASSUME reader.at \in Sections, r.request = reader.request
        PROVE  r.request.kind = "occurrences"
    <2>1. reader # Resting
      BY <1>3 DEF Resting, Sections
    <2>2. reader.request.kind = "occurrences"
      BY <1>1, <1>3, <2>1 DEF Followed
    <2> QED
      BY <1>3, <2>2
  <1>4. ASSUME LocateTarget \/ ReadSourceLinks \/ ReadSourceReferences
        PROVE  reader.at \in Sections /\ r.request = reader.request
    <2>1. reader.at \in {"asked", "located", "linked"}
          /\ \E at, named, found : r = Collecting(reader, at, named, found)
      <3>1. CASE LocateTarget
        <4>1. reader.at = "asked"
              /\ r = Collecting(reader, "located", reader.request.target \in NamedPages(store), {})
          BY <3>1 DEF LocateTarget
        <4> HIDE DEF r
        <4> QED
          BY <4>1
      <3>2. CASE ReadSourceLinks
        <4> DEFINE f == {link.at : link \in {l \in derived.links[reader.request.source] :
                                           reader.named /\ l.target = reader.request.target}}
        <4>1. reader.at = "located" /\ r = Collecting(reader, "linked", reader.named, f)
          BY <3>2 DEF ReadSourceLinks
        <4> HIDE DEF r, f
        <4> QED
          BY <4>1
      <3>3. CASE ReadSourceReferences
        <4> DEFINE text == store.blocks[reader.request.source].text
                   f == reader.found \cup
                            {i \in BlockReferences(text) :
                                References[text[i]] = reader.request.target
                                /\ reader.request.target \in DOMAIN store.blocks}
        <4>1. reader.at = "linked" /\ r = Collecting(reader, "referred", reader.named, f)
          BY <3>3 DEF ReadSourceReferences
        <4> HIDE DEF r, f
        <4> QED
          BY <4>1
      <3> HIDE DEF r
      <3> QED
        BY <1>4, <3>1, <3>2, <3>3
    <2>2. PICK at, named, found : r = Collecting(reader, at, named, found)
      BY <2>1
    <2> HIDE DEF r
    <2>3. r.request = reader.request
      BY ONLY <2>2, CollectingIs
    <2> QED
      BY <2>1, <2>3 DEF Sections
  <1>5. ASSUME AnswerOccurrences
        PROVE  reader.at \in Sections /\ r.request = reader.request
    <2> DEFINE b == OffsetBatch(InOrder(reader.found, <), reader.next, OccurrenceBatch)
    <2>1. reader.at = "referred" /\ r = Received(reader.request, reader.got, b, reader.revision)
      BY <1>5 DEF AnswerOccurrences
    <2> HIDE DEF b, r
    <2>2. r.request = reader.request
      BY ONLY <2>1, ReceivedIs
    <2> QED
      BY <2>1, <2>2 DEF Sections
  <1>6. r.request.kind = "occurrences"
    <2> HIDE DEF r
    <2> QED
      BY <1>2, <1>3, <1>4, <1>5
  <1> HIDE DEF r
  <1>7. LevelFollowed(store, r)
    BY <1>6 DEF LevelFollowed
  <1> QED
    BY <1>7 DEF r

\* Every step of the store or of the reader keeps the invariant.
LEMMA LevelKept ==
    ASSUME LevelInv, SlashSortsFirst, [ReadsNext]_readVars
    PROVE  LevelInv'
  <1>1. ReadInv'
    BY ReadsKeep DEF LevelInv
  <1>2. ASSUME store' = store, LevelFollowed(store, reader')
        PROVE  LevelInv'
    <2>1. LevelFollowed(store', reader')
      BY <1>2
    <2> QED
      BY <1>1, <2>1 DEF LevelInv
  <1>3. ASSUME Write
        PROVE  LevelInv'
    <2>1. LevelFollowed(store', reader')
      BY <1>3, WriteOnLevel
    <2> QED
      BY <1>1, <2>1 DEF LevelInv
  <1>4. ASSUME NEW request \in Requests, ReadFirst(request)
        PROVE  LevelInv'
    <2>1. store' = store
      BY <1>4 DEF ReadFirst, vars
    <2> QED
      BY <1>2, <1>4, <2>1, ReadFirstOnLevel
  <1>5. ASSUME NEW request \in Requests, ReadNext(request)
        PROVE  LevelInv'
    <2>1. store' = store
      BY <1>5 DEF ReadNext, vars
    <2> QED
      BY <1>2, <1>5, <2>1, ReadNextOnLevel
  <1>6. ASSUME \/ \E request \in Requests : AskOccurrences(request)
               \/ LocateTarget \/ ReadSourceLinks \/ ReadSourceReferences \/ AnswerOccurrences
        PROVE  LevelInv'
    <2>1. store' = store
      BY <1>6 DEF AskOccurrences, LocateTarget, ReadSourceLinks, ReadSourceReferences,
                  AnswerOccurrences, vars
    <2> QED
      BY <1>2, <1>6, <2>1, OccurrencesOnLevel
  <1>7. ASSUME GiveUp
        PROVE  LevelInv'
    <2>1. store' = store /\ reader' = Resting
      BY <1>7 DEF GiveUp, vars
    <2>2. LevelFollowed(store, reader')
      BY <2>1 DEF LevelFollowed
    <2> QED
      BY <1>2, <2>1, <2>2
  <1>8. ASSUME UNCHANGED readVars
        PROVE  LevelInv'
    <2>1. store' = store /\ reader' = reader
      BY <1>8 DEF readVars
    <2>2. LevelFollowed(store, reader')
      BY <2>1 DEF LevelInv
    <2> QED
      BY <1>2, <2>1, <2>2
  <1> QED
    BY <1>3, <1>4, <1>5, <1>6, <1>7, <1>8 DEF ReadsNext

\* The batches of a level are the first of its nodes, and in the end all of them.
LEMMA LevelAgrees ==
    ASSUME LevelInv, SlashSortsFirst
    PROVE  ListingAgreesWithLookup
  <1> DEFINE parent == reader.request.target
             nodes == Nodes(store, parent)
             got == reader.got
  <1>1. SUFFICES ASSUME reader.at \in {"paging", "done"}, reader.request.kind = "children",
                        reader.revision = store.revision
                 PROVE  IsPrefix(got, nodes) /\ (reader.at = "done" => got = nodes)
    BY DEF ListingAgreesWithLookup, Nodes
  <1>2. Inv /\ LevelFollowed(store, reader)
    BY DEF LevelInv, ReadInv
  <1>3. reader # Resting
    BY <1>1 DEF Resting
  <1>4. parent \in Seq(Nat) /\ OnLevel(store, reader)
    BY <1>1, <1>2, <1>3 DEF LevelFollowed
  <1>5. PICK A : Stocked(store, A, issued, clock)
    BY <1>2, ReadsRelyOn
  <1>6. Listable(PageSpellings(store))
    BY <1>5, SpellingsListable
  <1>7. Rising(nodes)
    BY <1>4, <1>6, NodesAre
  <1>8. PICK m : PartOf(nodes, m, got) /\ (reader.at = "done" => m = Len(nodes))
    BY <1>4 DEF OnLevel, LevelAt
  <1> HIDE DEF nodes, got
  <1>9. nodes \in Seq(Seq(Nat)) /\ Len(nodes) \in Nat
    BY <1>7 DEF Rising
  <1>10. m \in 0 .. Len(nodes) /\ got = SubSeq(nodes, 1, m)
    BY <1>8 DEF PartOf
  <1>11. got \in Seq(Seq(Nat)) /\ Len(got) = m
    BY <1>9, <1>10
  <1>12. SubSeq(got, 1, Len(got)) = got
    BY <1>11, SubSeqFull
  <1>13. IsPrefix(got, nodes)
    BY <1>9, <1>10, <1>11, <1>12 DEF IsPrefix
  <1>14. ASSUME reader.at = "done"
         PROVE  got = nodes
    BY <1>8, <1>9, <1>14, EverythingGiven
  <1> QED
    BY <1>13, <1>14

\* ADR-0024: wherever a slash sorts before every other byte in which two names first differ,
\* the batches of a level of the Page hierarchy, each a scan of the names from the last node of
\* the one before it (readHierarchyChildren), list the nodes that a look-up by name
\* (hierarchyNodeExists) finds directly below the parent, in byte order and once each: the
\* batches so far the first of them, the last batch the rest, whatever is committed in between.
\* Without the condition on the names this is false, as HierarchyListing.cfg shows.
THEOREM ListingAgreesHolds ==
    ASSUME SlashSortsFirst
    PROVE  ReadsSpec => []ListingAgreesWithLookup
  <1>1. ReadsInit => LevelInv
    BY InitCoherent DEF ReadsInit, LevelInv, ReadInv, Followed, LevelFollowed
  <1>2. LevelInv /\ [ReadsNext]_readVars => LevelInv'
    BY LevelKept
  <1>3. LevelInv => ListingAgreesWithLookup
    BY LevelAgrees
  <1> QED
    BY <1>1, <1>2, <1>3, PTL DEF ReadsSpec
-----------------------------------------------------------------------------
\* What a command leaves of each Block, which Remade says of the Pages: here of the stores
\* before and after it, and so of what a caller reads from them.

\* Before and after a command, the stores and the Pages they hold.
Turns(s, t, A, A1, now) ==
    /\ World(A) /\ Holds(s, A) /\ World(A1) /\ Holds(t, A1) /\ Remade(A, A1, now)

\* Where the children of the Page, or of its m-th entry, stand.
ParentAt(es, m) == IF m = 0 THEN TopLevel ELSE es[m].id

\* The children of a Block as the outline lists them.
LEMMA ChildrenListed ==
    ASSUME NEW s, NEW A, World(A), Holds(s, A), NEW p \in DOMAIN A,
           NEW m \in 0 .. Len(A[p].entries)
    PROVE  LET es == A[p].entries
           IN  \E K, q : /\ Named(es) /\ AreChildren(K, es, ParentAt(es, m)) /\ Lists(q, K)
                         /\ ChildrenOf(s, ContainerAt(p, es, m)) = IdsAt(es, q)
  <1> DEFINE es == A[p].entries
             n == Len(es)
  <1>0. Paged(A, BlockIds, Nat) /\ PlacesAre(s, A)
    BY DEF World, Holds
  <1>1. n \in Nat /\ Named(es) /\ \E D : Tree(es, D)
    <2>1. Outlined(A[p], p, BlockIds, Nat)
      BY <1>0, PagedIs
    <2> QED
      BY <2>1, OutlinedIs
  <1>2. PICK D : Tree(es, D)
    BY <1>1
  <1>3. PICK q : /\ Lists(q, Kids(D, n, m))
                 /\ ChildrenOf(s, ContainerAt(p, es, m)) = IdsAt(es, q)
    BY <1>0, <1>2, ChildrenAre
  <1>4. ASSUME NEW i \in 1 .. n
        PROVE  D[i] = m <=> es[i].parent = ParentAt(es, m)
    <2>1. /\ D \in [1 .. n -> Nat] /\ \A k \in 1 .. n : D[k] < k
          /\ Linked(es, D)
      BY <1>2 DEF Tree, Walk
    <2>2. /\ \A k \in 1 .. n : es[i].parent = es[k].id <=> D[i] = k
          /\ es[i].parent = TopLevel <=> D[i] = 0
      BY <1>1, <2>1, LinkIs
    <2>3. m = 0 \/ m \in 1 .. n
      BY <1>1
    <2> QED
      BY <2>2, <2>3 DEF ParentAt
  <1>5. AreChildren(Kids(D, n, m), es, ParentAt(es, m))
    BY <1>4 DEF AreChildren, ChildAt, Kids
  <1> QED
    BY <1>1, <1>3, <1>5

\* The children of a Block are the same exactly when the outlines keep them.
LEMMA ChildrenKept ==
    ASSUME NEW s, NEW A, World(A), Holds(s, A), NEW p \in DOMAIN A,
           NEW m \in 0 .. Len(A[p].entries),
           NEW t, NEW B, World(B), Holds(t, B), NEW q \in DOMAIN B,
           NEW k \in 0 .. Len(B[q].entries),
           ParentAt(A[p].entries, m) = ParentAt(B[q].entries, k)
    PROVE  LET es == A[p].entries
               rs == B[q].entries
           IN  ChildrenOf(s, ContainerAt(p, es, m)) = ChildrenOf(t, ContainerAt(q, rs, k))
                 <=> Keeps(es, rs, ParentAt(es, m))
  <1> DEFINE es == A[p].entries
             rs == B[q].entries
             x == ParentAt(es, m)
  <1>1. PICK K, c : /\ Named(es) /\ AreChildren(K, es, ParentAt(es, m)) /\ Lists(c, K)
                    /\ ChildrenOf(s, ContainerAt(p, es, m)) = IdsAt(es, c)
    BY ChildrenListed
  <1>2. PICK M, r : /\ Named(rs) /\ AreChildren(M, rs, ParentAt(rs, k)) /\ Lists(r, M)
                    /\ ChildrenOf(t, ContainerAt(q, rs, k)) = IdsAt(rs, r)
    BY ChildrenListed
  <1>3. AreChildren(M, rs, x)
    BY <1>2
  <1>4. IdsAt(es, c) = IdsAt(rs, r) <=> Keeps(es, rs, x)
    <2> HIDE DEF es, rs, x
    <2>1. AreChildren(K, es, x)
      BY <1>1 DEF x
    <2> QED
      BY <1>1, <1>2, <1>3, <2>1, KeptListed
  <1> QED
    BY <1>1, <1>2, <1>4

\* What the store says of the i-th entry of a Page.
EntrySeen(s, A, p, i) ==
    LET es == A[p].entries
        b == es[i].id
    IN  /\ b \in DOMAIN s.blocks /\ ~IsPage(s, b) /\ PageOf(s, b) = p
        /\ s.blocks[b].text = es[i].text /\ s.blocks[b].updated = es[i].updated
        /\ s.byChild[b][1] = Container(p, es, i)
        /\ ContainerAt(p, es, i) = b /\ ParentAt(es, i) = b /\ b \in EntriesOf(A)

\* It says what the outline does.
LEMMA EntrySeenIs ==
    ASSUME NEW s, NEW A, World(A), Holds(s, A), NEW p \in DOMAIN A,
           NEW i \in 1 .. Len(A[p].entries)
    PROVE  EntrySeen(s, A, p, i)
  <1> DEFINE es == A[p].entries
             b == es[i].id
  <1>0. Paged(A, BlockIds, Nat) /\ PlacesAre(s, A) /\ BlocksAre(s, A)
    BY DEF World, Holds
  <1>1. Len(es) \in Nat /\ DOMAIN es = 1 .. Len(es) /\ Ids(es) = {es[j].id : j \in 1 .. Len(es)}
    <2>1. Outlined(A[p], p, BlockIds, Nat)
      BY <1>0, PagedIs
    <2> QED
      BY <2>1, OutlinedIs
  <1>2. b \in Ids(es) /\ b \in EntriesOf(A) /\ b \notin DOMAIN A
    <2>1. b \in Ids(es)
      BY <1>1
    <2> QED
      BY <1>0, <2>1, PagedIs
  <1>3. ~IsPage(s, b) /\ b \in DOMAIN s.blocks
    <2>1. \A c : IsPage(s, c) <=> c \in DOMAIN A
      BY <1>0, HeldKinds
    <2> QED
      BY <1>0, <1>2, <2>1 DEF BlocksAre
  <1>4. PageOf(s, b) = p
    BY <1>0, <1>2, PageOfIs
  <1>5. s.blocks[b].text = es[i].text /\ s.blocks[b].updated = es[i].updated
    <2>1. s.blocks[b] = EntryBlock(es[i])
      BY <1>0, <1>1 DEF BlocksAre
    <2> QED
      BY <2>1 DEF EntryBlock
  <1>6. s.byChild[b][1] = Container(p, es, i)
    <2>1. PlacedAt(s, p, es, i)
      BY <1>0, HeldPlaces
    <2> QED
      BY <2>1 DEF PlacedAt
  <1>7. ContainerAt(p, es, i) = b /\ ParentAt(es, i) = b
    BY <1>1 DEF ContainerAt, ParentAt
  <1> QED
    BY <1>2, <1>3, <1>4, <1>5, <1>6, <1>7 DEF EntrySeen

\* An entry and the entry it is under name one Page.
LEMMA ContainerNames ==
    ASSUME NEW A, World(A), NEW p \in DOMAIN A, NEW i \in 1 .. Len(A[p].entries)
    PROVE  LET es == A[p].entries
           IN  IF es[i].parent = TopLevel THEN Container(p, es, i) = p
               ELSE Container(p, es, i) = es[i].parent /\ es[i].parent \in EntriesOf(A)
  <1> DEFINE es == A[p].entries
  <1>1. CASE es[i].parent = TopLevel
    BY <1>1 DEF Container
  <1>2. CASE es[i].parent # TopLevel
    <2>0. Paged(A, BlockIds, Nat)
      BY DEF World
    <2>1. Outlined(A[p], p, BlockIds, Nat)
      BY <2>0, PagedIs
    <2>2. Len(es) \in Nat /\ (\E D : Tree(es, D)) /\ Ids(es) = {es[j].id : j \in 1 .. Len(es)}
      BY <2>1, OutlinedIs
    <2>3. PICK D : Tree(es, D)
      BY <2>2
    <2>4. D[i] \in 0 .. (i - 1) /\ es[i].parent = IF D[i] = 0 THEN TopLevel ELSE es[D[i]].id
      BY <2>2, <2>3, ParentIs
    <2>5. D[i] \in 1 .. Len(es) /\ es[i].parent = es[D[i]].id
      BY <1>2, <2>2, <2>4
    <2>6. es[i].parent \in Ids(es)
      BY <2>2, <2>5
    <2>7. es[i].parent \in EntriesOf(A)
      BY <2>0, <2>6, PagedIs
    <2> QED
      BY <1>2, <2>7 DEF Container
  <1> QED
    BY <1>1, <1>2

\* An entry that is kept where it was names the same parent, and on another Page it is
\* under another entry.
LEMMA SameContainer ==
    ASSUME NEW s, NEW t, NEW A, NEW A1, NEW now, Turns(s, t, A, A1, now),
           NEW p \in DOMAIN A, NEW i \in 1 .. Len(A[p].entries),
           NEW q \in DOMAIN A1, NEW k \in 1 .. Len(A1[q].entries)
    PROVE  LET es == A[p].entries
               rs == A1[q].entries
           IN  Container(p, es, i) = Container(q, rs, k) <=>
                 es[i].parent = rs[k].parent /\ (p = q \/ es[i].parent # TopLevel)
  <1> DEFINE x == A[p].entries[i].parent
             y == A1[q].entries[k].parent
             c == Container(p, A[p].entries, i)
             d == Container(q, A1[q].entries, k)
  <1>0. World(A) /\ World(A1)
    BY DEF Turns
  <1>1. IF x = TopLevel THEN c = p ELSE c = x /\ x \in EntriesOf(A)
    BY <1>0, ContainerNames
  <1>2. IF y = TopLevel THEN d = q ELSE d = y /\ y \in EntriesOf(A1)
    BY <1>0, ContainerNames
  <1>3. DOMAIN A \cap EntriesOf(A1) = {} /\ DOMAIN A1 \cap EntriesOf(A) = {}
    BY DEF Turns, Remade
  <1>4. c = d <=> x = y /\ (p = q \/ x # TopLevel)
    <2> HIDE DEF x, y, c, d
    <2> QED
      BY <1>1, <1>2, <1>3
  <1> QED
    BY <1>4

\* A Block that outlives a command is a Page, or an entry, before and after it.
LEMMA KeptSort ==
    ASSUME NEW s, NEW t, NEW A, NEW A1, NEW now, Turns(s, t, A, A1, now),
           NEW b \in DOMAIN s.blocks \cap DOMAIN t.blocks
    PROVE  \/ b \in DOMAIN A \cap DOMAIN A1
           \/ \E p \in DOMAIN A, q \in DOMAIN A1 :
                 \E i \in 1 .. Len(A[p].entries), k \in 1 .. Len(A1[q].entries) :
                    A[p].entries[i].id = b /\ A1[q].entries[k].id = b
  <1>1. /\ Paged(A, BlockIds, Nat) /\ DOMAIN s.blocks = DOMAIN A \cup EntriesOf(A)
        /\ Paged(A1, BlockIds, Nat) /\ DOMAIN t.blocks = DOMAIN A1 \cup EntriesOf(A1)
        /\ DOMAIN A \cap EntriesOf(A1) = {} /\ DOMAIN A1 \cap EntriesOf(A) = {}
    BY DEF Turns, World, Holds, BlocksAre, Remade
  <1>2. b \in DOMAIN A \cap DOMAIN A1 \/ (b \in EntriesOf(A) /\ b \in EntriesOf(A1))
    BY <1>1
  <1>3. ASSUME NEW C, Paged(C, BlockIds, Nat), b \in EntriesOf(C)
        PROVE  \E p \in DOMAIN C : \E i \in 1 .. Len(C[p].entries) : C[p].entries[i].id = b
    <2>1. PICK p \in DOMAIN C : b \in Ids(C[p].entries)
      BY <1>3, PagedIs
    <2>2. Outlined(C[p], p, BlockIds, Nat)
      BY <1>3, PagedIs
    <2>3. Ids(C[p].entries) = {C[p].entries[i].id : i \in 1 .. Len(C[p].entries)}
      BY <2>2, OutlinedIs
    <2> QED
      BY <2>1, <2>3
  <1>4. ASSUME b \in EntriesOf(A), b \in EntriesOf(A1)
        PROVE  \E p \in DOMAIN A, q \in DOMAIN A1 :
                 \E i \in 1 .. Len(A[p].entries), k \in 1 .. Len(A1[q].entries) :
                    A[p].entries[i].id = b /\ A1[q].entries[k].id = b
    <2>1. PICK p \in DOMAIN A : \E i \in 1 .. Len(A[p].entries) : A[p].entries[i].id = b
      BY <1>1, <1>3, <1>4
    <2>2. PICK q \in DOMAIN A1 : \E k \in 1 .. Len(A1[q].entries) : A1[q].entries[k].id = b
      BY <1>1, <1>3, <1>4
    <2> QED
      BY <2>1, <2>2
  <1> QED
    BY <1>2, <1>4

\* The two ends of an entry that outlives a command, as the stores show them.
Shifted(s, t, A, A1, now, p, i, q, k) ==
    LET es == A[p].entries
        rs == A1[q].entries
        b == es[i].id
    IN  /\ b = rs[k].id /\ EntrySeen(s, A, p, i) /\ EntrySeen(t, A1, q, k)
        /\ ChildrenOf(s, b) = ChildrenOf(t, b) <=> Keeps(es, rs, b)
        /\ s.byChild[b][1] = t.byChild[b][1] <=>
              es[i].parent = rs[k].parent /\ (p = q \/ es[i].parent # TopLevel)
        /\ p # q => Whole(es, rs, now)

\* They are related so.
LEMMA ShiftedIs ==
    ASSUME NEW s, NEW t, NEW A, NEW A1, NEW now, Turns(s, t, A, A1, now),
           NEW p \in DOMAIN A, NEW i \in 1 .. Len(A[p].entries),
           NEW q \in DOMAIN A1, NEW k \in 1 .. Len(A1[q].entries),
           A[p].entries[i].id = A1[q].entries[k].id
    PROVE  Shifted(s, t, A, A1, now, p, i, q, k)
  <1> DEFINE es == A[p].entries
             rs == A1[q].entries
             b == es[i].id
  <1>1. World(A) /\ Holds(s, A) /\ World(A1) /\ Holds(t, A1) /\ Remade(A, A1, now)
    BY DEF Turns
  <1>2. EntrySeen(s, A, p, i) /\ EntrySeen(t, A1, q, k)
    BY <1>1, EntrySeenIs
  <1>3. /\ ContainerAt(p, es, i) = b /\ ParentAt(es, i) = b /\ s.byChild[b][1] = Container(p, es, i)
        /\ ContainerAt(q, rs, k) = b /\ ParentAt(rs, k) = b /\ t.byChild[b][1] = Container(q, rs, k)
    BY <1>2 DEF EntrySeen
  <1>4. i \in 0 .. Len(es) /\ k \in 0 .. Len(rs)
    OBVIOUS
  <1>5. ChildrenOf(s, ContainerAt(p, es, i)) = ChildrenOf(t, ContainerAt(q, rs, k))
          <=> Keeps(es, rs, ParentAt(es, i))
    BY <1>1, <1>3, <1>4, ChildrenKept
  <1>6. Container(p, es, i) = Container(q, rs, k) <=>
            es[i].parent = rs[k].parent /\ (p = q \/ es[i].parent # TopLevel)
    BY SameContainer
  <1>7. p # q => Whole(es, rs, now)
    BY <1>1 DEF Remade
  <1>8. ChildrenOf(s, b) = ChildrenOf(t, b) <=> Keeps(es, rs, b)
    BY <1>3, <1>5
  <1>9. s.byChild[b][1] = t.byChild[b][1] <=>
            es[i].parent = rs[k].parent /\ (p = q \/ es[i].parent # TopLevel)
    BY <1>3, <1>6
  <1> QED
    BY <1>2, <1>7, <1>8, <1>9 DEF Shifted

\* What arrives on another Page is as it left.
ArrivesWhole(s, t, now, e) ==
    /\ t.blocks[e].text = s.blocks[e].text
    /\ ChildrenOf(t, e) = ChildrenOf(s, e)
    /\ s.byChild[e][1] # t.byChild[e][1] => t.blocks[e].updated = now
    /\ s.byChild[e][1] = t.byChild[e][1] => t.blocks[e].updated = s.blocks[e].updated
LEMMA ShiftedArrives ==
    ASSUME NEW s, NEW t, NEW A, NEW A1, NEW now, NEW p, NEW i \in 1 .. Len(A[p].entries),
           NEW q, NEW k \in 1 .. Len(A1[q].entries), p # q,
           Shifted(s, t, A, A1, now, p, i, q, k)
    PROVE  ArrivesWhole(s, t, now, A[p].entries[i].id)
  <1> DEFINE es == A[p].entries
             rs == A1[q].entries
             b == es[i].id
  <1>1. /\ b = rs[k].id /\ EntrySeen(s, A, p, i) /\ EntrySeen(t, A1, q, k)
        /\ ChildrenOf(s, b) = ChildrenOf(t, b) <=> Keeps(es, rs, b)
        /\ s.byChild[b][1] = t.byChild[b][1] <=>
              es[i].parent = rs[k].parent /\ es[i].parent # TopLevel
        /\ Whole(es, rs, now)
    BY DEF Shifted
  <1>2. /\ rs[k].text = es[i].text /\ Keeps(es, rs, b)
        /\ IF rs[k].parent = es[i].parent /\ es[i].parent # TopLevel
           THEN rs[k].updated = es[i].updated ELSE rs[k].updated = now
    BY <1>1 DEF Whole
  <1>3. /\ s.blocks[b].text = es[i].text /\ s.blocks[b].updated = es[i].updated
        /\ t.blocks[b].text = rs[k].text /\ t.blocks[b].updated = rs[k].updated
    BY <1>1 DEF EntrySeen
  <1> QED
    BY <1>1, <1>2, <1>3 DEF ArrivesWhole

\* A subtree that goes to another Page arrives whole.
LEMMA MovedIsWhole ==
    ASSUME NEW s, NEW t, NEW A, NEW A1, NEW now, Turns(s, t, A, A1, now),
           NEW e \in DOMAIN s.blocks \cap DOMAIN t.blocks, ~IsPage(s, e), PageOf(s, e) # PageOf(t, e)
    PROVE  ArrivesWhole(s, t, now, e)
  <1>1. e \notin DOMAIN A
    <2>1. \A b : IsPage(s, b) <=> b \in DOMAIN A
      BY HeldKinds DEF Turns, World, Holds
    <2> QED
      BY <2>1
  <1>2. PICK p \in DOMAIN A, q \in DOMAIN A1 :
            \E i \in 1 .. Len(A[p].entries), k \in 1 .. Len(A1[q].entries) :
               A[p].entries[i].id = e /\ A1[q].entries[k].id = e
    BY <1>1, KeptSort
  <1>3. PICK i \in 1 .. Len(A[p].entries), k \in 1 .. Len(A1[q].entries) :
            A[p].entries[i].id = e /\ A1[q].entries[k].id = e
    BY <1>2
  <1>4. Shifted(s, t, A, A1, now, p, i, q, k)
    BY <1>3, ShiftedIs
  <1>5. PageOf(s, e) = p /\ PageOf(t, e) = q
    BY <1>3, <1>4 DEF Shifted, EntrySeen
  <1> QED
    BY <1>3, <1>4, <1>5, ShiftedArrives

\* The Blocks whose children, content and place a command leaves alone.
OwnOf(s, b) == IF IsPage(s, b) THEN PageKey(s.blocks[b]) ELSE <<"entry", s.blocks[b].text>>
ParentOf(s, b) == IF IsPage(s, b) THEN 0 ELSE s.byChild[b][1]
QuietIn(s, t) ==
    {b \in DOMAIN s.blocks \cap DOMAIN t.blocks :
        /\ ChildrenOf(s, b) = ChildrenOf(t, b)
        /\ OwnOf(s, b) = OwnOf(t, b)
        /\ ParentOf(s, b) = ParentOf(t, b)}

\* What it does to the time of a Block, of the one it was given and of any other.
TimedBy(s, t, now, e, b) ==
    /\ ChildrenOf(s, b) # ChildrenOf(t, b) => t.blocks[b].updated = now
    /\ b \in QuietIn(s, t) /\ b # e => t.blocks[b].updated = s.blocks[b].updated

\* To that of a Page.
LEMMA PageTimed ==
    ASSUME NEW s, NEW t, NEW A, NEW A1, NEW now, Turns(s, t, A, A1, now),
           NEW e, NEW b \in DOMAIN A \cap DOMAIN A1, PageKept(A[b], A1[b], now, e)
    PROVE  TimedBy(s, t, now, e, b)
  <1> DEFINE es == A[b].entries
             rs == A1[b].entries
  <1>1. World(A) /\ Holds(s, A) /\ World(A1) /\ Holds(t, A1)
    BY DEF Turns
  <1>2. IsPage(s, b) /\ s.blocks[b] = A[b].page /\ IsPage(t, b) /\ t.blocks[b] = A1[b].page
    <2>1. Paged(A, BlockIds, Nat) /\ BlocksAre(s, A) /\ Paged(A1, BlockIds, Nat) /\ BlocksAre(t, A1)
      BY <1>1 DEF World, Holds
    <2>2. IsPage(s, b) /\ s.blocks[b] = A[b].page
      BY <2>1, HeldKinds
    <2>3. IsPage(t, b) /\ t.blocks[b] = A1[b].page
      BY <2>1, HeldKinds
    <2> QED
      BY <2>2, <2>3
  <1>3. A[b].id = b /\ 0 \in 0 .. Len(es) /\ 0 \in 0 .. Len(rs)
    <2>1. Outlined(A[b], b, BlockIds, Nat) /\ Outlined(A1[b], b, BlockIds, Nat)
      BY <1>1, PagedIs DEF World
    <2>2. A[b].id = b /\ Len(es) \in Nat
      BY <2>1, OutlinedIs
    <2>3. Len(rs) \in Nat
      BY <2>1, OutlinedIs
    <2> QED
      BY <2>2, <2>3
  <1>4. ChildrenOf(s, b) = ChildrenOf(t, b) <=> Keeps(es, rs, TopLevel)
    <2>1. /\ ParentAt(es, 0) = TopLevel /\ ParentAt(rs, 0) = TopLevel
          /\ ContainerAt(b, es, 0) = b /\ ContainerAt(b, rs, 0) = b
      BY DEF ParentAt, ContainerAt
    <2>2. ChildrenOf(s, ContainerAt(b, es, 0)) = ChildrenOf(t, ContainerAt(b, rs, 0))
            <=> Keeps(es, rs, ParentAt(es, 0))
      BY <1>1, <1>3, <2>1, ChildrenKept
    <2> QED
      BY <2>1, <2>2
  <1>5. /\ ~Keeps(es, rs, TopLevel) => A1[b].page.updated = now
        /\ Keeps(es, rs, TopLevel) /\ PageKey(A1[b].page) = PageKey(A[b].page) /\ b # e =>
               A1[b].page.updated = A[b].page.updated
    BY <1>3 DEF PageKept
  <1>6. b \in QuietIn(s, t) => PageKey(A1[b].page) = PageKey(A[b].page) /\ ChildrenOf(s, b) = ChildrenOf(t, b)
    BY <1>2 DEF QuietIn, OwnOf
  <1> QED
    BY <1>2, <1>4, <1>5, <1>6 DEF TimedBy

\* To that of an entry.
LEMMA EntryTimed ==
    ASSUME NEW s, NEW t, NEW A, NEW A1, NEW now, Turns(s, t, A, A1, now), NEW e,
           \A p \in DOMAIN A \cap DOMAIN A1 : PageKept(A[p], A1[p], now, e),
           NEW p \in DOMAIN A, NEW i \in 1 .. Len(A[p].entries),
           NEW q \in DOMAIN A1, NEW k \in 1 .. Len(A1[q].entries),
           A[p].entries[i].id = A1[q].entries[k].id
    PROVE  TimedBy(s, t, now, e, A[p].entries[i].id)
  <1> DEFINE es == A[p].entries
             rs == A1[q].entries
             b == es[i].id
  <1>1. Shifted(s, t, A, A1, now, p, i, q, k)
    BY ShiftedIs
  <1>2. /\ b = rs[k].id /\ ~IsPage(s, b) /\ ~IsPage(t, b)
        /\ s.blocks[b].updated = es[i].updated /\ t.blocks[b].updated = rs[k].updated
        /\ ChildrenOf(s, b) = ChildrenOf(t, b) <=> Keeps(es, rs, b)
        /\ s.byChild[b][1] = t.byChild[b][1] <=>
              es[i].parent = rs[k].parent /\ (p = q \/ es[i].parent # TopLevel)
    BY <1>1 DEF Shifted, EntrySeen
  <1>3. b \in QuietIn(s, t) =>
            ChildrenOf(s, b) = ChildrenOf(t, b) /\ s.byChild[b][1] = t.byChild[b][1]
    BY <1>2 DEF QuietIn, ParentOf
  <1>4. CASE p = q
    <2>1. PageKept(A[p], A1[q], now, e)
      BY <1>4
    <2>2. /\ ~Keeps(es, rs, b) => rs[k].updated = now
          /\ Keeps(es, rs, b) /\ es[i].parent = rs[k].parent /\ b # e =>
                 rs[k].updated = es[i].updated
      BY <1>2, <2>1 DEF PageKept
    <2> QED
      BY <1>2, <1>3, <1>4, <2>2 DEF TimedBy
  <1>5. CASE p # q
    <2>1. ArrivesWhole(s, t, now, b)
      BY <1>1, <1>5, ShiftedArrives
    <2> QED
      BY <1>3, <2>1 DEF ArrivesWhole, TimedBy
  <1> QED
    BY <1>4, <1>5

\* Of the Blocks left alone at most one gets another time.
LEMMA FewStamped ==
    ASSUME NEW s, NEW t, NEW now, NEW e,
           \A b \in DOMAIN s.blocks \cap DOMAIN t.blocks : TimedBy(s, t, now, e, b)
    PROVE  Cardinality({b \in QuietIn(s, t) : t.blocks[b].updated # s.blocks[b].updated}) <= 1
  <1> DEFINE S == {b \in QuietIn(s, t) : t.blocks[b].updated # s.blocks[b].updated}
  <1>1. ASSUME NEW b \in S
        PROVE  b = e
    <2>1. b \in DOMAIN s.blocks \cap DOMAIN t.blocks
      BY DEF QuietIn
    <2> QED
      BY <2>1 DEF TimedBy
  <1>2. S \in SUBSET {e}
    BY <1>1
  <1> HIDE DEF S
  <1>3. Cardinality(S) <= Cardinality({e})
    BY <1>2, FS_Singleton, FS_Subset
  <1>4. Cardinality({e}) = 1
    BY FS_Singleton
  <1> QED
    BY <1>3, <1>4 DEF S

\* A command stamps the containers whose children changed and at most one Block besides.
LEMMA StampedAre ==
    ASSUME NEW s, NEW t, NEW A, NEW A1, NEW now, Turns(s, t, A, A1, now)
    PROVE  /\ \A b \in DOMAIN s.blocks \cap DOMAIN t.blocks :
                 ChildrenOf(s, b) # ChildrenOf(t, b) => t.blocks[b].updated = now
           /\ Cardinality({b \in QuietIn(s, t) : t.blocks[b].updated # s.blocks[b].updated}) <= 1
  <1>1. PICK e : \A p \in DOMAIN A \cap DOMAIN A1 : PageKept(A[p], A1[p], now, e)
    BY DEF Turns, Remade
  <1>2. ASSUME NEW b \in DOMAIN s.blocks \cap DOMAIN t.blocks
        PROVE  TimedBy(s, t, now, e, b)
    <2>1. CASE b \in DOMAIN A \cap DOMAIN A1
      BY <1>1, <2>1, PageTimed
    <2>2. ASSUME NEW p \in DOMAIN A, NEW q \in DOMAIN A1,
                 NEW i \in 1 .. Len(A[p].entries), NEW k \in 1 .. Len(A1[q].entries),
                 A[p].entries[i].id = b, A1[q].entries[k].id = b
          PROVE  TimedBy(s, t, now, e, b)
      <3>1. TimedBy(s, t, now, e, A[p].entries[i].id)
        BY <1>1, <2>2, EntryTimed
      <3> QED
        BY <2>2, <3>1
    <2> QED
      BY <2>1, <2>2, KeptSort
  <1>3. Cardinality({b \in QuietIn(s, t) : t.blocks[b].updated # s.blocks[b].updated}) <= 1
    BY <1>2, FewStamped
  <1> QED
    BY <1>2, <1>3 DEF TimedBy

\* A command that is recorded leads from the Pages of one store to those of the next.
LEMMA CommandTurns ==
    ASSUME Inv, Next, Commanded
    PROVE  \E A, A1 : Turns(store, store', A, A1, clock')
  <1>1. PICK A, B, F, W : Told(A, B, F, W)
    BY DEF Inv, Coherent, Told
  <1>2. /\ issued \in 0 .. MaxIds /\ clock \in Nat /\ Paged(A, 1 .. issued, 0 .. clock)
        /\ Holds(store, A) /\ StacksTyped(history, W) /\ Cached(store, session)
    BY <1>1 DEF Told, Tells
  <1>3. HistoryRecord(history) /\ history.next \in Nat \ {0}
    BY <1>2 DEF StacksTyped
  <1>4. ASSUME NEW tick \in Ticks, Command(clock + tick)
        PROVE  \E A1 : Turns(store, store', A, A1, clock')
    <2>1. Held(A)
      BY <1>2 DEF Held
    <2>2. Recording(A) \/ Repeating(A)
      BY <1>4, <2>1, TickRecords
    <2>3. CASE Recording(A)
      <3>1. PICK s, what, A1 : \E t \in HistoryTracks :
                /\ CommitAndRecord(s, t, what) /\ Brings(s, store, A1)
                /\ issued' \in issued .. MaxIds /\ clock' \in Nat
                /\ Paged(A1, 1 .. issued', 0 .. clock') /\ Remade(A, A1, clock')
        BY <2>3 DEF Recording
      <3>2. session.open /\ store' = Committed(s) /\ Brings(s, store, A1)
        BY <3>1 DEF CommitAndRecord, Commit
      <3>3. Holds(store', A1)
        BY <1>2, <3>2, CommitKeeps
      <3>4. World(A)
        BY <1>2, WorldIs
      <3>5. World(A1)
        <4>1. issued' \in 0 .. MaxIds /\ clock' \in Nat /\ Paged(A1, 1 .. issued', 0 .. clock')
          BY <1>2, <3>1
        <4> QED
          BY <4>1, WorldIs
      <3> QED
        BY <1>2, <3>1, <3>3, <3>4, <3>5 DEF Turns
    <2>4. CASE Repeating(A)
      <3>1. history' = history
        BY <2>4 DEF Repeating
      <3> QED
        BY <1>3, <3>1 DEF Commanded
    <2> QED
      BY <2>2, <2>3, <2>4
  <1>5. ASSUME NEW t \in HistoryTracks, UndoEdit(t) \/ RedoEdit(t)
        PROVE  FALSE
    <2>1. history'.next = history.next
      BY <1>3, <1>5 DEF UndoEdit, RedoEdit, Undone, Redone, HistoryRecord
    <2> QED
      BY <1>3, <2>1 DEF Commanded
  <1>6. ASSUME Close
        PROVE  FALSE
    <2>1. history'.next = 1
      BY <1>6 DEF Close, EmptyHistory
    <2> QED
      BY <1>3, <2>1 DEF Commanded
  <1>7. ASSUME Open
        PROVE  FALSE
    <2>1. history' = history
      BY <1>7 DEF Open
    <2> QED
      BY <1>3, <2>1 DEF Commanded
  <1> QED
    BY <1>4, <1>5, <1>6, <1>7 DEF Next

\* A step that changes nothing is no command.
LEMMA StillUncommanded ==
    ASSUME Inv, UNCHANGED vars
    PROVE  ~Commanded
  <1>1. PICK A, B, F, W : Tells(store, history, clock, issued, session, A, B, F, W)
    BY DEF Inv, Coherent
  <1>2. history.next \in Nat /\ history' = history
    BY <1>1 DEF Tells, StacksTyped, vars
  <1> QED
    BY <1>2 DEF Commanded

\* A subtree that a command takes to another Page arrives there with its texts, with the
\* same Blocks below each of its entries in the same order, and with the times it had but
\* for its root's (moveEntryToPage, ADR-0023).
THEOREM MovesKeepSubtreesHolds == Spec => MovesKeepSubtrees
  <1> DEFINE Step ==
        \A e \in EntryIds(store) :
          Commanded /\ e \in Kept /\ PageOf(store, e) # PageOf(store', e) =>
              /\ store'.blocks[e].text = store.blocks[e].text
              /\ ChildrenOf(store', e) = ChildrenOf(store, e)
              /\ store.byChild[e][1] # store'.byChild[e][1] =>
                     store'.blocks[e].updated = clock'
              /\ store.byChild[e][1] = store'.byChild[e][1] =>
                     store'.blocks[e].updated = store.blocks[e].updated
  <1>1. ASSUME Inv, Next
        PROVE  Step
    <2> SUFFICES ASSUME NEW e \in EntryIds(store), Commanded, e \in Kept,
                        PageOf(store, e) # PageOf(store', e)
                 PROVE  ArrivesWhole(store, store', clock', e)
      BY DEF ArrivesWhole
    <2>1. PICK A, A1 : Turns(store, store', A, A1, clock')
      BY <1>1, CommandTurns
    <2>2. ~IsPage(store, e)
      BY DEF EntryIds, IsEntry, IsPage
    <2>3. e \in DOMAIN store.blocks \cap DOMAIN store'.blocks
      BY DEF Kept
    <2> QED
      BY <2>1, <2>2, <2>3, MovedIsWhole
  <1>2. ASSUME Inv, UNCHANGED vars
        PROVE  Step
    BY <1>2, StillUncommanded
  <1>3. Inv /\ [Next]_vars => [Step]_vars
    BY <1>1, <1>2
  <1>4. MovesKeepSubtrees <=> [][Step]_vars
    BY PTL DEF MovesKeepSubtrees
  <1> HIDE DEF Step
  <1> QED
    BY <1>3, <1>4, CoherentHolds, PTL DEF Spec

\* A command stamps the Page or the entry whose ordered children it changed, and of the
\* Blocks whose content, children and place it left alone at most the one it was given
\* (touchContainers, ADR-0020).
THEOREM TimestampsFollowEditsHolds == Spec => TimestampsFollowEdits
  <1> DEFINE Quiet == QuietIn(store, store')
             Step ==
               Commanded =>
                 /\ \A b \in Kept : ChildrenOf(store, b) # ChildrenOf(store', b) =>
                        store'.blocks[b].updated = clock'
                 /\ Cardinality({b \in Quiet : store'.blocks[b].updated # store.blocks[b].updated}) <= 1
  <1>1. ASSUME Inv, Next
        PROVE  Step
    <2> SUFFICES ASSUME Commanded
                 PROVE  /\ \A b \in Kept : ChildrenOf(store, b) # ChildrenOf(store', b) =>
                               store'.blocks[b].updated = clock'
                        /\ Cardinality({b \in Quiet :
                               store'.blocks[b].updated # store.blocks[b].updated}) <= 1
      OBVIOUS
    <2>1. PICK A, A1 : Turns(store, store', A, A1, clock')
      BY <1>1, CommandTurns
    <2>2. Kept = DOMAIN store.blocks \cap DOMAIN store'.blocks
      BY DEF Kept
    <2> QED
      BY <2>1, <2>2, StampedAre
  <1>2. ASSUME Inv, UNCHANGED vars
        PROVE  Step
    BY <1>2, StillUncommanded
  <1>3. Inv /\ [Next]_vars => [Step]_vars
    BY <1>1, <1>2
  <1>4. TimestampsFollowEdits <=> [][Step]_vars
    BY PTL DEF TimestampsFollowEdits, QuietIn, OwnOf, ParentOf, Kept
  <1> HIDE DEF Step
  <1> QED
    BY <1>3, <1>4, CoherentHolds, PTL DEF Spec
=============================================================================
