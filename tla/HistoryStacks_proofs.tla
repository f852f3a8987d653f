------------------------ MODULE HistoryStacks_proofs ------------------------
(* What the history operators keep, whatever the actions restore: lemmas   *)
(* for every module whose state holds a history.  The inductions and sums  *)
(* they rest on are the first section of Outline_proofs.                   *)
EXTENDS HistoryStacks, Outline_proofs

\* The empty history (open, close) is typed and chronological.
LEMMA EmptyChronological ==
    ASSUME NEW W
    PROVE  StacksTyped(EmptyHistory, W) /\ Chronological(EmptyHistory)
  BY DEF EmptyHistory, NoStacks, HistoryRecord, StacksTyped, Chronological, OrderedStacks,
         UndoBeforeRedo, NumbersUnique, Ascending, Descending,
         Below, Before, Apart

\* Dropping the older actions of a deque leaves a suffix of it.
LEMMA DropOlderIsSuffix ==
    ASSUME NEW A, NEW s \in Seq(A), NEW cut
    PROVE  \E k \in 0 .. Len(s) : DropOlder(s, cut) = SubSeq(s, k + 1, Len(s))
  <1> DEFINE older == {i \in DOMAIN s : s[i].sequence < cut}
  <1>1. Len(s) \in Nat /\ DOMAIN s = 1 .. Len(s)
    OBVIOUS
  <1>2. IsFiniteSet(1 .. Len(s)) /\ Cardinality(1 .. Len(s)) = Len(s)
    BY SMTT(30), <1>1, FS_Interval
  <1>3. older \subseteq 1 .. Len(s)
    BY <1>1
  <1>4. IsFiniteSet(older) /\ Cardinality(older) <= Len(s)
    BY <1>2, <1>3, FS_Subset
  <1>5. Cardinality(older) \in Nat
    BY <1>4, FS_CardinalityType
  <1>6. DropOlder(s, cut) = SubSeq(s, Cardinality(older) + 1, Len(s))
    BY DEF DropOlder
  <1>7. Cardinality(older) \in 0 .. Len(s)
    BY <1>1, <1>4, <1>5
  <1> HIDE DEF older
  <1> QED
    BY <1>6, <1>7

\* What a deque of actions holds.
LEMMA ActionsTyped ==
    ASSUME NEW W, NEW s \in Seq(Actions(W))
    PROVE  /\ Len(s) \in Nat
           /\ DOMAIN s = 1 .. Len(s)
           /\ \A i \in DOMAIN s : s[i] \in Actions(W) /\ s[i].sequence \in Nat
  <1>1. DOMAIN s = 1 .. Len(s) /\ Len(s) \in Nat
    OBVIOUS
  <1>2. \A i \in DOMAIN s : s[i] \in Actions(W)
    BY <1>1
  <1>3. \A x \in Actions(W) : x.sequence \in Nat
    BY DEF Actions
  <1> QED
    BY <1>1, <1>2, <1>3

\* A suffix of an ascending deque is ascending, and adds no action.
LEMMA SuffixAscending ==
    ASSUME NEW W, NEW s \in Seq(Actions(W)), NEW k \in 0 .. Len(s), Ascending(s)
    PROVE  LET r == SubSeq(s, k + 1, Len(s))
           IN  /\ r \in Seq(Actions(W))
               /\ Ascending(r)
               /\ \A i \in DOMAIN r : \E j \in DOMAIN s : r[i] = s[j]
  <1> DEFINE r == SubSeq(s, k + 1, Len(s))
  <1>1. /\ r \in Seq(Actions(W))
        /\ DOMAIN r = 1 .. (Len(s) - k)
        /\ \A i \in DOMAIN r : k + i \in DOMAIN s /\ r[i] = s[k + i]
    OBVIOUS
  <1> HIDE DEF r
  <1>2. ASSUME NEW i \in DOMAIN r, NEW j \in DOMAIN r, i < j
        PROVE  r[i].sequence < r[j].sequence
    <2>1. k + i < k + j
      BY <1>1, <1>2
    <2> QED
      BY <1>1, <2>1 DEF Ascending
  <1>3. Ascending(r)
    BY <1>2 DEF Ascending
  <1> QED
    BY <1>1, <1>3 DEF r

\* Appending an action newer than all others keeps a deque ascending.
LEMMA AppendAscending ==
    ASSUME NEW W, NEW s \in Seq(Actions(W)), NEW a \in Actions(W),
           Ascending(s), Below(s, a.sequence)
    PROVE  /\ Append(s, a) \in Seq(Actions(W))
           /\ Ascending(Append(s, a))
           /\ \A i \in DOMAIN Append(s, a) :
                 Append(s, a)[i] = a \/ \E j \in DOMAIN s : Append(s, a)[i] = s[j]
  <1>1. /\ Append(s, a) \in Seq(Actions(W))
        /\ DOMAIN Append(s, a) = 1 .. (Len(s) + 1)
        /\ Len(s) \in Nat
        /\ DOMAIN s = 1 .. Len(s)
        /\ Append(s, a)[Len(s) + 1] = a
        /\ \A i \in 1 .. Len(s) : Append(s, a)[i] = s[i]
    OBVIOUS
  <1>2. ASSUME NEW i \in 1 .. (Len(s) + 1), NEW j \in 1 .. (Len(s) + 1), i < j
        PROVE  Append(s, a)[i].sequence < Append(s, a)[j].sequence
    <2>1. i \in 1 .. Len(s) /\ Append(s, a)[i] = s[i]
      BY <1>1, <1>2
    <2>2. CASE j = Len(s) + 1
      BY <1>1, <2>1, <2>2 DEF Below
    <2>3. CASE j \in 1 .. Len(s)
      BY <1>1, <1>2, <2>1, <2>3 DEF Ascending
    <2> QED
      BY <1>1, <2>2, <2>3
  <1>3. Ascending(Append(s, a))
    BY <1>1, <1>2 DEF Ascending
  <1>4. \A i \in 1 .. (Len(s) + 1) : i = Len(s) + 1 \/ i \in 1 .. Len(s)
    BY <1>1
  <1> QED
    BY <1>1, <1>3, <1>4

\* The same for a redo deque and an action older than all others.
LEMMA AppendDescending ==
    ASSUME NEW W, NEW s \in Seq(Actions(W)), NEW a \in Actions(W),
           Descending(s), \A i \in DOMAIN s : a.sequence < s[i].sequence
    PROVE  /\ Append(s, a) \in Seq(Actions(W))
           /\ Descending(Append(s, a))
           /\ \A i \in DOMAIN Append(s, a) :
                 Append(s, a)[i] = a \/ \E j \in DOMAIN s : Append(s, a)[i] = s[j]
  <1>1. /\ Append(s, a) \in Seq(Actions(W))
        /\ DOMAIN Append(s, a) = 1 .. (Len(s) + 1)
        /\ Len(s) \in Nat
        /\ DOMAIN s = 1 .. Len(s)
        /\ Append(s, a)[Len(s) + 1] = a
        /\ \A i \in 1 .. Len(s) : Append(s, a)[i] = s[i]
    OBVIOUS
  <1>2. ASSUME NEW i \in 1 .. (Len(s) + 1), NEW j \in 1 .. (Len(s) + 1), i < j
        PROVE  Append(s, a)[i].sequence > Append(s, a)[j].sequence
    <2>1. i \in 1 .. Len(s) /\ Append(s, a)[i] = s[i]
      BY <1>1, <1>2
    <2>2. CASE j = Len(s) + 1
      <3>1. a.sequence < s[i].sequence
        BY <1>1, <2>1
      <3>2. a.sequence \in Nat /\ s[i].sequence \in Nat
        BY <1>1, <2>1, ActionsTyped DEF Actions
      <3> QED
        BY <1>1, <2>1, <2>2, <3>1, <3>2
    <2>3. CASE j \in 1 .. Len(s)
      BY <1>1, <1>2, <2>1, <2>3 DEF Descending
    <2> QED
      BY <1>1, <2>2, <2>3
  <1>3. Descending(Append(s, a))
    BY <1>1, <1>2 DEF Descending
  <1>4. \A i \in 1 .. (Len(s) + 1) : i = Len(s) + 1 \/ i \in 1 .. Len(s)
    BY <1>1
  <1> QED
    BY <1>1, <1>3, <1>4

\* Without its last action a deque keeps its order, and holds older (newer, on a
\* redo deque) actions only.
LEMMA FrontOrdered ==
    ASSUME NEW W, NEW s \in Seq(Actions(W)), s # <<>>
    PROVE  /\ Front(s) \in Seq(Actions(W))
           /\ Last(s) \in Actions(W)
           /\ Len(s) \in DOMAIN s
           /\ Last(s) = s[Len(s)]
           /\ s = Append(Front(s), Last(s))
           /\ \A i \in DOMAIN Front(s) :
                 i \in DOMAIN s /\ i < Len(s) /\ Front(s)[i] = s[i]
           /\ \A i \in DOMAIN s : i = Len(s) \/ (i < Len(s) /\ i \in DOMAIN Front(s))
  <1> DEFINE n == Len(s)
             f == Front(s)
             z == Last(s)
             g == Append(f, z)
  <1>1. n \in Nat \ {0} /\ n = Len(s) /\ DOMAIN s = 1 .. n
    OBVIOUS
  <1>2. /\ f \in Seq(Actions(W))
        /\ DOMAIN f = 1 .. (n - 1)
        /\ Len(f) = n - 1
        /\ \A i \in 1 .. (n - 1) : f[i] = s[i]
    BY <1>1 DEF Front
  <1>3. z = s[n] /\ z \in Actions(W)
    BY <1>1 DEF Last
  <1>4. /\ g \in Seq(Actions(W))
        /\ Len(g) = Len(f) + 1
        /\ \A i \in 1 .. Len(f) : g[i] = f[i]
        /\ g[Len(f) + 1] = z
    <2> HIDE DEF f, z
    <2> QED
      BY <1>2, <1>3, AppendProperties
  <1> HIDE DEF n, f, z, g
  <1>5. \A i \in 1 .. n : i = n \/ (i < n /\ i \in 1 .. (n - 1))
    BY <1>1
  <1>6. /\ \A i \in 1 .. (n - 1) : i \in 1 .. n /\ i < n
        /\ n \in 1 .. n
        /\ n - 1 + 1 = n
    BY <1>1
  <1>7. Len(g) = n /\ \A i \in 1 .. n : g[i] = s[i]
    BY <1>2, <1>3, <1>4, <1>5, <1>6
  <1>8. s = g
    BY <1>1, <1>4, <1>7, SeqEqual
  <1> QED
    BY <1>1, <1>2, <1>3, <1>5, <1>6, <1>8 DEF n, f, z, g

\* Pushing a new action on a history whose redo was cleared.
LEMMA PushedShape ==
    ASSUME NEW W, NEW h, StacksTyped(h, W),
           NEW t \in Tracks, NEW size \in Nat, NEW what \in W
    PROVE  LET a == NewAction(h, size, what)
               p == Pushed(ClearRedo(h), t, size, what)
           IN  /\ a \in Actions(W) /\ a.sequence = h.next
               /\ HistoryRecord(p)
               /\ p.redo = NoStacks
               /\ p.next = h.next + 1
               /\ p.undo = [u \in Tracks |-> p.undo[u]]
               /\ p.undo[t] = Append(h.undo[t], a)
               /\ \A u \in Tracks \ {t} : p.undo[u] = h.undo[u]
               /\ \A u \in Tracks : p.undo[u] \in Seq(Actions(W))
  <1> DEFINE a == NewAction(h, size, what)
             p == Pushed(ClearRedo(h), t, size, what)
  <1>1. a \in Actions(W) /\ a.sequence = h.next
    BY DEF StacksTyped, Actions, NewAction
  <1>2. NewAction(ClearRedo(h), size, what) = a
    BY DEF StacksTyped, ClearRedo, NewAction
  <1>3. /\ HistoryRecord(p)
        /\ p.redo = NoStacks
        /\ p.next = h.next + 1
        /\ p.undo = [h.undo EXCEPT ![t] = Append(h.undo[t], a)]
    <2> DEFINE c == ClearRedo(h)
    <2>1. /\ h = [undo |-> h.undo, redo |-> h.redo, next |-> h.next, bytes |-> h.bytes]
          /\ t \in DOMAIN h.undo
      BY DEF StacksTyped, HistoryRecord
    <2>2. /\ c = [undo |-> c.undo, redo |-> c.redo, next |-> c.next, bytes |-> c.bytes]
          /\ c.undo = h.undo /\ c.redo = NoStacks /\ c.next = h.next
      <3> DEFINE spent == h.bytes - ActionBytes(h.redo)
      <3>1. c = [h EXCEPT !.redo = NoStacks, !.bytes = spent]
        BY DEF ClearRedo
      <3> HIDE DEF c, spent
      <3> QED
        BY <2>1, <3>1
    <2>3. p = [c EXCEPT !.undo[t] = Append(@, a), !.next = @ + 1, !.bytes = @ + size]
      BY <1>2 DEF Pushed
    <2> HIDE DEF c, p, a
    <2> QED
      BY <2>1, <2>2, <2>3 DEF HistoryRecord
  <1>4. /\ p.undo = [u \in Tracks |-> p.undo[u]]
        /\ p.undo[t] = Append(h.undo[t], a)
        /\ \A u \in Tracks \ {t} : p.undo[u] = h.undo[u]
    BY <1>3 DEF StacksTyped, HistoryRecord
  <1>5. \A u \in Tracks : p.undo[u] \in Seq(Actions(W))
    <2>1. h.undo[t] \in Seq(Actions(W)) /\ \A u \in Tracks : h.undo[u] \in Seq(Actions(W))
      BY DEF StacksTyped
    <2>2. Append(h.undo[t], a) \in Seq(Actions(W))
      BY <1>1, <2>1, AppendProperties
    <2> QED
      BY <1>4, <2>1, <2>2
  <1> QED
    BY <1>1, <1>3, <1>4, <1>5

\* A recorded history: redo is empty, the number is used up, and every undo
\* deque is a suffix of what pushing the action gave.
LEMMA RecordedShape ==
    ASSUME NEW W, NEW h, StacksTyped(h, W),
           NEW t \in Tracks, NEW size \in Nat, NEW what \in W
    PROVE  LET p == Pushed(ClearRedo(h), t, size, what)
               r == Recorded(h, t, size, what)
           IN  /\ HistoryRecord(r)
               /\ r.redo = NoStacks
               /\ r.next = h.next + 1
               /\ r.undo = [u \in Tracks |-> r.undo[u]]
               /\ \A u \in Tracks : \E k \in 0 .. Len(p.undo[u]) :
                      r.undo[u] = SubSeq(p.undo[u], k + 1, Len(p.undo[u]))
  <1> DEFINE p == Pushed(ClearRedo(h), t, size, what)
             r == Recorded(h, t, size, what)
  <1>1. /\ HistoryRecord(p)
        /\ p.redo = NoStacks
        /\ p.next = h.next + 1
        /\ p.undo = [u \in Tracks |-> p.undo[u]]
        /\ \A u \in Tracks : p.undo[u] \in Seq(Actions(W))
    BY PushedShape
  <1>2. r = EnforceBudget(p)
    BY DEF Recorded
  <1>3. CASE r = p
    <2>1. \A u \in Tracks : /\ p.undo[u] = SubSeq(p.undo[u], 0 + 1, Len(p.undo[u]))
                            /\ 0 \in 0 .. Len(p.undo[u])
      BY <1>1
    <2> QED
      BY <1>1, <1>3, <2>1
  <1>4. CASE r # p
    <2>1. PICK cut : r = [p EXCEPT !.undo = KeptFrom(p, cut),
                                   !.bytes = @ - (ActionBytes(p.undo)
                                                  - ActionBytes(KeptFrom(p, cut)))]
      BY <1>2, <1>4 DEF EnforceBudget
    <2>2. /\ HistoryRecord(r)
          /\ r.redo = NoStacks
          /\ r.next = h.next + 1
          /\ r.undo = [u \in Tracks |-> DropOlder(p.undo[u], cut)]
      BY <1>1, <2>1 DEF KeptFrom, HistoryRecord
    <2>3. \A u \in Tracks : \E k \in 0 .. Len(p.undo[u]) :
              r.undo[u] = SubSeq(p.undo[u], k + 1, Len(p.undo[u]))
      <3> TAKE u \in Tracks
      <3>1. p.undo[u] \in Seq(Actions(W))
        BY <1>1
      <3>2. \E k \in 0 .. Len(p.undo[u]) :
               DropOlder(p.undo[u], cut) = SubSeq(p.undo[u], k + 1, Len(p.undo[u]))
        BY <3>1, DropOlderIsSuffix
      <3> QED
        BY <2>2, <3>2
    <2> QED
      BY <2>2, <2>3
  <1> QED
    BY <1>3, <1>4

\* A recorded action keeps the deques typed and in chronological order, however
\* many older actions the budget takes away.
LEMMA RecordedChronological ==
    ASSUME NEW W, NEW h, StacksTyped(h, W), Chronological(h),
           NEW t \in Tracks, NEW size \in Nat, NEW what \in W
    PROVE  /\ StacksTyped(Recorded(h, t, size, what), W)
           /\ Chronological(Recorded(h, t, size, what))
  <1> DEFINE a == NewAction(h, size, what)
             p == Pushed(ClearRedo(h), t, size, what)
             r == Recorded(h, t, size, what)
             U == h.undo
             P == p.undo
             V == r.undo
             n == h.next
  <1>1. /\ HistoryRecord(r)
        /\ r.redo = NoStacks
        /\ r.next = n + 1
        /\ V = [u \in Tracks |-> V[u]]
        /\ \A u \in Tracks : \E k \in 0 .. Len(P[u]) :
               V[u] = SubSeq(P[u], k + 1, Len(P[u]))
    BY RecordedShape
  <1>2. /\ a \in Actions(W) /\ a.sequence = n
        /\ HistoryRecord(p)
        /\ p.redo = NoStacks
        /\ p.next = n + 1
        /\ P = [u \in Tracks |-> P[u]]
        /\ P[t] = Append(U[t], a)
        /\ \A u \in Tracks \ {t} : P[u] = U[u]
        /\ \A u \in Tracks : P[u] \in Seq(Actions(W))
    BY PushedShape
  <1>3. /\ n \in Nat
        /\ \A u \in Tracks : /\ U[u] \in Seq(Actions(W))
                             /\ Ascending(U[u])
                             /\ Below(U[u], n)
        /\ \A u, v \in Tracks : u # v => Apart(U[u], U[v])
    BY DEF StacksTyped, Chronological, OrderedStacks, UndoBeforeRedo, NumbersUnique
  <1>4. r = Recorded(h, t, size, what)
    OBVIOUS
  <1> HIDE DEF a, p, r, U, P, V, n
  <1>5. /\ Ascending(P[t])
        /\ \A i \in DOMAIN P[t] : P[t][i] = a \/ \E j \in DOMAIN U[t] : P[t][i] = U[t][j]
    <2> DEFINE s == U[t]
    <2>1. s \in Seq(Actions(W)) /\ a \in Actions(W) /\ Ascending(s) /\ Below(s, a.sequence)
      BY <1>2, <1>3
    <2>2. P[t] = Append(s, a)
      BY <1>2
    <2> HIDE DEF s
    <2>3. /\ Ascending(Append(s, a))
          /\ \A i \in DOMAIN Append(s, a) :
                Append(s, a)[i] = a \/ \E j \in DOMAIN s : Append(s, a)[i] = s[j]
      BY <2>1, AppendAscending
    <2> QED
      BY <2>2, <2>3 DEF s
  <1>6. \A u \in Tracks :
           /\ Ascending(P[u])
           /\ \A i \in DOMAIN P[u] : \/ u = t /\ P[u][i] = a
                                    \/ \E j \in DOMAIN U[u] : P[u][i] = U[u][j]
    BY ZenonT(40), <1>2, <1>3, <1>5
  <1>7. \A u \in Tracks :
           /\ V[u] \in Seq(Actions(W))
           /\ Ascending(V[u])
           /\ \A i \in DOMAIN V[u] : \E j \in DOMAIN P[u] : V[u][i] = P[u][j]
    <2> SUFFICES ASSUME NEW u \in Tracks
                 PROVE  /\ V[u] \in Seq(Actions(W))
                        /\ Ascending(V[u])
                        /\ \A i \in DOMAIN V[u] : \E j \in DOMAIN P[u] : V[u][i] = P[u][j]
      OBVIOUS
    <2>1. PICK k \in 0 .. Len(P[u]) : V[u] = SubSeq(P[u], k + 1, Len(P[u]))
      BY <1>1
    <2>2. P[u] \in Seq(Actions(W)) /\ Ascending(P[u])
      BY <1>2, <1>6
    <2> DEFINE s == P[u]
    <2> HIDE DEF s
    <2>3. s \in Seq(Actions(W)) /\ k \in 0 .. Len(s) /\ Ascending(s)
      BY <2>1, <2>2 DEF s
    <2>4. /\ SubSeq(s, k + 1, Len(s)) \in Seq(Actions(W))
          /\ Ascending(SubSeq(s, k + 1, Len(s)))
          /\ \A i \in DOMAIN SubSeq(s, k + 1, Len(s)) :
                \E j \in DOMAIN s : SubSeq(s, k + 1, Len(s))[i] = s[j]
      BY <2>3, SuffixAscending
    <2> QED
      BY <2>1, <2>4 DEF s
  <1>8. \A u \in Tracks : \A i \in DOMAIN V[u] :
           \/ u = t /\ V[u][i] = a
           \/ \E j \in DOMAIN U[u] : V[u][i] = U[u][j]
    BY <1>6, <1>7
  <1>9. \A u \in Tracks : \A j \in DOMAIN U[u] :
           U[u][j].sequence \in Nat /\ U[u][j].sequence < n
    BY <1>3, ActionsTyped DEF Below
  <1>10. \A u \in Tracks : NoStacks[u] = <<>> /\ DOMAIN NoStacks[u] = {}
    BY DEF NoStacks
  <1>11. StacksTyped(r, W)
    <2>1. V \in [Tracks -> Seq(Actions(W))]
      BY <1>1, <1>7
    <2>2. NoStacks \in [Tracks -> Seq(Actions(W))]
      BY DEF NoStacks
    <2> QED
      BY <1>1, <1>3, <2>1, <2>2 DEF StacksTyped, V
  <1>12. OrderedStacks(r)
    BY <1>1, <1>7, <1>10 DEF OrderedStacks, Descending, V
  <1>13. UndoBeforeRedo(r)
    <2>1. ASSUME NEW u \in Tracks, NEW i \in DOMAIN V[u]
          PROVE  V[u][i].sequence < n + 1
      <3>1. CASE V[u][i] = a
        BY <1>2, <1>3, <3>1
      <3>2. CASE \E j \in DOMAIN U[u] : V[u][i] = U[u][j]
        BY <1>3, <1>9, <3>2
      <3> QED
        BY <1>8, <3>1, <3>2
    <2>2. \A u \in Tracks : Below(V[u], n + 1)
      BY <2>1 DEF Below
    <2>3. \A u, v \in Tracks : Before(V[u], NoStacks[v]) /\ Below(NoStacks[u], n + 1)
      BY <1>10 DEF Before, Below
    <2> QED
      BY <1>1, <2>2, <2>3 DEF UndoBeforeRedo, V
  <1>14. NumbersUnique(r)
    <2>1. ASSUME NEW u \in Tracks, NEW v \in Tracks, u # v,
                 NEW i \in DOMAIN V[u], NEW j \in DOMAIN V[v]
          PROVE  V[u][i].sequence # V[v][j].sequence
      <3>1. CASE u = t /\ V[u][i] = a
        <4>1. PICK m \in DOMAIN U[v] : V[v][j] = U[v][m]
          BY <1>8, <2>1, <3>1
        <4> QED
          BY <1>2, <1>3, <1>9, <3>1, <4>1
      <3>2. CASE v = t /\ V[v][j] = a
        <4>1. PICK m \in DOMAIN U[u] : V[u][i] = U[u][m]
          BY <1>8, <2>1, <3>2
        <4> QED
          BY <1>2, <1>3, <1>9, <3>2, <4>1
      <3>3. CASE /\ \E m \in DOMAIN U[u] : V[u][i] = U[u][m]
                 /\ \E m \in DOMAIN U[v] : V[v][j] = U[v][m]
        BY <1>3, <2>1, <3>3 DEF Apart
      <3> QED
        BY <1>8, <3>1, <3>2, <3>3
    <2>2. \A u, v \in Tracks : u # v => Apart(V[u], V[v])
      BY <2>1 DEF Apart
    <2>3. \A u, v \in Tracks : Apart(NoStacks[u], NoStacks[v])
      BY <1>10 DEF Apart
    <2> QED
      BY <1>1, <2>2, <2>3 DEF NumbersUnique, V
  <1> QED
    BY <1>4, <1>11, <1>12, <1>13, <1>14 DEF Chronological

\* Every other action on an undo deque, of whatever track, is older than the newest one.
LEMMA NewestUndoDominates ==
    ASSUME NEW W, NEW h, StacksTyped(h, W), Chronological(h),
           NEW t \in Tracks, NewestUndo(h, t)
    PROVE  \A u \in Tracks : \A i \in DOMAIN h.undo[u] :
              \/ u = t /\ i = Len(h.undo[t])
              \/ h.undo[u][i].sequence < Last(h.undo[t]).sequence
  <1> DEFINE U == h.undo
             a == Last(U[t])
  <1>1. /\ \A u \in Tracks : U[u] \in Seq(Actions(W)) /\ Ascending(U[u])
        /\ \A u, v \in Tracks : u # v => Apart(U[u], U[v])
    BY DEF StacksTyped, Chronological, OrderedStacks, NumbersUnique
  <1>2. /\ U[t] # <<>>
        /\ \A u \in Tracks : U[u] # <<>> => Last(U[u]).sequence <= a.sequence
    <2>1. U[t] # <<>>
      BY DEF NewestUndo
    <2>2. \A u \in Tracks : U[u] # <<>> => a.sequence >= Last(U[u]).sequence
      BY DEF NewestUndo
    <2>3. \A u \in Tracks : U[u] # <<>> => Last(U[u]) \in Actions(W)
      BY <1>1, FrontOrdered
    <2>4. \A x, y \in Actions(W) : x.sequence >= y.sequence => y.sequence <= x.sequence
      BY DEF Actions
    <2> HIDE DEF U
    <2> QED
      BY <2>1, <2>2, <2>3, <2>4
  <1> HIDE DEF U, a
  <1> SUFFICES ASSUME NEW u \in Tracks, NEW i \in DOMAIN U[u]
               PROVE  (u = t /\ i = Len(U[t])) \/ U[u][i].sequence < a.sequence
    BY DEF U, a
  <1>3. U[u] # <<>> /\ U[u] \in Seq(Actions(W)) /\ U[t] \in Seq(Actions(W))
    BY <1>1
  <1> DEFINE z == Last(U[u])
  <1>4. /\ z \in Actions(W) /\ z = U[u][Len(U[u])] /\ Len(U[u]) \in DOMAIN U[u]
        /\ (i = Len(U[u]) \/ i < Len(U[u]))
    BY <1>3, FrontOrdered
  <1>5. a \in Actions(W) /\ a = U[t][Len(U[t])] /\ Len(U[t]) \in DOMAIN U[t]
    BY <1>2, <1>3, FrontOrdered DEF a
  <1>6. z.sequence <= a.sequence
    BY <1>2, <1>3
  <1>7. i = Len(U[u]) \/ U[u][i].sequence < z.sequence
    BY <1>1, <1>4 DEF Ascending
  <1>8. u = t \/ z.sequence # a.sequence
    BY <1>1, <1>4, <1>5 DEF Apart
  <1>9. /\ a.sequence \in Nat /\ z.sequence \in Nat
        /\ U[u][i].sequence \in Nat
    BY <1>3, <1>4, <1>5, ActionsTyped DEF Actions
  <1>10. u = t => z = a
    BY DEF a
  <1> HIDE DEF z
  <1> QED
    BY <1>4, <1>6, <1>7, <1>8, <1>9, <1>10

\* Every other action on an redo deque, of whatever track, is newer than the oldest one.
LEMMA OldestRedoDominates ==
    ASSUME NEW W, NEW h, StacksTyped(h, W), Chronological(h),
           NEW t \in Tracks, OldestRedo(h, t)
    PROVE  \A u \in Tracks : \A i \in DOMAIN h.redo[u] :
              \/ u = t /\ i = Len(h.redo[t])
              \/ h.redo[u][i].sequence > Last(h.redo[t]).sequence
  <1> DEFINE U == h.redo
             a == Last(U[t])
  <1>1. /\ \A u \in Tracks : U[u] \in Seq(Actions(W)) /\ Descending(U[u])
        /\ \A u, v \in Tracks : u # v => Apart(U[u], U[v])
    BY DEF StacksTyped, Chronological, OrderedStacks, NumbersUnique
  <1>2. /\ U[t] # <<>>
        /\ \A u \in Tracks : U[u] # <<>> => Last(U[u]).sequence >= a.sequence
    <2>1. U[t] # <<>>
      BY DEF OldestRedo
    <2>2. \A u \in Tracks : U[u] # <<>> => a.sequence <= Last(U[u]).sequence
      BY DEF OldestRedo
    <2>3. \A u \in Tracks : U[u] # <<>> => Last(U[u]) \in Actions(W)
      BY <1>1, FrontOrdered
    <2>4. \A x, y \in Actions(W) : x.sequence <= y.sequence => y.sequence >= x.sequence
      BY DEF Actions
    <2> HIDE DEF U
    <2> QED
      BY <2>1, <2>2, <2>3, <2>4
  <1> HIDE DEF U, a
  <1> SUFFICES ASSUME NEW u \in Tracks, NEW i \in DOMAIN U[u]
               PROVE  (u = t /\ i = Len(U[t])) \/ U[u][i].sequence > a.sequence
    BY DEF U, a
  <1>3. U[u] # <<>> /\ U[u] \in Seq(Actions(W)) /\ U[t] \in Seq(Actions(W))
    BY <1>1
  <1> DEFINE z == Last(U[u])
  <1>4. /\ z \in Actions(W) /\ z = U[u][Len(U[u])] /\ Len(U[u]) \in DOMAIN U[u]
        /\ (i = Len(U[u]) \/ i < Len(U[u]))
    BY <1>3, FrontOrdered
  <1>5. a \in Actions(W) /\ a = U[t][Len(U[t])] /\ Len(U[t]) \in DOMAIN U[t]
    BY <1>2, <1>3, FrontOrdered DEF a
  <1>6. z.sequence >= a.sequence
    BY <1>2, <1>3
  <1>7. i = Len(U[u]) \/ U[u][i].sequence > z.sequence
    BY <1>1, <1>4 DEF Descending
  <1>8. u = t \/ z.sequence # a.sequence
    BY <1>1, <1>4, <1>5 DEF Apart
  <1>9. /\ a.sequence \in Nat /\ z.sequence \in Nat
        /\ U[u][i].sequence \in Nat
    BY <1>3, <1>4, <1>5, ActionsTyped DEF Actions
  <1>10. u = t => z = a
    BY DEF a
  <1> HIDE DEF z
  <1> QED
    BY <1>4, <1>6, <1>7, <1>8, <1>9, <1>10

\* Undoing the newest action: the deques afterwards.
LEMMA UndoneShape ==
    ASSUME NEW W, NEW h, StacksTyped(h, W), NEW t \in Tracks, h.undo[t] # <<>>
    PROVE  LET a == Last(h.undo[t])
               m == Undone(h, t)
           IN  /\ a \in Actions(W)
               /\ HistoryRecord(m)
               /\ m.next = h.next
               /\ m.bytes = h.bytes
               /\ m.undo = [h.undo EXCEPT ![t] = Front(h.undo[t])]
               /\ m.redo = [h.redo EXCEPT ![t] = Append(h.redo[t], a)]
  <1> DEFINE a == Last(h.undo[t])
             m == Undone(h, t)
  <1>1. h.undo[t] \in Seq(Actions(W))
    BY DEF StacksTyped
  <1>2. a \in Actions(W)
    BY <1>1, FrontOrdered
  <1>3. m = [h EXCEPT !.undo[t] = Front(@), !.redo[t] = Append(@, a)]
    BY DEF Undone
  <1> HIDE DEF a, m
  <1>4. /\ HistoryRecord(m)
        /\ m.next = h.next
        /\ m.bytes = h.bytes
        /\ m.undo = [h.undo EXCEPT ![t] = Front(h.undo[t])]
        /\ m.redo = [h.redo EXCEPT ![t] = Append(h.redo[t], a)]
    BY <1>3 DEF StacksTyped, HistoryRecord
  <1> QED
    BY <1>2, <1>4 DEF a, m

\* Undoing the newest action keeps the deques typed and chronological.
LEMMA UndoneChronological ==
    ASSUME NEW W, NEW h, StacksTyped(h, W), Chronological(h),
           NEW t \in Tracks, NewestUndo(h, t)
    PROVE  /\ StacksTyped(Undone(h, t), W)
           /\ Chronological(Undone(h, t))
  <1> DEFINE m == Undone(h, t)
             U == h.undo
             R == h.redo
             V == m.undo
             S == m.redo
             a == Last(h.undo[t])
             n == h.next
  <1>1. /\ U \in [Tracks -> Seq(Actions(W))] /\ R \in [Tracks -> Seq(Actions(W))]
        /\ n \in Nat \ {0}
        /\ \A u \in Tracks : Ascending(U[u]) /\ Descending(R[u])
        /\ \A u \in Tracks : Below(U[u], n) /\ Below(R[u], n)
        /\ \A u, v \in Tracks : u # v => Apart(U[u], U[v]) /\ Apart(R[u], R[v])
    BY DEF StacksTyped, Chronological, OrderedStacks, UndoBeforeRedo, NumbersUnique
  <1>2. \A u, v \in Tracks : Before(h.undo[u], h.redo[v])
    BY DEF Chronological, UndoBeforeRedo
  <1>3. h.undo[t] # <<>>
    BY DEF NewestUndo
  <1>4. /\ a \in Actions(W)
        /\ HistoryRecord(m)
        /\ m.next = h.next
        /\ m.bytes = h.bytes
        /\ V = [h.undo EXCEPT ![t] = Front(h.undo[t])]
        /\ S = [h.redo EXCEPT ![t] = Append(h.redo[t], a)]
    BY <1>3, UndoneShape
  <1>5. \A u \in Tracks : \A i \in DOMAIN U[u] :
           (u = t /\ i = Len(U[t])) \/ U[u][i].sequence < a.sequence
    BY NewestUndoDominates
  <1>6. \A u \in Tracks : \A i \in DOMAIN R[u] : a.sequence < R[u][i].sequence
    <2>1. Len(U[t]) \in DOMAIN U[t] /\ a = U[t][Len(U[t])]
      BY <1>1, <1>3, FrontOrdered
    <2> QED
      BY <1>2, <2>1 DEF Before
  <1> HIDE DEF m, U, R, V, S, a, n
  <1>7. /\ \A u \in Tracks \ {t} : V[u] = U[u] /\ S[u] = R[u]
        /\ V[t] = Front(U[t]) /\ S[t] = Append(R[t], a)
        /\ V = [u \in Tracks |-> V[u]] /\ S = [u \in Tracks |-> S[u]]
    BY <1>1, <1>4 DEF U, R
  <1>8. \A u \in Tracks : \A i \in DOMAIN V[u] :
           \E j \in DOMAIN U[u] : /\ V[u][i] = U[u][j]
                                 /\ ~(u = t /\ j = Len(U[t]))
    <2>1. \A i \in DOMAIN Front(U[t]) : /\ i \in DOMAIN U[t] /\ i < Len(U[t])
                                        /\ Front(U[t])[i] = U[t][i]
      BY <1>1, <1>3, FrontOrdered DEF U
    <2>2. Len(U[t]) \in Nat /\ \A i \in DOMAIN U[t] : i \in Nat
      BY <1>1
    <2>3. \A i \in DOMAIN Front(U[t]) : i # Len(U[t])
      BY <2>1, <2>2
    <2> QED
      BY <1>7, <2>1, <2>3
  <1>9. /\ V[t] \in Seq(Actions(W))
        /\ Ascending(V[t])
    <2>1. /\ Front(U[t]) \in Seq(Actions(W))
          /\ \A i \in DOMAIN Front(U[t]) : /\ i \in DOMAIN U[t]
                                           /\ Front(U[t])[i] = U[t][i]
      BY <1>1, <1>3, FrontOrdered DEF U
    <2> QED
      BY <1>1, <1>7, <2>1 DEF Ascending
  <1>10. \A u \in Tracks : \A j \in DOMAIN U[u] :
            U[u][j].sequence \in Nat /\ U[u][j].sequence < n
    BY <1>1, ActionsTyped DEF Below
  <1>11. \A u \in Tracks : \A j \in DOMAIN R[u] :
            R[u][j].sequence \in Nat /\ R[u][j].sequence < n
    BY <1>1, ActionsTyped DEF Below
  <1>12. a.sequence \in Nat /\ a.sequence < n
    <2>1. Len(U[t]) \in DOMAIN U[t] /\ a = U[t][Len(U[t])]
      BY <1>1, <1>3, FrontOrdered DEF U, a
    <2> QED
      BY <1>10, <2>1
  <1>13. /\ S[t] \in Seq(Actions(W))
         /\ Descending(S[t])
         /\ \A i \in DOMAIN S[t] : S[t][i] = a \/ \E j \in DOMAIN R[t] : S[t][i] = R[t][j]
    <2> DEFINE s == R[t]
    <2>1. s \in Seq(Actions(W)) /\ Descending(s)
      BY <1>1
    <2>2. \A i \in DOMAIN s : a.sequence < s[i].sequence
      BY <1>6
    <2>3. S[t] = Append(s, a)
      BY <1>7
    <2> HIDE DEF s
    <2>4. /\ Append(s, a) \in Seq(Actions(W))
          /\ Descending(Append(s, a))
          /\ \A i \in DOMAIN Append(s, a) :
                Append(s, a)[i] = a \/ \E j \in DOMAIN s : Append(s, a)[i] = s[j]
      BY <1>4, <2>1, <2>2, AppendDescending
    <2> QED
      BY <2>3, <2>4 DEF s
  <1>14. \A u \in Tracks : /\ V[u] \in Seq(Actions(W)) /\ S[u] \in Seq(Actions(W))
                           /\ Ascending(V[u]) /\ Descending(S[u])
    BY <1>1, <1>7, <1>9, <1>13
  <1>15. \A u \in Tracks : \A i \in DOMAIN S[u] :
            \/ u = t /\ S[u][i] = a
            \/ \E j \in DOMAIN R[u] : S[u][i] = R[u][j]
    BY <1>7, <1>13
  <1>16. StacksTyped(m, W)
    BY <1>1, <1>4, <1>7, <1>14 DEF StacksTyped, V, S, n
  <1>17. OrderedStacks(m)
    BY <1>14 DEF OrderedStacks, V, S
  <1>18. UndoBeforeRedo(m)
    <2>1. ASSUME NEW u \in Tracks, NEW v \in Tracks,
                 NEW i \in DOMAIN V[u], NEW j \in DOMAIN S[v]
          PROVE  V[u][i].sequence < S[v][j].sequence
      <3>1. PICK k \in DOMAIN U[u] : V[u][i] = U[u][k] /\ ~(u = t /\ k = Len(U[t]))
        BY <1>8
      <3>2. CASE S[v][j] = a
        BY <1>5, <3>1, <3>2, <1>10, <1>12
      <3>3. CASE \E l \in DOMAIN R[v] : S[v][j] = R[v][l]
        BY <1>2, <3>1, <3>3 DEF Before, U, R
      <3> QED
        BY <1>15, <3>2, <3>3
    <2>2. \A u, v \in Tracks : Before(V[u], S[v])
      BY <2>1 DEF Before
    <2>3. \A u \in Tracks : \A i \in DOMAIN V[u] : V[u][i].sequence < n
      BY <1>8, <1>10
    <2>4. \A u \in Tracks : \A i \in DOMAIN S[u] : S[u][i].sequence < n
      BY <1>11, <1>12, <1>15
    <2> QED
      BY <1>4, <2>2, <2>3, <2>4 DEF UndoBeforeRedo, Below, V, S, n
  <1>19. NumbersUnique(m)
    <2>1. ASSUME NEW u \in Tracks, NEW v \in Tracks, u # v
          PROVE  Apart(V[u], V[v])
      BY <1>1, <1>8, <2>1 DEF Apart
    <2>2. ASSUME NEW u \in Tracks, NEW v \in Tracks, u # v,
                 NEW i \in DOMAIN S[u], NEW j \in DOMAIN S[v]
          PROVE  S[u][i].sequence # S[v][j].sequence
      <3>1. CASE u = t /\ S[u][i] = a
        <4>1. PICK l \in DOMAIN R[v] : S[v][j] = R[v][l]
          BY <1>15, <2>2, <3>1
        <4> QED
          BY <1>6, <1>11, <1>12, <3>1, <4>1
      <3>2. CASE v = t /\ S[v][j] = a
        <4>1. PICK l \in DOMAIN R[u] : S[u][i] = R[u][l]
          BY <1>15, <2>2, <3>2
        <4> QED
          BY <1>6, <1>11, <1>12, <3>2, <4>1
      <3>3. CASE /\ \E l \in DOMAIN R[u] : S[u][i] = R[u][l]
                 /\ \E l \in DOMAIN R[v] : S[v][j] = R[v][l]
        BY <1>1, <2>2, <3>3 DEF Apart
      <3> QED
        BY <1>15, <3>1, <3>2, <3>3
    <2>3. \A u, v \in Tracks : u # v => Apart(S[u], S[v])
      BY <2>2 DEF Apart
    <2> QED
      BY <2>1, <2>3 DEF NumbersUnique, V, S
  <1> QED
    BY <1>16, <1>17, <1>18, <1>19 DEF m, Chronological

\* Redoing the oldest action: the deques afterwards.
LEMMA RedoneShape ==
    ASSUME NEW W, NEW h, StacksTyped(h, W), NEW t \in Tracks, h.redo[t] # <<>>
    PROVE  LET a == Last(h.redo[t])
               m == Redone(h, t)
           IN  /\ a \in Actions(W)
               /\ HistoryRecord(m)
               /\ m.next = h.next
               /\ m.bytes = h.bytes
               /\ m.redo = [h.redo EXCEPT ![t] = Front(h.redo[t])]
               /\ m.undo = [h.undo EXCEPT ![t] = Append(h.undo[t], a)]
  <1> DEFINE a == Last(h.redo[t])
             m == Redone(h, t)
  <1>1. h.redo[t] \in Seq(Actions(W))
    BY DEF StacksTyped
  <1>2. a \in Actions(W)
    BY <1>1, FrontOrdered
  <1>3. m = [h EXCEPT !.redo[t] = Front(@), !.undo[t] = Append(@, a)]
    BY DEF Redone
  <1> HIDE DEF a, m
  <1>4. /\ HistoryRecord(m)
        /\ m.next = h.next
        /\ m.bytes = h.bytes
        /\ m.redo = [h.redo EXCEPT ![t] = Front(h.redo[t])]
        /\ m.undo = [h.undo EXCEPT ![t] = Append(h.undo[t], a)]
    BY <1>3 DEF StacksTyped, HistoryRecord
  <1> QED
    BY <1>2, <1>4 DEF a, m

\* Redoing the oldest action keeps the deques typed and chronological.
LEMMA RedoneChronological ==
    ASSUME NEW W, NEW h, StacksTyped(h, W), Chronological(h),
           NEW t \in Tracks, OldestRedo(h, t)
    PROVE  /\ StacksTyped(Redone(h, t), W)
           /\ Chronological(Redone(h, t))
  <1> DEFINE m == Redone(h, t)
             U == h.redo
             R == h.undo
             V == m.redo
             S == m.undo
             a == Last(h.redo[t])
             n == h.next
  <1>1. /\ U \in [Tracks -> Seq(Actions(W))] /\ R \in [Tracks -> Seq(Actions(W))]
        /\ n \in Nat \ {0}
        /\ \A u \in Tracks : Descending(U[u]) /\ Ascending(R[u])
        /\ \A u \in Tracks : Below(U[u], n) /\ Below(R[u], n)
        /\ \A u, v \in Tracks : u # v => Apart(U[u], U[v]) /\ Apart(R[u], R[v])
    BY DEF StacksTyped, Chronological, OrderedStacks, UndoBeforeRedo, NumbersUnique
  <1>2. \A u, v \in Tracks : Before(h.undo[u], h.redo[v])
    BY DEF Chronological, UndoBeforeRedo
  <1>3. h.redo[t] # <<>>
    BY DEF OldestRedo
  <1>4. /\ a \in Actions(W)
        /\ HistoryRecord(m)
        /\ m.next = h.next
        /\ m.bytes = h.bytes
        /\ V = [h.redo EXCEPT ![t] = Front(h.redo[t])]
        /\ S = [h.undo EXCEPT ![t] = Append(h.undo[t], a)]
    BY <1>3, RedoneShape
  <1>5. \A u \in Tracks : \A i \in DOMAIN U[u] :
           (u = t /\ i = Len(U[t])) \/ U[u][i].sequence > a.sequence
    BY OldestRedoDominates
  <1>6. \A u \in Tracks : \A i \in DOMAIN R[u] : R[u][i].sequence < a.sequence
    <2>1. Len(U[t]) \in DOMAIN U[t] /\ a = U[t][Len(U[t])]
      BY <1>1, <1>3, FrontOrdered
    <2> QED
      BY <1>2, <2>1 DEF Before
  <1> HIDE DEF m, U, R, V, S, a, n
  <1>7. /\ \A u \in Tracks \ {t} : V[u] = U[u] /\ S[u] = R[u]
        /\ V[t] = Front(U[t]) /\ S[t] = Append(R[t], a)
        /\ V = [u \in Tracks |-> V[u]] /\ S = [u \in Tracks |-> S[u]]
    BY <1>1, <1>4 DEF U, R
  <1>8. \A u \in Tracks : \A i \in DOMAIN V[u] :
           \E j \in DOMAIN U[u] : /\ V[u][i] = U[u][j]
                                 /\ ~(u = t /\ j = Len(U[t]))
    <2>1. \A i \in DOMAIN Front(U[t]) : /\ i \in DOMAIN U[t] /\ i < Len(U[t])
                                        /\ Front(U[t])[i] = U[t][i]
      BY <1>1, <1>3, FrontOrdered DEF U
    <2>2. Len(U[t]) \in Nat /\ \A i \in DOMAIN U[t] : i \in Nat
      BY <1>1
    <2>3. \A i \in DOMAIN Front(U[t]) : i # Len(U[t])
      BY <2>1, <2>2
    <2> QED
      BY <1>7, <2>1, <2>3
  <1>9. /\ V[t] \in Seq(Actions(W))
        /\ Descending(V[t])
    <2>1. /\ Front(U[t]) \in Seq(Actions(W))
          /\ \A i \in DOMAIN Front(U[t]) : /\ i \in DOMAIN U[t]
                                           /\ Front(U[t])[i] = U[t][i]
      BY <1>1, <1>3, FrontOrdered DEF U
    <2> QED
      BY <1>1, <1>7, <2>1 DEF Descending
  <1>10. \A u \in Tracks : \A j \in DOMAIN U[u] :
            U[u][j].sequence \in Nat /\ U[u][j].sequence < n
    BY <1>1, ActionsTyped DEF Below
  <1>11. \A u \in Tracks : \A j \in DOMAIN R[u] :
            R[u][j].sequence \in Nat /\ R[u][j].sequence < n
    BY <1>1, ActionsTyped DEF Below
  <1>12. a.sequence \in Nat /\ a.sequence < n
    <2>1. Len(U[t]) \in DOMAIN U[t] /\ a = U[t][Len(U[t])]
      BY <1>1, <1>3, FrontOrdered DEF U, a
    <2> QED
      BY <1>10, <2>1
  <1>13. /\ S[t] \in Seq(Actions(W))
         /\ Ascending(S[t])
         /\ \A i \in DOMAIN S[t] : S[t][i] = a \/ \E j \in DOMAIN R[t] : S[t][i] = R[t][j]
    <2> DEFINE s == R[t]
    <2>1. s \in Seq(Actions(W)) /\ Ascending(s)
      BY <1>1
    <2>2. Below(s, a.sequence)
      BY <1>6 DEF Below
    <2>3. S[t] = Append(s, a)
      BY <1>7
    <2> HIDE DEF s
    <2>4. /\ Append(s, a) \in Seq(Actions(W))
          /\ Ascending(Append(s, a))
          /\ \A i \in DOMAIN Append(s, a) :
                Append(s, a)[i] = a \/ \E j \in DOMAIN s : Append(s, a)[i] = s[j]
      BY <1>4, <2>1, <2>2, AppendAscending
    <2> QED
      BY <2>3, <2>4 DEF s
  <1>14. \A u \in Tracks : /\ V[u] \in Seq(Actions(W)) /\ S[u] \in Seq(Actions(W))
                           /\ Descending(V[u]) /\ Ascending(S[u])
    BY <1>1, <1>7, <1>9, <1>13
  <1>15. \A u \in Tracks : \A i \in DOMAIN S[u] :
            \/ u = t /\ S[u][i] = a
            \/ \E j \in DOMAIN R[u] : S[u][i] = R[u][j]
    BY <1>7, <1>13
  <1>16. StacksTyped(m, W)
    BY <1>1, <1>4, <1>7, <1>14 DEF StacksTyped, V, S, n
  <1>17. OrderedStacks(m)
    BY <1>14 DEF OrderedStacks, V, S
  <1>18. UndoBeforeRedo(m)
    <2>1. ASSUME NEW u \in Tracks, NEW v \in Tracks,
                 NEW i \in DOMAIN V[u], NEW j \in DOMAIN S[v]
          PROVE  S[v][j].sequence < V[u][i].sequence
      <3>1. PICK k \in DOMAIN U[u] : V[u][i] = U[u][k] /\ ~(u = t /\ k = Len(U[t]))
        BY <1>8
      <3>2. CASE S[v][j] = a
        BY <1>5, <3>1, <3>2, <1>10, <1>12
      <3>3. CASE \E l \in DOMAIN R[v] : S[v][j] = R[v][l]
        BY <1>2, <3>1, <3>3 DEF Before, U, R
      <3> QED
        BY <1>15, <3>2, <3>3
    <2>2. \A u, v \in Tracks : Before(S[v], V[u])
      BY <2>1 DEF Before
    <2>3. \A u \in Tracks : \A i \in DOMAIN V[u] : V[u][i].sequence < n
      BY <1>8, <1>10
    <2>4. \A u \in Tracks : \A i \in DOMAIN S[u] : S[u][i].sequence < n
      BY <1>11, <1>12, <1>15
    <2> QED
      BY <1>4, <2>2, <2>3, <2>4 DEF UndoBeforeRedo, Below, V, S, n
  <1>19. NumbersUnique(m)
    <2>1. ASSUME NEW u \in Tracks, NEW v \in Tracks, u # v
          PROVE  Apart(V[u], V[v])
      BY <1>1, <1>8, <2>1 DEF Apart
    <2>2. ASSUME NEW u \in Tracks, NEW v \in Tracks, u # v,
                 NEW i \in DOMAIN S[u], NEW j \in DOMAIN S[v]
          PROVE  S[u][i].sequence # S[v][j].sequence
      <3>1. CASE u = t /\ S[u][i] = a
        <4>1. PICK l \in DOMAIN R[v] : S[v][j] = R[v][l]
          BY <1>15, <2>2, <3>1
        <4> QED
          BY <1>6, <1>11, <1>12, <3>1, <4>1
      <3>2. CASE v = t /\ S[v][j] = a
        <4>1. PICK l \in DOMAIN R[u] : S[u][i] = R[u][l]
          BY <1>15, <2>2, <3>2
        <4> QED
          BY <1>6, <1>11, <1>12, <3>2, <4>1
      <3>3. CASE /\ \E l \in DOMAIN R[u] : S[u][i] = R[u][l]
                 /\ \E l \in DOMAIN R[v] : S[v][j] = R[v][l]
        BY <1>1, <2>2, <3>3 DEF Apart
      <3> QED
        BY <1>15, <3>1, <3>2, <3>3
    <2>3. \A u, v \in Tracks : u # v => Apart(S[u], S[v])
      BY <2>2 DEF Apart
    <2> QED
      BY <2>1, <2>3 DEF NumbersUnique, V, S
  <1> QED
    BY <1>16, <1>17, <1>18, <1>19 DEF m, Chronological

\* The action undone is the one redo takes, and redoing it restores the history.
LEMMA UndoThenRedo ==
    ASSUME NEW W, NEW h, StacksTyped(h, W), Chronological(h),
           NEW t \in Tracks, NewestUndo(h, t)
    PROVE  OldestRedo(Undone(h, t), t) /\ Redone(Undone(h, t), t) = h
  <1> DEFINE m == Undone(h, t)
             U == h.undo
             R == h.redo
             V == m.undo
             S == m.redo
             a == Last(h.undo[t])
             f == Front(h.undo[t])
  <1>1. /\ U \in [Tracks -> Seq(Actions(W))] /\ R \in [Tracks -> Seq(Actions(W))]
    BY DEF StacksTyped
  <1>2. \A u, v \in Tracks : Before(h.undo[u], h.redo[v])
    BY DEF Chronological, UndoBeforeRedo
  <1>0. h.undo[t] # <<>>
    BY DEF NewestUndo
  <1>3. /\ a \in Actions(W)
        /\ HistoryRecord(m)
        /\ m.next = h.next
        /\ m.bytes = h.bytes
        /\ V = [h.undo EXCEPT ![t] = Front(h.undo[t])]
        /\ S = [h.redo EXCEPT ![t] = Append(h.redo[t], a)]
    BY <1>0, UndoneShape
  <1>4. U[t] \in Seq(Actions(W)) /\ R[t] \in Seq(Actions(W))
    BY <1>1
  <1>5. /\ Len(U[t]) \in DOMAIN U[t] /\ a = U[t][Len(U[t])]
        /\ U[t] = Append(f, a)
        /\ f \in Seq(Actions(W))
    BY <1>0, <1>4, FrontOrdered
  <1>6. \A u \in Tracks : \A i \in DOMAIN R[u] : a.sequence < R[u][i].sequence
    BY <1>2, <1>5 DEF Before
  <1>7. h = [undo |-> h.undo, redo |-> h.redo, next |-> h.next, bytes |-> h.bytes]
    BY DEF StacksTyped, HistoryRecord
  <1> HIDE DEF m, U, R, V, S, a, f
  <1>8. /\ \A u \in Tracks \ {t} : V[u] = U[u] /\ S[u] = R[u]
        /\ V[t] = f /\ S[t] = Append(R[t], a)
    BY <1>1, <1>3 DEF U, R, f
  <1>9. /\ S[t] # <<>> /\ Last(S[t]) = a /\ Front(S[t]) = R[t]
        /\ S[t] \in Seq(Actions(W))
    <2> DEFINE s == R[t]
    <2>1. s \in Seq(Actions(W))
      BY <1>4
    <2>2. S[t] = Append(s, a)
      BY <1>8
    <2> HIDE DEF s
    <2>3. Append(s, a) \in Seq(Actions(W)) /\ Append(s, a) # <<>>
      BY <1>3, <2>1
    <2>4. Last(Append(s, a)) = a
      BY <1>3, <2>1 DEF Last
    <2>5. Front(Append(s, a)) = s
      BY <1>3, <2>1 DEF Front
    <2> QED
      BY <2>2, <2>3, <2>4, <2>5 DEF s
  <1>10. OldestRedo(m, t)
    <2>1. ASSUME NEW u \in Tracks, S[u] # <<>>
          PROVE  a.sequence <= Last(S[u]).sequence
      <3>1. a.sequence \in Nat
        BY <1>3 DEF Actions
      <3>2. CASE u = t
        BY <1>9, <3>1, <3>2
      <3>3. CASE u # t
        <4>1. S[u] = R[u] /\ R[u] \in Seq(Actions(W)) /\ R[u] # <<>>
          BY <1>1, <1>8, <2>1, <3>3
        <4>2. /\ Len(R[u]) \in DOMAIN R[u] /\ Last(R[u]) = R[u][Len(R[u])]
              /\ Last(R[u]) \in Actions(W)
          BY <4>1, FrontOrdered
        <4>3. Last(R[u]).sequence \in Nat
          BY <4>2 DEF Actions
        <4> QED
          BY <1>6, <3>1, <4>1, <4>2, <4>3
      <3> QED
        BY <3>2, <3>3
    <2> QED
      BY <1>9, <2>1 DEF OldestRedo, S
  <1>11. Redone(m, t) = h
    <2> DEFINE b == Redone(m, t)
    <2>1. b = [m EXCEPT !.redo[t] = Front(@), !.undo[t] = Append(@, a)]
      BY <1>9 DEF Redone, S
    <2> HIDE DEF b
    <2>2. /\ b = [undo |-> b.undo, redo |-> b.redo, next |-> b.next, bytes |-> b.bytes]
          /\ b.next = h.next /\ b.bytes = h.bytes
          /\ b.redo = [S EXCEPT ![t] = Front(S[t])]
          /\ b.undo = [V EXCEPT ![t] = Append(V[t], a)]
      BY <1>3, <2>1 DEF V, S, HistoryRecord
    <2>3. b.redo = R
      BY <1>1, <1>3, <1>9, <2>2 DEF R
    <2>4. b.undo = U
      BY <1>1, <1>3, <1>5, <1>8, <2>2 DEF U
    <2> QED
      BY <1>7, <2>2, <2>3, <2>4 DEF b, U, R
  <1> QED
    BY <1>10, <1>11 DEF m

\* The action redone is the one undo takes, and undoing it restores the history.
LEMMA RedoThenUndo ==
    ASSUME NEW W, NEW h, StacksTyped(h, W), Chronological(h),
           NEW t \in Tracks, OldestRedo(h, t)
    PROVE  NewestUndo(Redone(h, t), t) /\ Undone(Redone(h, t), t) = h
  <1> DEFINE m == Redone(h, t)
             U == h.redo
             R == h.undo
             V == m.redo
             S == m.undo
             a == Last(h.redo[t])
             f == Front(h.redo[t])
  <1>1. /\ U \in [Tracks -> Seq(Actions(W))] /\ R \in [Tracks -> Seq(Actions(W))]
    BY DEF StacksTyped
  <1>2. \A u, v \in Tracks : Before(h.undo[u], h.redo[v])
    BY DEF Chronological, UndoBeforeRedo
  <1>0. h.redo[t] # <<>>
    BY DEF OldestRedo
  <1>3. /\ a \in Actions(W)
        /\ HistoryRecord(m)
        /\ m.next = h.next
        /\ m.bytes = h.bytes
        /\ V = [h.redo EXCEPT ![t] = Front(h.redo[t])]
        /\ S = [h.undo EXCEPT ![t] = Append(h.undo[t], a)]
    BY <1>0, RedoneShape
  <1>4. U[t] \in Seq(Actions(W)) /\ R[t] \in Seq(Actions(W))
    BY <1>1
  <1>5. /\ Len(U[t]) \in DOMAIN U[t] /\ a = U[t][Len(U[t])]
        /\ U[t] = Append(f, a)
        /\ f \in Seq(Actions(W))
    BY <1>0, <1>4, FrontOrdered
  <1>6. \A u \in Tracks : \A i \in DOMAIN R[u] : R[u][i].sequence < a.sequence
    BY <1>2, <1>5 DEF Before
  <1>7. h = [undo |-> h.undo, redo |-> h.redo, next |-> h.next, bytes |-> h.bytes]
    BY DEF StacksTyped, HistoryRecord
  <1> HIDE DEF m, U, R, V, S, a, f
  <1>8. /\ \A u \in Tracks \ {t} : V[u] = U[u] /\ S[u] = R[u]
        /\ V[t] = f /\ S[t] = Append(R[t], a)
    BY <1>1, <1>3 DEF U, R, f
  <1>9. /\ S[t] # <<>> /\ Last(S[t]) = a /\ Front(S[t]) = R[t]
        /\ S[t] \in Seq(Actions(W))
    <2> DEFINE s == R[t]
    <2>1. s \in Seq(Actions(W))
      BY <1>4
    <2>2. S[t] = Append(s, a)
      BY <1>8
    <2> HIDE DEF s
    <2>3. Append(s, a) \in Seq(Actions(W)) /\ Append(s, a) # <<>>
      BY <1>3, <2>1
    <2>4. Last(Append(s, a)) = a
      BY <1>3, <2>1 DEF Last
    <2>5. Front(Append(s, a)) = s
      BY <1>3, <2>1 DEF Front
    <2> QED
      BY <2>2, <2>3, <2>4, <2>5 DEF s
  <1>10. NewestUndo(m, t)
    <2>1. ASSUME NEW u \in Tracks, S[u] # <<>>
          PROVE  a.sequence >= Last(S[u]).sequence
      <3>1. a.sequence \in Nat
        BY <1>3 DEF Actions
      <3>2. CASE u = t
        BY <1>9, <3>1, <3>2
      <3>3. CASE u # t
        <4>1. S[u] = R[u] /\ R[u] \in Seq(Actions(W)) /\ R[u] # <<>>
          BY <1>1, <1>8, <2>1, <3>3
        <4>2. /\ Len(R[u]) \in DOMAIN R[u] /\ Last(R[u]) = R[u][Len(R[u])]
              /\ Last(R[u]) \in Actions(W)
          BY <4>1, FrontOrdered
        <4>3. Last(R[u]).sequence \in Nat
          BY <4>2 DEF Actions
        <4> QED
          BY <1>6, <3>1, <4>1, <4>2, <4>3
      <3> QED
        BY <3>2, <3>3
    <2> QED
      BY <1>9, <2>1 DEF NewestUndo, S
  <1>11. Undone(m, t) = h
    <2> DEFINE b == Undone(m, t)
    <2>1. b = [m EXCEPT !.undo[t] = Front(@), !.redo[t] = Append(@, a)]
      BY <1>9 DEF Undone, S
    <2> HIDE DEF b
    <2>2. /\ b = [undo |-> b.undo, redo |-> b.redo, next |-> b.next, bytes |-> b.bytes]
          /\ b.next = h.next /\ b.bytes = h.bytes
          /\ b.undo = [S EXCEPT ![t] = Front(S[t])]
          /\ b.redo = [V EXCEPT ![t] = Append(V[t], a)]
      BY <1>3, <2>1 DEF V, S, HistoryRecord
    <2>3. b.undo = R
      BY <1>1, <1>3, <1>9, <2>2 DEF R
    <2>4. b.redo = U
      BY <1>1, <1>3, <1>5, <1>8, <2>2 DEF U
    <2> QED
      BY <1>7, <2>2, <2>3, <2>4 DEF b, U, R
  <1> QED
    BY <1>10, <1>11 DEF m

-----------------------------------------------------------------------------
(* What they keep of the bytes and of the number of actions.               *)

\* The sizes of the actions of a deque: a natural number each, over a finite domain.
LEMMA SizesTyped ==
    ASSUME NEW W, NEW s \in Seq(Actions(W))
    PROVE  /\ Len(s) \in Nat /\ DOMAIN s = 1 .. Len(s) /\ IsFiniteSet(1 .. Len(s))
           /\ DequeBytes(s) = SumFunctionOnSet([i \in 1 .. Len(s) |-> s[i].size], 1 .. Len(s))
           /\ \A i \in 1 .. Len(s) : s[i].size \in Nat
           /\ DequeBytes(s) \in Nat
  <1> DEFINE f == [i \in 1 .. Len(s) |-> s[i].size]
  <1>1. Len(s) \in Nat /\ DOMAIN s = 1 .. Len(s)
    OBVIOUS
  <1>2. IsFiniteSet(1 .. Len(s))
    BY <1>1, FS_Interval
  <1>3. \A i \in 1 .. Len(s) : s[i].size \in Nat
    BY <1>1, ActionsTyped DEF Actions
  <1>4. [i \in DOMAIN s |-> s[i].size] = f /\ DOMAIN f = 1 .. Len(s)
    BY <1>1
  <1>5. DequeBytes(s) = SumFunctionOnSet(f, 1 .. Len(s))
    BY <1>4 DEF DequeBytes, SumFunction
  <1>6. \A i \in 1 .. Len(s) : f[i] \in Nat
    BY <1>3
  <1>7. SumFunctionOnSet(f, 1 .. Len(s)) \in Nat
    <2> HIDE DEF f
    <2> QED
      BY <1>2, <1>6, SumIsNat
  <1> QED
    BY <1>1, <1>2, <1>3, <1>5, <1>7

\* An empty deque holds no bytes.
LEMMA DequeBytesEmpty == DequeBytes(<<>>) = 0
  <1>1. <<>> \in Seq(Actions({})) /\ Len(<<>>) = 0 /\ 1 .. 0 = {}
    OBVIOUS
  <1>2. DequeBytes(<<>>) = SumFunctionOnSet([i \in 1 .. Len(<<>>) |-> <<>>[i].size], 1 .. Len(<<>>))
    BY <1>1, SizesTyped
  <1>3. DequeBytes(<<>>) = SumFunctionOnSet([i \in 1 .. Len(<<>>) |-> <<>>[i].size], {})
    BY <1>1, <1>2
  <1> QED
    BY <1>3, SumEmpty

\* An action at the back adds its bytes.
LEMMA DequeBytesAppend ==
    ASSUME NEW W, NEW s \in Seq(Actions(W)), NEW a \in Actions(W)
    PROVE  DequeBytes(Append(s, a)) = DequeBytes(s) + a.size
  <1> DEFINE r == Append(s, a)
             n == Len(s)
             f == [i \in 1 .. n |-> s[i].size]
             g == [i \in 1 .. Len(r) |-> r[i].size]
  <1>1. /\ r \in Seq(Actions(W)) /\ Len(r) = n + 1 /\ n \in Nat
        /\ r[n + 1] = a
        /\ \A i \in 1 .. n : r[i] = s[i]
    BY AppendProperties
  <1> HIDE DEF r
  <1>2. /\ DequeBytes(s) = SumFunctionOnSet(f, 1 .. n)
        /\ IsFiniteSet(1 .. n)
        /\ \A i \in 1 .. n : f[i] \in Nat
        /\ DequeBytes(s) \in Nat
    BY SizesTyped
  <1>3. /\ DequeBytes(r) = SumFunctionOnSet(g, 1 .. (n + 1))
        /\ IsFiniteSet(1 .. (n + 1))
        /\ \A i \in 1 .. (n + 1) : g[i] \in Nat
    BY <1>1, SizesTyped
  <1>4. n + 1 \in 1 .. (n + 1) /\ (1 .. (n + 1)) \ {n + 1} = 1 .. n
    BY <1>1
  <1>5. g[n + 1] = a.size /\ \A i \in 1 .. n : g[i] = f[i]
    BY <1>1, <1>4
  <1> HIDE DEF f, g, n
  <1>6. SumFunctionOnSet(g, 1 .. (n + 1)) = g[n + 1] + SumFunctionOnSet(g, (1 .. (n + 1)) \ {n + 1})
    BY <1>3, <1>4, SumRemove
  <1>7. SumFunctionOnSet(g, 1 .. n) = SumFunctionOnSet(f, 1 .. n)
    BY <1>2, <1>5, SumExtensional
  <1>8. a.size \in Nat
    BY DEF Actions
  <1>9. DequeBytes(r) = a.size + DequeBytes(s)
    BY <1>2, <1>3, <1>4, <1>5, <1>6, <1>7
  <1> QED
    BY <1>2, <1>8, <1>9 DEF r

\* Taking the action at the back takes its bytes.
LEMMA DequeBytesFront ==
    ASSUME NEW W, NEW s \in Seq(Actions(W)), s # <<>>
    PROVE  DequeBytes(s) = DequeBytes(Front(s)) + Last(s).size
  <1>1. /\ Front(s) \in Seq(Actions(W)) /\ Last(s) \in Actions(W)
        /\ s = Append(Front(s), Last(s))
    BY FrontOrdered
  <1>2. DequeBytes(Append(Front(s), Last(s))) = DequeBytes(Front(s)) + Last(s).size
    BY <1>1, DequeBytesAppend
  <1> QED
    BY <1>1, <1>2

\* The bytes of all deques are a natural number, a sum over the tracks.
LEMMA ActionBytesTyped ==
    ASSUME NEW W, NEW X \in [Tracks -> Seq(Actions(W))]
    PROVE  /\ ActionBytes(X) = SumFunctionOnSet([t \in Tracks |-> DequeBytes(X[t])], Tracks)
           /\ \A t \in Tracks : DequeBytes(X[t]) \in Nat
           /\ ActionBytes(X) \in Nat
  <1> DEFINE f == [t \in Tracks |-> DequeBytes(X[t])]
  <1>1. ActionBytes(X) = SumFunctionOnSet(f, Tracks)
    BY DEF ActionBytes, SumFunction
  <1>2. \A t \in Tracks : DequeBytes(X[t]) \in Nat
    BY SizesTyped
  <1>3. \A t \in Tracks : f[t] \in Nat
    BY <1>2
  <1> HIDE DEF f
  <1>4. SumFunctionOnSet(f, Tracks) \in Nat
    BY <1>3, SumIsNat, TracksAssumption
  <1> QED
    BY <1>1, <1>2, <1>4 DEF f

\* Deques without actions hold no bytes.
LEMMA NoStacksBytes == ActionBytes(NoStacks) = 0
  <1> DEFINE f == [t \in Tracks |-> DequeBytes(NoStacks[t])]
  <1>1. ActionBytes(NoStacks) = SumFunctionOnSet(f, Tracks)
    BY DEF ActionBytes, SumFunction
  <1>2. \A t \in Tracks : f[t] = 0
    BY DequeBytesEmpty DEF NoStacks
  <1> HIDE DEF f
  <1> QED
    BY <1>1, <1>2, SumZero, TracksAssumption

\* When the deque of one track gains bytes, all deques together gain as many.
LEMMA ActionBytesRaised ==
    ASSUME NEW W, NEW X \in [Tracks -> Seq(Actions(W))], NEW Y \in [Tracks -> Seq(Actions(W))],
           NEW t \in Tracks, \A u \in Tracks \ {t} : Y[u] = X[u],
           NEW z \in Nat, DequeBytes(Y[t]) = DequeBytes(X[t]) + z
    PROVE  ActionBytes(Y) = ActionBytes(X) + z
  <1> DEFINE f == [u \in Tracks |-> DequeBytes(X[u])]
             g == [u \in Tracks |-> DequeBytes(Y[u])]
  <1>1. /\ ActionBytes(X) = SumFunctionOnSet(f, Tracks)
        /\ ActionBytes(Y) = SumFunctionOnSet(g, Tracks)
        /\ \A u \in Tracks : f[u] \in Nat
    BY ActionBytesTyped
  <1>2. \A u \in Tracks : g[u] = IF u = t THEN f[u] + z ELSE f[u]
    OBVIOUS
  <1> HIDE DEF f, g
  <1>3. SumFunctionOnSet(g, Tracks) = SumFunctionOnSet(f, Tracks) + z
    <2>1. \A u \in Tracks : f[u] \in Nat
      BY <1>1
    <2> QED
      BY <1>2, <2>1, SumRaised, TracksAssumption
  <1> QED
    BY <1>1, <1>3

\* Deques with an action more at the back of that of one track.
Longer(X, t, a) == [X EXCEPT ![t] = Append(X[t], a)]

\* An action at the back of a deque, be it undo or redo, adds its bytes.
LEMMA LongerBytes ==
    ASSUME NEW W, NEW X \in [Tracks -> Seq(Actions(W))], NEW t \in Tracks, NEW a \in Actions(W)
    PROVE  /\ Longer(X, t, a) \in [Tracks -> Seq(Actions(W))]
           /\ ActionBytes(Longer(X, t, a)) = ActionBytes(X) + a.size
  <1> DEFINE Y == Longer(X, t, a)
  <1>1. Append(X[t], a) \in Seq(Actions(W)) /\ Len(Append(X[t], a)) = Len(X[t]) + 1
    BY AppendProperties
  <1>2. /\ Y \in [Tracks -> Seq(Actions(W))]
        /\ Y[t] = Append(X[t], a)
        /\ \A u \in Tracks \ {t} : Y[u] = X[u]
    BY <1>1 DEF Longer
  <1> HIDE DEF Y
  <1>3. DequeBytes(Y[t]) = DequeBytes(X[t]) + a.size
    BY <1>2, DequeBytesAppend
  <1>4. a.size \in Nat
    BY DEF Actions
  <1>5. ActionBytes(Y) = ActionBytes(X) + a.size
    BY <1>2, <1>3, <1>4, ActionBytesRaised
  <1> QED
    BY <1>2, <1>5 DEF Y

\* ... and one to the length of the deque.
LEMMA LongerLen ==
    ASSUME NEW W, NEW X \in [Tracks -> Seq(Actions(W))], NEW t \in Tracks, NEW a \in Actions(W),
           NEW u \in Tracks
    PROVE  /\ Len(X[u]) \in Nat
           /\ Len(Longer(X, t, a)[u]) = IF u = t THEN Len(X[u]) + 1 ELSE Len(X[u])
  <1>1. Len(Append(X[u], a)) = Len(X[u]) + 1 /\ Len(X[u]) \in Nat
    BY AppendProperties
  <1>2. Longer(X, t, a)[u] = IF u = t THEN Append(X[u], a) ELSE X[u]
    BY DEF Longer
  <1> QED
    BY <1>1, <1>2

\* An action that moves from one deque to another leaves their common length.
LEMMA MovedLen ==
    ASSUME NEW W, NEW x \in Seq(Actions(W)), NEW y \in Seq(Actions(W)), NEW a \in Actions(W)
    PROVE  /\ Len(x) + Len(Append(y, a)) = Len(Append(x, a)) + Len(y)
           /\ Len(Append(y, a)) + Len(x) = Len(y) + Len(Append(x, a))
  <1>1. Len(Append(x, a)) = Len(x) + 1 /\ Len(x) \in Nat
    BY AppendProperties
  <1>2. Len(Append(y, a)) = Len(y) + 1 /\ Len(y) \in Nat
    BY AppendProperties
  <1> QED
    BY <1>1, <1>2

\* Undoing keeps the bytes and the number of actions held.
LEMMA UndoneBytes ==
    ASSUME NEW W, NEW h, StacksTyped(h, W), NEW t \in Tracks, NewestUndo(h, t)
    PROVE  LET m == Undone(h, t)
           IN  /\ m.bytes = h.bytes
               /\ ActionBytes(m.undo) + ActionBytes(m.redo)
                     = ActionBytes(h.undo) + ActionBytes(h.redo)
               /\ ActionCount(m) = ActionCount(h)
  <1> DEFINE m == Undone(h, t)
             U == h.undo
             R == h.redo
             V == m.undo
             S == m.redo
             a == Last(U[t])
  <1>1. U \in [Tracks -> Seq(Actions(W))] /\ R \in [Tracks -> Seq(Actions(W))]
    BY DEF StacksTyped
  <1>2. h.undo[t] # <<>>
    BY DEF NewestUndo
  <1>3. /\ a \in Actions(W)
        /\ m.bytes = h.bytes
        /\ V = [U EXCEPT ![t] = Front(U[t])]
        /\ S = [R EXCEPT ![t] = Append(R[t], a)]
    BY <1>2, UndoneShape
  <1>4. Front(U[t]) \in Seq(Actions(W)) /\ U[t] = Append(Front(U[t]), a)
    BY <1>1, <1>2, FrontOrdered
  <1> HIDE DEF U, R, V, S, m, a
  <1>5. V \in [Tracks -> Seq(Actions(W))] /\ U = Longer(V, t, a) /\ S = Longer(R, t, a)
    BY <1>1, <1>3, <1>4 DEF Longer
  <1>6. V \in [Tracks -> Seq(Actions(W))] /\ R \in [Tracks -> Seq(Actions(W))] /\ a \in Actions(W)
    BY <1>1, <1>3, <1>5
  <1>7. ActionBytes(U) = ActionBytes(V) + a.size
    <2>1. ActionBytes(Longer(V, t, a)) = ActionBytes(V) + a.size
      BY <1>6, LongerBytes
    <2> QED
      BY <1>5, <2>1
  <1>8. ActionBytes(S) = ActionBytes(R) + a.size
    <2>1. ActionBytes(Longer(R, t, a)) = ActionBytes(R) + a.size
      BY ZenonT(40), <1>6, LongerBytes
    <2> QED
      BY <1>5, <2>1
  <1>9. a.size \in Nat /\ ActionBytes(V) \in Nat /\ ActionBytes(R) \in Nat
    BY <1>1, <1>3, <1>5, ActionBytesTyped DEF Actions
  <1>10. ActionBytes(V) + ActionBytes(S) = ActionBytes(U) + ActionBytes(R)
    BY <1>7, <1>8, <1>9
  <1>11. ActionBytes(S) + ActionBytes(V) = ActionBytes(R) + ActionBytes(U)
    BY <1>7, <1>8, <1>9
  <1>12. ASSUME NEW u \in Tracks
         PROVE  /\ Len(V[u]) + Len(S[u]) = Len(U[u]) + Len(R[u])
                /\ Len(S[u]) + Len(V[u]) = Len(R[u]) + Len(U[u])
    <2>1. V[u] \in Seq(Actions(W)) /\ R[u] \in Seq(Actions(W))
      BY <1>6
    <2>2. U[u] = IF u = t THEN Append(V[u], a) ELSE V[u]
      BY <1>5 DEF Longer
    <2>3. S[u] = IF u = t THEN Append(R[u], a) ELSE R[u]
      <3>1. Longer(R, t, a)[u] = IF u = t THEN Append(R[u], a) ELSE R[u]
        BY <1>6 DEF Longer
      <3> QED
        BY <1>5, <3>1
    <2>4. /\ Len(V[u]) + Len(Append(R[u], a)) = Len(Append(V[u], a)) + Len(R[u])
          /\ Len(Append(R[u], a)) + Len(V[u]) = Len(R[u]) + Len(Append(V[u], a))
      BY <1>6, <2>1, MovedLen
    <2>5. CASE u = t
      BY <2>2, <2>3, <2>4, <2>5
    <2>6. CASE u # t
      <3>1. U[u] = V[u] /\ S[u] = R[u]
        BY <2>2, <2>3, <2>6
      <3> QED
        BY <3>1
    <2> QED
      BY <2>5, <2>6
  <1> QED
    BY <1>3, <1>10, <1>11, <1>12 DEF ActionCount, U, R, V, S, m

\* Redoing keeps them, too.
LEMMA RedoneBytes ==
    ASSUME NEW W, NEW h, StacksTyped(h, W), NEW t \in Tracks, OldestRedo(h, t)
    PROVE  LET m == Redone(h, t)
           IN  /\ m.bytes = h.bytes
               /\ ActionBytes(m.undo) + ActionBytes(m.redo)
                     = ActionBytes(h.undo) + ActionBytes(h.redo)
               /\ ActionCount(m) = ActionCount(h)
  <1> DEFINE m == Redone(h, t)
             U == h.redo
             R == h.undo
             V == m.redo
             S == m.undo
             a == Last(U[t])
  <1>1. U \in [Tracks -> Seq(Actions(W))] /\ R \in [Tracks -> Seq(Actions(W))]
    BY DEF StacksTyped
  <1>2. h.redo[t] # <<>>
    BY DEF OldestRedo
  <1>3. /\ a \in Actions(W)
        /\ m.bytes = h.bytes
        /\ V = [U EXCEPT ![t] = Front(U[t])]
        /\ S = [R EXCEPT ![t] = Append(R[t], a)]
    BY <1>2, RedoneShape
  <1>4. Front(U[t]) \in Seq(Actions(W)) /\ U[t] = Append(Front(U[t]), a)
    BY <1>1, <1>2, FrontOrdered
  <1> HIDE DEF U, R, V, S, m, a
  <1>5. V \in [Tracks -> Seq(Actions(W))] /\ U = Longer(V, t, a) /\ S = Longer(R, t, a)
    BY <1>1, <1>3, <1>4 DEF Longer
  <1>6. V \in [Tracks -> Seq(Actions(W))] /\ R \in [Tracks -> Seq(Actions(W))] /\ a \in Actions(W)
    BY <1>1, <1>3, <1>5
  <1>7. ActionBytes(U) = ActionBytes(V) + a.size
    <2>1. ActionBytes(Longer(V, t, a)) = ActionBytes(V) + a.size
      BY <1>6, LongerBytes
    <2> QED
      BY <1>5, <2>1
  <1>8. ActionBytes(S) = ActionBytes(R) + a.size
    <2>1. ActionBytes(Longer(R, t, a)) = ActionBytes(R) + a.size
      BY ZenonT(40), <1>6, LongerBytes
    <2> QED
      BY <1>5, <2>1
  <1>9. a.size \in Nat /\ ActionBytes(V) \in Nat /\ ActionBytes(R) \in Nat
    BY <1>1, <1>3, <1>5, ActionBytesTyped DEF Actions
  <1>10. ActionBytes(V) + ActionBytes(S) = ActionBytes(U) + ActionBytes(R)
    BY <1>7, <1>8, <1>9
  <1>11. ActionBytes(S) + ActionBytes(V) = ActionBytes(R) + ActionBytes(U)
    BY <1>7, <1>8, <1>9
  <1>12. ASSUME NEW u \in Tracks
         PROVE  /\ Len(V[u]) + Len(S[u]) = Len(U[u]) + Len(R[u])
                /\ Len(S[u]) + Len(V[u]) = Len(R[u]) + Len(U[u])
    <2>1. V[u] \in Seq(Actions(W)) /\ R[u] \in Seq(Actions(W))
      BY <1>6
    <2>2. U[u] = IF u = t THEN Append(V[u], a) ELSE V[u]
      BY <1>5 DEF Longer
    <2>3. S[u] = IF u = t THEN Append(R[u], a) ELSE R[u]
      <3>1. Longer(R, t, a)[u] = IF u = t THEN Append(R[u], a) ELSE R[u]
        BY <1>6 DEF Longer
      <3> QED
        BY <1>5, <3>1
    <2>4. /\ Len(V[u]) + Len(Append(R[u], a)) = Len(Append(V[u], a)) + Len(R[u])
          /\ Len(Append(R[u], a)) + Len(V[u]) = Len(R[u]) + Len(Append(V[u], a))
      BY <1>6, <2>1, MovedLen
    <2>5. CASE u = t
      BY <2>2, <2>3, <2>4, <2>5
    <2>6. CASE u # t
      <3>1. U[u] = V[u] /\ S[u] = R[u]
        BY <2>2, <2>3, <2>6
      <3> QED
        BY <3>1
    <2> QED
      BY <2>5, <2>6
  <1> QED
    BY <1>3, <1>10, <1>11, <1>12 DEF ActionCount, U, R, V, S, m

\* The least element of a set of numbers is one of them.
LEMMA MinIsIn ==
    ASSUME NEW N \in SUBSET Nat, N # {}
    PROVE  Min(N) \in N
  BY LeastNumber DEF Min

\* historyBytes agrees with the actions held.
Accounted(h) == h.bytes = ActionBytes(h.undo) + ActionBytes(h.redo)

\* Pushing an action on an accounted history leaves the bytes of the undo deques.
LEMMA PushedBytes ==
    ASSUME NEW W, NEW h, StacksTyped(h, W), Accounted(h),
           NEW t \in Tracks, NEW size \in Nat, NEW what \in W
    PROVE  LET p == Pushed(ClearRedo(h), t, size, what)
           IN  p.bytes = ActionBytes(p.undo)
  <1> DEFINE c == ClearRedo(h)
             p == Pushed(c, t, size, what)
             a == NewAction(h, size, what)
             U == h.undo
             P == p.undo
  <1>1. /\ U \in [Tracks -> Seq(Actions(W))] /\ h.redo \in [Tracks -> Seq(Actions(W))]
        /\ HistoryRecord(h)
    BY DEF StacksTyped
  <1>2. /\ a \in Actions(W)
        /\ P = [u \in Tracks |-> P[u]]
        /\ P[t] = Append(U[t], a)
        /\ \A u \in Tracks \ {t} : P[u] = U[u]
        /\ \A u \in Tracks : P[u] \in Seq(Actions(W))
    BY PushedShape
  <1>3. a.size = size
    BY DEF NewAction
  <1>4. c.bytes = h.bytes - ActionBytes(h.redo) /\ HistoryRecord(c)
    <2> DEFINE spent == h.bytes - ActionBytes(h.redo)
    <2>1. c = [h EXCEPT !.redo = NoStacks, !.bytes = spent]
      BY DEF ClearRedo
    <2> HIDE DEF c, spent
    <2>2. c.bytes = spent /\ HistoryRecord(c)
      BY <1>1, <2>1 DEF HistoryRecord
    <2> QED
      BY <2>2 DEF spent
  <1>5. p.bytes = c.bytes + size
    <2>1. p = [c EXCEPT !.undo[t] = Append(@, NewAction(c, size, what)), !.next = @ + 1,
                        !.bytes = @ + size]
      BY DEF Pushed
    <2> HIDE DEF p, c
    <2> QED
      BY <1>4, <2>1 DEF HistoryRecord
  <1> HIDE DEF p, c, a, U, P
  <1>6. P = Longer(U, t, a)
    BY <1>1, <1>2 DEF Longer
  <1>7. ActionBytes(P) = ActionBytes(U) + a.size
    <2>1. ActionBytes(Longer(U, t, a)) = ActionBytes(U) + a.size
      BY <1>1, <1>2, LongerBytes
    <2> QED
      BY <1>6, <2>1
  <1>8. ActionBytes(U) \in Nat /\ ActionBytes(h.redo) \in Nat
    BY <1>1, ActionBytesTyped
  <1>9. h.bytes = ActionBytes(U) + ActionBytes(h.redo)
    BY DEF Accounted, U
  <1>10. p.bytes = ActionBytes(P)
    BY <1>3, <1>4, <1>5, <1>7, <1>8, <1>9
  <1> QED
    BY <1>10 DEF p, c, P

\* Dropping actions older than one that is at the back keeps the one at the back.
LEMMA DropOlderKeepsLast ==
    ASSUME NEW W, NEW s \in Seq(Actions(W)), s # <<>>, NEW cut, ~(Last(s).sequence < cut)
    PROVE  /\ DropOlder(s, cut) # <<>>
           /\ Last(DropOlder(s, cut)) = Last(s)
  <1> DEFINE n == Len(s)
             older == {i \in DOMAIN s : s[i].sequence < cut}
             k == Cardinality(older)
  <1>1. /\ n \in Nat \ {0} /\ DOMAIN s = 1 .. n /\ Last(s) = s[n]
    BY EmptySeq DEF Last
  <1>2. older \subseteq 1 .. (n - 1)
    BY <1>1
  <1>3. IsFiniteSet(1 .. (n - 1)) /\ Cardinality(1 .. (n - 1)) = n - 1
    BY SMTT(30), <1>1, FS_Interval
  <1>4. k \in Nat /\ k <= n - 1
    BY <1>2, <1>3, FS_Subset, FS_CardinalityType
  <1>5. DropOlder(s, cut) = SubSeq(s, k + 1, n)
    BY DEF DropOlder
  <1> HIDE DEF k, n
  <1>6. /\ Len(SubSeq(s, k + 1, n)) = n - k
        /\ SubSeq(s, k + 1, n)[n - k] = s[n]
    BY <1>1, <1>4 DEF n
  <1>7. n - k # 0
    BY <1>1, <1>4
  <1> DEFINE d == DropOlder(s, cut)
  <1>8. Len(d) = n - k /\ d[n - k] = s[n]
    BY <1>5, <1>6
  <1> HIDE DEF d, n, k
  <1>9. Len(<<>>) = 0
    OBVIOUS
  <1>10. d # <<>>
    BY <1>7, <1>8, <1>9
  <1>11. Last(d) = Last(s)
    BY <1>1, <1>8 DEF Last
  <1> QED
    BY <1>10, <1>11 DEF d

\* Dropping actions older than a number above all of them leaves nothing.
LEMMA DropOlderAll ==
    ASSUME NEW W, NEW s \in Seq(Actions(W)), NEW cut, Below(s, cut)
    PROVE  Len(DropOlder(s, cut)) = 0
  <1> DEFINE n == Len(s)
  <1>1. /\ n \in Nat /\ DOMAIN s = 1 .. n
    OBVIOUS
  <1>2. {i \in DOMAIN s : s[i].sequence < cut} = 1 .. n
    BY <1>1 DEF Below
  <1>3. Cardinality(1 .. n) = n
    BY <1>1, FS_Interval
  <1>4. DropOlder(s, cut) = SubSeq(s, n + 1, n)
    BY <1>2, <1>3 DEF DropOlder
  <1> HIDE DEF n
  <1>5. Len(SubSeq(s, n + 1, n)) = 0
    BY <1>1
  <1> QED
    BY <1>4, <1>5

\* Dropping all actions older than the one at the back leaves that one.
LEMMA DropOlderNewest ==
    ASSUME NEW W, NEW s \in Seq(Actions(W)), NEW m, Len(s) = m + 1, m \in Nat,
           NEW cut, ~(s[m + 1].sequence < cut), \A i \in 1 .. m : s[i].sequence < cut
    PROVE  Len(DropOlder(s, cut)) = 1
  <1>1. DOMAIN s = 1 .. (m + 1)
    OBVIOUS
  <1>2. \A i \in 1 .. (m + 1) : i \in 1 .. m \/ i = m + 1
    OBVIOUS
  <1>3. 1 .. m \subseteq 1 .. (m + 1)
    OBVIOUS
  <1>4. {i \in DOMAIN s : s[i].sequence < cut} = 1 .. m
    BY <1>1, <1>2, <1>3
  <1>5. Cardinality(1 .. m) = m
    BY FS_Interval
  <1>6. DropOlder(s, cut) = SubSeq(s, m + 1, m + 1)
    BY <1>4, <1>5 DEF DropOlder
  <1>7. Len(SubSeq(s, m + 1, m + 1)) = 1
    <2>1. m + 1 <= m + 1 /\ (m + 1) - (m + 1) + 1 = 1
      OBVIOUS
    <2> QED
      BY <2>1
  <1> QED
    BY <1>6, <1>7

\* The action at the back of the undo deque of t has number n, all others are older.
NewestAt(X, t, n) ==
    /\ X[t] # <<>>
    /\ Last(X[t]).sequence = n
    /\ Below(Front(X[t]), n)
    /\ \A u \in Tracks \ {t} : Below(X[u], n)

\* No number in the undo deques is above the newest one, and it is one of them.
LEMMA NewestIsMax ==
    ASSUME NEW W, NEW p, p.undo \in [Tracks -> Seq(Actions(W))],
           NEW t \in Tracks, NEW n \in Nat, NewestAt(p.undo, t, n)
    PROVE  /\ UndoSequences(p) \in SUBSET Nat
           /\ \A c \in UndoSequences(p) : c <= n
           /\ Max(UndoSequences(p)) = n
  <1> DEFINE P == p.undo
  <1>1. P \in [Tracks -> Seq(Actions(W))] /\ P[t] # <<>>
    BY DEF NewestAt
  <1>2. ASSUME NEW c \in UndoSequences(p)
        PROVE  c \in Nat /\ c <= n
    <2>1. PICK u \in Tracks : \E i \in DOMAIN P[u] : c = P[u][i].sequence
      BY <1>2 DEF UndoSequences
    <2>2. PICK i \in DOMAIN P[u] : c = P[u][i].sequence
      BY <2>1
    <2>3. P[u] \in Seq(Actions(W))
      BY <1>1
    <2>4. c \in Nat
      BY <2>2, <2>3, ActionsTyped
    <2>5. CASE u # t
      <3>1. Below(P[u], n)
        BY <2>5 DEF NewestAt
      <3>2. c < n
        BY <2>2, <3>1 DEF Below
      <3> QED
        BY <2>4, <3>2
    <2>6. CASE u = t
      <3>1. /\ Front(P[t]) \in Seq(Actions(W)) /\ Last(P[t]) \in Actions(W)
            /\ P[t] = Append(Front(P[t]), Last(P[t]))
        BY <1>1, FrontOrdered
      <3>2. \/ P[t][i] = Last(P[t])
            \/ i \in DOMAIN Front(P[t]) /\ P[t][i] = Front(P[t])[i]
        <4>1. i \in DOMAIN Append(Front(P[t]), Last(P[t]))
          BY <2>2, <2>6, <3>1
        <4>2. /\ DOMAIN Front(P[t]) = 1 .. Len(Front(P[t])) /\ Len(Front(P[t])) \in Nat
              /\ DOMAIN Append(Front(P[t]), Last(P[t])) = 1 .. (Len(Front(P[t])) + 1)
              /\ Append(Front(P[t]), Last(P[t]))[Len(Front(P[t])) + 1] = Last(P[t])
              /\ \A j \in 1 .. Len(Front(P[t])) :
                     Append(Front(P[t]), Last(P[t]))[j] = Front(P[t])[j]
          BY <3>1, AppendProperties
        <4>3. i \in 1 .. Len(Front(P[t])) \/ i = Len(Front(P[t])) + 1
          BY <4>1, <4>2
        <4> QED
          BY <3>1, <4>2, <4>3
      <3>3. Last(P[t]).sequence = n /\ Below(Front(P[t]), n)
        BY DEF NewestAt
      <3>4. c = n \/ c < n
        BY <2>2, <2>6, <3>2, <3>3 DEF Below
      <3> QED
        BY <2>4, <3>4
    <2> QED
      BY <2>5, <2>6
  <1>3. n \in UndoSequences(p)
    <2>1. P[t] \in Seq(Actions(W)) /\ P[t] # <<>>
      BY <1>1
    <2>2. Len(P[t]) \in DOMAIN P[t]
      BY <2>1, EmptySeq
    <2>3. P[t][Len(P[t])].sequence = n
      BY DEF NewestAt, Last
    <2> QED
      BY <2>2, <2>3 DEF UndoSequences
  <1>4. Max(UndoSequences(p)) = n
    <2> DEFINE N == UndoSequences(p)
               x == CHOOSE y \in N : \A z \in N : y >= z
    <2> HIDE DEF N
    <2>1. n \in N /\ \A z \in N : z \in Nat /\ n >= z
      BY <1>2, <1>3 DEF N
    <2>2. x \in N /\ \A z \in N : x >= z
      BY <2>1
    <2>3. x = n
      <3> HIDE DEF x
      <3> QED
        BY <2>1, <2>2
    <2> QED
      BY <2>3 DEF Max, N
  <1> QED
    BY <1>2, <1>4

\* Only the action pushed by a command carries the greatest number.
LEMMA PushedNewestAt ==
    ASSUME NEW W, NEW h, StacksTyped(h, W), Chronological(h),
           NEW t \in Tracks, NEW size \in Nat, NEW what \in W
    PROVE  LET p == Pushed(ClearRedo(h), t, size, what)
           IN  /\ p.undo \in [Tracks -> Seq(Actions(W))]
               /\ NewestAt(p.undo, t, h.next)
  <1> DEFINE p == Pushed(ClearRedo(h), t, size, what)
             P == p.undo
             U == h.undo
             a == NewAction(h, size, what)
             n == h.next
  <1>1. /\ a \in Actions(W) /\ a.sequence = n
        /\ P = [u \in Tracks |-> P[u]]
        /\ P[t] = Append(U[t], a)
        /\ \A u \in Tracks \ {t} : P[u] = U[u]
        /\ \A u \in Tracks : P[u] \in Seq(Actions(W))
    BY PushedShape
  <1>2. \A u \in Tracks : Below(U[u], n) /\ U[u] \in Seq(Actions(W))
    BY DEF Chronological, UndoBeforeRedo, StacksTyped
  <1> HIDE DEF P, U, n, a
  <1>3. P \in [Tracks -> Seq(Actions(W))]
    BY <1>1
  <1>4. /\ Append(U[t], a) # <<>>
        /\ Last(Append(U[t], a)) = a
        /\ Front(Append(U[t], a)) = U[t]
    <2>1. U[t] \in Seq(Actions(W)) /\ a \in Actions(W)
      BY <1>1, <1>2
    <2>2. /\ Append(U[t], a) \in Seq(Actions(W))
          /\ Len(Append(U[t], a)) = Len(U[t]) + 1
          /\ Len(U[t]) \in Nat
          /\ Append(U[t], a)[Len(U[t]) + 1] = a
      BY <2>1, AppendProperties
    <2> QED
      BY <2>1, <2>2 DEF Last, Front
  <1>5. NewestAt(P, t, n)
    BY <1>1, <1>2, <1>4 DEF NewestAt
  <1> QED
    BY <1>3, <1>5 DEF P, n

\* What the budget takes: nothing, or the undo actions older than a cut, which is
\* no newer than the newest action, and that very action if nothing older fits.
LEMMA EnforcedCut ==
    ASSUME NEW W, NEW p, HistoryRecord(p), p.undo \in [Tracks -> Seq(Actions(W))],
           NEW t \in Tracks, NEW n \in Nat, NewestAt(p.undo, t, n)
    PROVE  LET r == EnforceBudget(p)
           IN  \/ /\ r = p
                  /\ r.bytes <= HistoryBudget \/ ActionCount(r) <= 1
               \/ \E cut \in Nat :
                      /\ cut <= n
                      /\ \/ ActionBytes(KeptFrom(p, cut)) <= HistoryBudget
                         \/ cut = n
                      /\ HistoryRecord(r)
                      /\ r.redo = p.redo
                      /\ r.undo = KeptFrom(p, cut)
                      /\ r.bytes = p.bytes - (ActionBytes(p.undo) - ActionBytes(KeptFrom(p, cut)))
  <1> DEFINE r == EnforceBudget(p)
             N == UndoSequences(p)
             fitting == {c \in N : ActionBytes(KeptFrom(p, c)) <= HistoryBudget}
             cut == IF fitting = {} THEN Max(N) ELSE Min(fitting)
             kept == KeptFrom(p, cut)
  <1>1. /\ N \in SUBSET Nat
        /\ \A c \in N : c <= n
        /\ Max(N) = n
    BY NewestIsMax
  <1>2. CASE p.bytes <= HistoryBudget \/ ActionCount(p) <= 1
    BY <1>2 DEF EnforceBudget
  <1>3. CASE ~(p.bytes <= HistoryBudget \/ ActionCount(p) <= 1)
    <2>1. r = [p EXCEPT !.undo = kept, !.bytes = @ - (ActionBytes(p.undo) - ActionBytes(kept))]
      BY <1>3 DEF EnforceBudget
    <2>2. /\ cut \in Nat /\ cut <= n
          /\ ActionBytes(kept) <= HistoryBudget \/ cut = n
      <3>1. CASE fitting = {}
        BY <1>1, <3>1
      <3>2. CASE fitting # {}
        <4>1. Min(fitting) \in fitting
          <5>1. fitting \in SUBSET Nat
            BY <1>1
          <5> HIDE DEF fitting
          <5> QED
            BY <3>2, <5>1, MinIsIn
        <4>2. cut = Min(fitting)
          BY <3>2
        <4>3. cut \in fitting
          BY <4>1, <4>2
        <4> HIDE DEF cut
        <4> QED
          BY <1>1, <4>3
      <3> QED
        BY <3>1, <3>2
    <2> DEFINE gone == ActionBytes(p.undo) - ActionBytes(kept)
    <2>3. r = [p EXCEPT !.undo = kept, !.bytes = @ - gone]
      BY <2>1
    <2> HIDE DEF kept, gone, r
    <2>4. /\ HistoryRecord(r) /\ r.redo = p.redo /\ r.undo = kept
          /\ r.bytes = p.bytes - gone
      BY <2>3 DEF HistoryRecord
    <2> HIDE DEF cut
    <2>5. \E c \in Nat :
              /\ c <= n
              /\ ActionBytes(KeptFrom(p, c)) <= HistoryBudget \/ c = n
              /\ HistoryRecord(r) /\ r.redo = p.redo /\ r.undo = KeptFrom(p, c)
              /\ r.bytes = p.bytes - (ActionBytes(p.undo) - ActionBytes(KeptFrom(p, c)))
      BY <2>2, <2>4 DEF kept, gone
    <2> QED
      BY <2>5 DEF r
  <1> QED
    BY <1>2, <1>3

\* Cutting no deeper than the newest action keeps typed deques with it at the back.
LEMMA KeptTyped ==
    ASSUME NEW W, NEW p, p.undo \in [Tracks -> Seq(Actions(W))],
           NEW t \in Tracks, NEW n \in Nat, NewestAt(p.undo, t, n),
           NEW cut \in Nat, cut <= n
    PROVE  /\ KeptFrom(p, cut) \in [Tracks -> Seq(Actions(W))]
           /\ KeptFrom(p, cut)[t] # <<>>
           /\ Last(KeptFrom(p, cut)[t]).sequence = n
  <1> DEFINE P == p.undo
             K == KeptFrom(p, cut)
  <1>1. K = [u \in Tracks |-> DropOlder(P[u], cut)]
    BY DEF KeptFrom
  <1>2. ASSUME NEW u \in Tracks
        PROVE  DropOlder(P[u], cut) \in Seq(Actions(W))
    <2>1. P[u] \in Seq(Actions(W))
      OBVIOUS
    <2>2. PICK k \in 0 .. Len(P[u]) : DropOlder(P[u], cut) = SubSeq(P[u], k + 1, Len(P[u]))
      BY <2>1, DropOlderIsSuffix
    <2>3. Len(P[u]) \in Nat /\ k + 1 \in 1 .. Len(P[u]) + 1
      BY <2>1
    <2> QED
      BY <2>1, <2>2, <2>3, SubSeqProperties
  <1>3. P[t] \in Seq(Actions(W)) /\ P[t] # <<>> /\ ~(Last(P[t]).sequence < cut)
    BY DEF NewestAt
  <1>4. DropOlder(P[t], cut) # <<>> /\ Last(DropOlder(P[t], cut)) = Last(P[t])
    BY <1>3, DropOlderKeepsLast
  <1>5. Last(P[t]).sequence = n
    BY DEF NewestAt
  <1> HIDE DEF P, K
  <1> QED
    BY <1>1, <1>2, <1>4, <1>5 DEF K

\* Deques with one action of t and no other action.
OnlyOne(X, t) == \A u \in Tracks : Len(X[u]) = IF u = t THEN 1 ELSE 0

\* Cutting at the newest action leaves it alone.
LEMMA KeptNewest ==
    ASSUME NEW W, NEW p, p.undo \in [Tracks -> Seq(Actions(W))],
           NEW t \in Tracks, NEW n \in Nat, NewestAt(p.undo, t, n)
    PROVE  OnlyOne(KeptFrom(p, n), t)
  <1> DEFINE P == p.undo
  <1> SUFFICES ASSUME NEW u \in Tracks
               PROVE  Len(KeptFrom(p, n)[u]) = IF u = t THEN 1 ELSE 0
    BY DEF OnlyOne
  <1>1. KeptFrom(p, n)[u] = DropOlder(P[u], n) /\ P[u] \in Seq(Actions(W))
    BY DEF KeptFrom
  <1>2. CASE u # t
    <2>1. Below(P[u], n)
      BY <1>2 DEF NewestAt
    <2>2. Len(DropOlder(P[u], n)) = 0
      BY <1>1, <2>1, DropOlderAll
    <2> QED
      BY <1>1, <1>2, <2>2
  <1>3. CASE u = t
    <2> DEFINE s == P[t]
               m == Len(Front(s))
    <2>1. s \in Seq(Actions(W)) /\ s # <<>>
      BY DEF NewestAt
    <2>2. /\ Front(s) \in Seq(Actions(W)) /\ Last(s) \in Actions(W)
          /\ s = Append(Front(s), Last(s))
      BY <2>1, FrontOrdered
    <2>3. /\ m \in Nat /\ DOMAIN Front(s) = 1 .. m
          /\ Len(Append(Front(s), Last(s))) = m + 1
          /\ Append(Front(s), Last(s))[m + 1] = Last(s)
          /\ \A j \in 1 .. m : Append(Front(s), Last(s))[j] = Front(s)[j]
      BY <2>2, AppendProperties
    <2>4. Last(s).sequence = n /\ Below(Front(s), n)
      BY DEF NewestAt
    <2> HIDE DEF s, m
    <2>5. /\ Len(s) = m + 1 /\ m \in Nat
          /\ ~(s[m + 1].sequence < n)
          /\ \A i \in 1 .. m : s[i].sequence < n
      <3>1. Len(s) = m + 1 /\ m \in Nat
        BY <2>2, <2>3
      <3>2. s[m + 1] = Last(s)
        BY <2>2, <2>3
      <3>3. ~(s[m + 1].sequence < n)
        BY <2>4, <3>2
      <3>4. \A i \in 1 .. m : s[i] = Front(s)[i]
        BY <2>2, <2>3
      <3>5. \A i \in 1 .. m : Front(s)[i].sequence < n
        BY <2>3, <2>4 DEF Below
      <3> QED
        BY <3>1, <3>3, <3>4, <3>5
    <2>6. Len(DropOlder(s, n)) = 1
      BY <2>1, <2>5, DropOlderNewest
    <2> QED
      BY <1>1, <1>3, <2>6 DEF s
  <1> QED
    BY <1>2, <1>3

\* One deque with one action and no other action make one action.
LEMMA OneAction ==
    ASSUME NEW h, NEW t \in Tracks, h.redo = NoStacks, OnlyOne(h.undo, t)
    PROVE  ActionCount(h) = 1
  <1> DEFINE f == [u \in Tracks |-> 0]
             g == [u \in Tracks |-> Len(h.undo[u]) + Len(h.redo[u])]
  <1>1. ActionCount(h) = SumFunctionOnSet(g, Tracks)
    BY DEF ActionCount, SumFunction
  <1>2. \A u \in Tracks : f[u] = 0
    OBVIOUS
  <1>3. \A u \in Tracks : g[u] = IF u = t THEN f[u] + 1 ELSE f[u]
    <2> TAKE u \in Tracks
    <2>1. f[u] = 0 /\ g[u] = Len(h.undo[u]) + Len(h.redo[u])
      OBVIOUS
    <2>2. Len(h.redo[u]) = 0
      BY DEF NoStacks
    <2>3. Len(h.undo[u]) = IF u = t THEN 1 ELSE 0
      BY DEF OnlyOne
    <2> HIDE DEF f, g
    <2> QED
      BY <2>1, <2>2, <2>3
  <1> HIDE DEF f, g
  <1>4. SumFunctionOnSet(f, Tracks) = 0
    BY <1>2, SumZero, TracksAssumption
  <1>5. SumFunctionOnSet(g, Tracks) = SumFunctionOnSet(f, Tracks) + 1
    <2>1. \A u \in Tracks : f[u] \in Nat
      BY <1>2
    <2>2. 1 \in Nat
      OBVIOUS
    <2> QED
      BY <1>3, <2>1, <2>2, SumRaised, TracksAssumption
  <1> QED
    BY <1>1, <1>4, <1>5

\* Recording keeps the account, stays within the budget as long as more than one
\* action is kept, and never takes the action it records.
LEMMA RecordedBudgeted ==
    ASSUME NEW W, NEW h, StacksTyped(h, W), Chronological(h),
           Accounted(h),
           NEW t \in Tracks, NEW size \in Nat, NEW what \in W
    PROVE  LET r == Recorded(h, t, size, what)
           IN  /\ Accounted(r)
               /\ r.bytes <= HistoryBudget \/ ActionCount(r) <= 1
               /\ r.redo = NoStacks
               /\ r.undo[t] # <<>>
               /\ Last(r.undo[t]).sequence = h.next
  <1> DEFINE p == Pushed(ClearRedo(h), t, size, what)
             r == Recorded(h, t, size, what)
             n == h.next
  <1>1. p.bytes = ActionBytes(p.undo)
    BY PushedBytes
  <1>2. HistoryRecord(p) /\ p.redo = NoStacks
    <2>1. /\ HistoryRecord(p)
          /\ p.redo = NoStacks
          /\ p.next = h.next + 1
          /\ p.undo = [u \in Tracks |-> p.undo[u]]
          /\ \A u \in Tracks : p.undo[u] \in Seq(Actions(W))
      BY PushedShape
    <2> QED
      BY <2>1
  <1>3. p.undo \in [Tracks -> Seq(Actions(W))] /\ NewestAt(p.undo, t, n)
    BY PushedNewestAt
  <1>4. n \in Nat
    BY DEF StacksTyped
  <1>5. r = EnforceBudget(p)
    BY DEF Recorded
  <1> HIDE DEF p, r, n
  <1>6. ActionBytes(NoStacks) = 0
    BY NoStacksBytes
  <1>7. \/ /\ r = p
           /\ r.bytes <= HistoryBudget \/ ActionCount(r) <= 1
        \/ \E cut \in Nat :
               /\ cut <= n
               /\ \/ ActionBytes(KeptFrom(p, cut)) <= HistoryBudget
                  \/ cut = n
               /\ HistoryRecord(r)
               /\ r.redo = p.redo
               /\ r.undo = KeptFrom(p, cut)
               /\ r.bytes = p.bytes - (ActionBytes(p.undo) - ActionBytes(KeptFrom(p, cut)))
    BY <1>2, <1>3, <1>4, <1>5, EnforcedCut
  <1>8. CASE r = p /\ (r.bytes <= HistoryBudget \/ ActionCount(r) <= 1)
    <2>1. p.undo[t] # <<>> /\ Last(p.undo[t]).sequence = n
      BY <1>3 DEF NewestAt
    <2>2. ActionBytes(p.undo) \in Nat
      BY <1>3, ActionBytesTyped
    <2>3. Accounted(p)
      BY <1>1, <1>2, <1>6, <2>2 DEF Accounted
    <2> QED
      BY <1>2, <1>8, <2>1, <2>3 DEF r, n
  <1>9. ASSUME NEW cut \in Nat, cut <= n,
               \/ ActionBytes(KeptFrom(p, cut)) <= HistoryBudget
               \/ cut = n,
               r.redo = p.redo,
               r.undo = KeptFrom(p, cut),
               r.bytes = p.bytes - (ActionBytes(p.undo) - ActionBytes(KeptFrom(p, cut)))
        PROVE  /\ Accounted(r)
               /\ r.bytes <= HistoryBudget \/ ActionCount(r) <= 1
               /\ r.redo = NoStacks
               /\ r.undo[t] # <<>>
               /\ Last(r.undo[t]).sequence = n
    <2> DEFINE K == KeptFrom(p, cut)
    <2>1. /\ K \in [Tracks -> Seq(Actions(W))]
          /\ K[t] # <<>>
          /\ Last(K[t]).sequence = n
      BY <1>3, <1>4, <1>9, KeptTyped
    <2> HIDE DEF K
    <2>2. ActionBytes(K) \in Nat
      BY <2>1, ActionBytesTyped
    <2>3. ActionBytes(p.undo) \in Nat
      BY <1>3, ActionBytesTyped
    <2>4. r.bytes = ActionBytes(K)
      <3>1. r.bytes = p.bytes - (ActionBytes(p.undo) - ActionBytes(K))
        BY <1>9 DEF K
      <3> QED
        BY <1>1, <2>2, <2>3, <3>1
    <2>5. r.undo = K /\ r.redo = NoStacks
      BY <1>2, <1>9 DEF K
    <2>6. Accounted(r)
      BY <1>6, <2>2, <2>4, <2>5 DEF Accounted
    <2>7. CASE ActionBytes(K) <= HistoryBudget
      BY <2>1, <2>4, <2>5, <2>6, <2>7
    <2>8. CASE cut = n
      <3>1. OnlyOne(KeptFrom(p, n), t)
        BY <1>3, <1>4, KeptNewest
      <3>2. OnlyOne(r.undo, t)
        BY <1>9, <2>8, <3>1
      <3>3. ActionCount(r) = 1
        BY <2>5, <3>2, OneAction
      <3>4. ActionCount(r) <= 1
        BY <3>3
      <3> QED
        BY <2>1, <2>5, <2>6, <3>4
    <2> QED
      BY <1>9, <2>7, <2>8 DEF K
  <1> QED
    BY <1>7, <1>8, <1>9 DEF r, n

\* The recorded action is the next to be undone, and nothing is left to redo.
LEMMA RecordedNewest ==
    ASSUME NEW W, NEW h, StacksTyped(h, W), Chronological(h), Accounted(h),
           NEW t \in Tracks, NEW size \in Nat, NEW what \in W
    PROVE  LET r == Recorded(h, t, size, what)
           IN  /\ NewestUndo(r, t)
               /\ ~CanRedo(r)
               /\ Last(r.undo[t]).sequence = h.next
  <1> DEFINE r == Recorded(h, t, size, what)
             p == Pushed(ClearRedo(h), t, size, what)
             n == h.next
  <1>1. /\ r.redo = NoStacks
        /\ r.undo[t] # <<>>
        /\ Last(r.undo[t]).sequence = n
    BY RecordedBudgeted
  <1>2. r.next = n + 1
    <2>1. /\ HistoryRecord(r)
          /\ r.redo = NoStacks
          /\ r.next = h.next + 1
          /\ r.undo = [u \in Tracks |-> r.undo[u]]
          /\ \A u \in Tracks : \E k \in 0 .. Len(p.undo[u]) :
                 r.undo[u] = SubSeq(p.undo[u], k + 1, Len(p.undo[u]))
      BY RecordedShape
    <2> QED
      BY <2>1
  <1>3. StacksTyped(r, W) /\ Chronological(r)
    BY RecordedChronological
  <1>4. n \in Nat
    BY DEF StacksTyped
  <1> HIDE DEF r, n
  <1>5. ASSUME NEW u \in Tracks, r.undo[u] # <<>>
        PROVE  Last(r.undo[t]).sequence >= Last(r.undo[u]).sequence
    <2> DEFINE s == r.undo[u]
    <2>1. s \in Seq(Actions(W)) /\ s # <<>>
      BY <1>3, <1>5 DEF StacksTyped
    <2>2. Below(s, n + 1)
      BY <1>2, <1>3 DEF Chronological, UndoBeforeRedo
    <2> HIDE DEF s
    <2>3. Len(s) \in DOMAIN s
      BY <2>1, EmptySeq
    <2>4. s[Len(s)].sequence \in Nat /\ s[Len(s)].sequence < n + 1
      BY <2>1, <2>2, <2>3, ActionsTyped DEF Below
    <2>5. Last(s).sequence = s[Len(s)].sequence
      BY DEF Last
    <2>6. n >= Last(s).sequence
      BY <1>4, <2>4, <2>5
    <2> QED
      BY <1>1, <2>6 DEF s
  <1>6. NewestUndo(r, t)
    BY <1>1, <1>5 DEF NewestUndo
  <1>7. ~CanRedo(r)
    BY <1>1 DEF CanRedo, NoStacks
  <1> QED
    BY <1>1, <1>6, <1>7 DEF r, n

\* Undoing keeps the account and the budget.
LEMMA UndoneBudgeted ==
    ASSUME NEW W, NEW h, StacksTyped(h, W), Accounted(h), NEW t \in Tracks, NewestUndo(h, t)
    PROVE  /\ Accounted(Undone(h, t))
           /\ Undone(h, t).bytes = h.bytes
           /\ ActionCount(Undone(h, t)) = ActionCount(h)
  <1> DEFINE m == Undone(h, t)
  <1>1. /\ m.bytes = h.bytes
        /\ ActionBytes(m.undo) + ActionBytes(m.redo) = ActionBytes(h.undo) + ActionBytes(h.redo)
        /\ ActionCount(m) = ActionCount(h)
    BY UndoneBytes
  <1> HIDE DEF m
  <1>2. Accounted(m)
    BY <1>1 DEF Accounted
  <1> QED
    BY <1>1, <1>2 DEF m

\* Redoing keeps them, too.
LEMMA RedoneBudgeted ==
    ASSUME NEW W, NEW h, StacksTyped(h, W), Accounted(h), NEW t \in Tracks, OldestRedo(h, t)
    PROVE  /\ Accounted(Redone(h, t))
           /\ Redone(h, t).bytes = h.bytes
           /\ ActionCount(Redone(h, t)) = ActionCount(h)
  <1> DEFINE m == Redone(h, t)
  <1>1. /\ m.bytes = h.bytes
        /\ ActionBytes(m.undo) + ActionBytes(m.redo) = ActionBytes(h.undo) + ActionBytes(h.redo)
        /\ ActionCount(m) = ActionCount(h)
    BY RedoneBytes
  <1> HIDE DEF m
  <1>2. Accounted(m)
    BY <1>1 DEF Accounted
  <1> QED
    BY <1>1, <1>2 DEF m

\* So does opening or closing, which forgets everything.
LEMMA EmptyBudgeted ==
    Accounted(EmptyHistory) /\ EmptyHistory.bytes <= HistoryBudget
  <1>1. /\ EmptyHistory.bytes = 0 /\ EmptyHistory.undo = NoStacks /\ EmptyHistory.redo = NoStacks
    BY DEF EmptyHistory
  <1>2. 0 = ActionBytes(NoStacks) + ActionBytes(NoStacks)
    BY NoStacksBytes
  <1>3. 0 <= HistoryBudget
    BY BudgetAssumption
  <1> QED
    BY <1>1, <1>2, <1>3 DEF Accounted

\* Accounted bytes are a natural number.
LEMMA AccountedTyped ==
    ASSUME NEW W, NEW h, StacksTyped(h, W), Accounted(h)
    PROVE  h.bytes \in Nat
  <1>1. h.undo \in [Tracks -> Seq(Actions(W))] /\ h.redo \in [Tracks -> Seq(Actions(W))]
    BY DEF StacksTyped
  <1>2. ActionBytes(h.undo) \in Nat
    BY <1>1, ActionBytesTyped
  <1>3. ActionBytes(h.redo) \in Nat
    BY <1>1, ActionBytesTyped
  <1> QED
    BY <1>2, <1>3 DEF Accounted
-----------------------------------------------------------------------------
(* The history as one line of actions, whatever deques they lie on.        *)

\* The actions of some deques, each with its track.
On(X) == UNION {{<<t, X[t][i]>> : i \in DOMAIN X[t]} : t \in Tracks}

\* An action of some deque is one of them.
LEMMA OnIs ==
    ASSUME NEW X
    PROVE  \A x : x \in On(X) <=> \E t \in Tracks : \E i \in DOMAIN X[t] : x = <<t, X[t][i]>>
  BY DEF On

\* An action that leaves the one kind of deques for the other, and is above or
\* below all those that stay and those it joins.
Moves(P, Q, x, P1, Q1) ==
    /\ x \in P /\ P1 = P \ {x} /\ Q1 = Q \cup {x}

\* The deques without the action at the back of one of them.
Shorter(X, t) == [X EXCEPT ![t] = Front(X[t])]

\* It is the only action that goes.
LEMMA OnFront ==
    ASSUME NEW W, NEW X \in [Tracks -> Seq(Actions(W))], NEW t \in Tracks, X[t] # <<>>,
           \A u \in Tracks : \A i \in DOMAIN X[u] :
              (u = t /\ i = Len(X[t])) \/ X[u][i].sequence # Last(X[t]).sequence
    PROVE  On(Shorter(X, t)) = On(X) \ {<<t, Last(X[t])>>}
  <1> DEFINE Y == Shorter(X, t)
             a == Last(X[t])
  <1>1. Y[t] = Front(X[t]) /\ \A u \in Tracks \ {t} : Y[u] = X[u]
    BY DEF Shorter
  <1>2. /\ X[t][Len(X[t])] = a /\ Len(X[t]) \in DOMAIN X[t]
        /\ \A i \in DOMAIN Y[t] : i \in DOMAIN X[t] /\ i < Len(X[t]) /\ Y[t][i] = X[t][i]
        /\ \A i \in DOMAIN X[t] : i = Len(X[t]) \/ (i < Len(X[t]) /\ i \in DOMAIN Y[t])
    BY <1>1, FrontOrdered
  <1>3. Len(X[t]) \in Nat
    OBVIOUS
  <1> HIDE DEF Y, a
  <1>4. \A u \in Tracks : \A i \in DOMAIN X[u] :
           (u = t /\ i = Len(X[t])) \/ X[u][i].sequence # a.sequence
    BY DEF a
  <1>5. ASSUME NEW x \in On(Y)
        PROVE  x \in On(X) /\ x # <<t, a>>
    <2>1. PICK u, i : u \in Tracks /\ i \in DOMAIN Y[u] /\ x = <<u, Y[u][i]>>
      BY <1>5, OnIs
    <2>2. i \in DOMAIN X[u] /\ Y[u][i] = X[u][i] /\ ~(u = t /\ i = Len(X[t]))
      BY <1>1, <1>2, <1>3, <2>1
    <2>3. x = <<u, X[u][i]>> /\ X[u][i] # a
      BY <1>4, <2>1, <2>2
    <2> QED
      BY <2>2, <2>3, OnIs
  <1>6. ASSUME NEW x \in On(X), x # <<t, a>>
        PROVE  x \in On(Y)
    <2>1. PICK u, i : u \in Tracks /\ i \in DOMAIN X[u] /\ x = <<u, X[u][i]>>
      BY <1>6, OnIs
    <2>2. i \in DOMAIN Y[u] /\ Y[u][i] = X[u][i]
      BY <1>1, <1>2, <1>6, <2>1
    <2> QED
      BY <2>1, <2>2, OnIs
  <1>7. <<t, a>> \in On(X)
    BY <1>2, OnIs
  <1> QED
    BY <1>5, <1>6, <1>7 DEF Y, a

\* The deques with an action more at the back of one of them.
LEMMA OnAppend ==
    ASSUME NEW W, NEW X \in [Tracks -> Seq(Actions(W))], NEW t \in Tracks, NEW a \in Actions(W)
    PROVE  On(Longer(X, t, a)) = On(X) \cup {<<t, a>>}
  <1> DEFINE Y == Longer(X, t, a)
             n == Len(X[t])
  <1>1. Y[t] = Append(X[t], a) /\ \A u \in Tracks \ {t} : Y[u] = X[u]
    BY DEF Longer
  <1>2. X[t] \in Seq(Actions(W))
    OBVIOUS
  <1>3. /\ n \in Nat /\ DOMAIN X[t] = 1 .. n /\ DOMAIN Y[t] = 1 .. (n + 1)
        /\ Y[t][n + 1] = a /\ \A i \in 1 .. n : Y[t][i] = X[t][i]
    BY <1>1, <1>2, AppendProperties
  <1> HIDE DEF Y, n
  <1>4. ASSUME NEW x \in On(Y)
        PROVE  x \in On(X) \cup {<<t, a>>}
    <2>1. PICK u, i : u \in Tracks /\ i \in DOMAIN Y[u] /\ x = <<u, Y[u][i]>>
      BY <1>4, OnIs
    <2>2. x = <<t, a>> \/ (i \in DOMAIN X[u] /\ x = <<u, X[u][i]>>)
      <3>1. CASE u = t
        <4>1. i \in 1 .. n \/ i = n + 1
          BY <1>3, <2>1, <3>1
        <4> QED
          BY <1>3, <2>1, <3>1, <4>1
      <3>2. CASE u # t
        BY <1>1, <2>1, <3>2
      <3> QED
        BY <3>1, <3>2
    <2> QED
      BY <2>1, <2>2, OnIs
  <1>5. ASSUME NEW x \in On(X)
        PROVE  x \in On(Y)
    <2>1. PICK u, i : u \in Tracks /\ i \in DOMAIN X[u] /\ x = <<u, X[u][i]>>
      BY <1>5, OnIs
    <2>2. i \in DOMAIN Y[u] /\ Y[u][i] = X[u][i]
      <3>1. CASE u = t
        <4>1. i \in 1 .. n /\ i \in 1 .. (n + 1)
          BY <1>3, <2>1, <3>1
        <4> QED
          BY <1>3, <3>1, <4>1
      <3>2. CASE u # t
        BY <1>1, <2>1, <3>2
      <3> QED
        BY <3>1, <3>2
    <2> QED
      BY <2>1, <2>2, OnIs
  <1>6. <<t, a>> \in On(Y)
    <2>1. n + 1 \in DOMAIN Y[t] /\ Y[t][n + 1] = a
      BY <1>3
    <2> QED
      BY <2>1, OnIs
  <1> QED
    BY <1>4, <1>5, <1>6 DEF Y

\* Undo moves the newest action from the undo deques to the redo deques.
LEMMA UndoneOn ==
    ASSUME NEW W, NEW h, StacksTyped(h, W), Chronological(h), NEW t \in Tracks, NewestUndo(h, t)
    PROVE  LET x == <<t, Last(h.undo[t])>>
               m == Undone(h, t)
           IN  /\ Moves(On(h.undo), On(h.redo), x, On(m.undo), On(m.redo))
               /\ \A y \in On(h.undo) : y = x \/ y[2].sequence < x[2].sequence
               /\ \A y \in On(h.redo) : x[2].sequence < y[2].sequence
  <1> DEFINE X == h.undo
             Y == h.redo
             a == Last(h.undo[t])
             x == <<t, a>>
             m == Undone(h, t)
  <1>0. h.undo[t] # <<>>
    BY DEF NewestUndo
  <1>1. X \in [Tracks -> Seq(Actions(W))] /\ Y \in [Tracks -> Seq(Actions(W))] /\ X[t] # <<>>
    BY <1>0 DEF StacksTyped
  <1>2. /\ a \in Actions(W) /\ HistoryRecord(m) /\ m.next = h.next /\ m.bytes = h.bytes
        /\ m.undo = [X EXCEPT ![t] = Front(X[t])]
        /\ m.redo = [Y EXCEPT ![t] = Append(Y[t], a)]
    BY <1>0, UndoneShape
  <1>3. \A u \in Tracks : \A i \in DOMAIN X[u] :
            \/ u = t /\ i = Len(X[t])
            \/ X[u][i].sequence < a.sequence
    BY NewestUndoDominates
  <1>4. X[t][Len(X[t])] = a /\ Len(X[t]) \in DOMAIN X[t]
    BY <1>1, FrontOrdered DEF a
  <1> HIDE DEF m, a, X, Y
  <1>5. \A u \in Tracks : \A i \in DOMAIN X[u] : X[u][i].sequence \in Nat
    BY <1>1, ActionsTyped
  <1>6. a.sequence \in Nat
    BY <1>2 DEF Actions
  <1>7. On(m.undo) = On(X) \ {x}
    <2>1. \A u \in Tracks : \A i \in DOMAIN X[u] :
              (u = t /\ i = Len(X[t])) \/ X[u][i].sequence # a.sequence
      BY <1>3, <1>5, <1>6
    <2> QED
      <3>1. \A u \in Tracks : \A i \in DOMAIN X[u] :
              (u = t /\ i = Len(X[t])) \/ X[u][i].sequence # Last(X[t]).sequence
        BY <2>1 DEF a, X
      <3>2. On(Shorter(X, t)) = On(X) \ {<<t, Last(X[t])>>}
        BY ONLY <1>1, <3>1, t \in Tracks, OnFront
      <3>3. m.undo = Shorter(X, t) /\ Last(X[t]) = a
        BY <1>2 DEF a, Shorter, X
      <3> QED
        BY <3>2, <3>3
  <1>8. On(m.redo) = On(Y) \cup {x}
    <2>1. On(Longer(Y, t, a)) = On(Y) \cup {<<t, a>>}
      BY <1>1, <1>2, OnAppend
    <2> QED
      BY <1>2, <2>1 DEF Longer
  <1>9. x \in On(X)
    BY <1>4, OnIs
  <1>10. ASSUME NEW y \in On(X), y # x
         PROVE  y[2].sequence < a.sequence
    <2>1. PICK u, i : u \in Tracks /\ i \in DOMAIN X[u] /\ y = <<u, X[u][i]>>
      BY <1>10, OnIs
    <2> QED
      BY <1>3, <1>4, <1>10, <2>1
  <1>11. ASSUME NEW y \in On(Y)
         PROVE  a.sequence < y[2].sequence
    <2>1. PICK u, i : u \in Tracks /\ i \in DOMAIN Y[u] /\ y = <<u, Y[u][i]>>
      BY <1>11, OnIs
    <2>2. Before(X[t], Y[u])
      BY <2>1 DEF Chronological, UndoBeforeRedo, X, Y
    <2> QED
      BY <1>4, <2>1, <2>2 DEF Before
  <1>12. x[2] = a
    OBVIOUS
  <1> HIDE DEF x
  <1>13. Moves(On(X), On(Y), x, On(m.undo), On(m.redo))
    BY <1>7, <1>8, <1>9 DEF Moves
  <1> QED
    BY <1>10, <1>11, <1>12, <1>13 DEF x, m, a, X, Y

\* Redo moves the oldest one back.
LEMMA RedoneOn ==
    ASSUME NEW W, NEW h, StacksTyped(h, W), Chronological(h), NEW t \in Tracks, OldestRedo(h, t)
    PROVE  LET x == <<t, Last(h.redo[t])>>
               m == Redone(h, t)
           IN  /\ Moves(On(h.redo), On(h.undo), x, On(m.redo), On(m.undo))
               /\ \A y \in On(h.redo) : y = x \/ x[2].sequence < y[2].sequence
               /\ \A y \in On(h.undo) : y[2].sequence < x[2].sequence
  <1> DEFINE X == h.redo
             Y == h.undo
             a == Last(h.redo[t])
             x == <<t, a>>
             m == Redone(h, t)
  <1>0. h.redo[t] # <<>>
    BY DEF OldestRedo
  <1>1. X \in [Tracks -> Seq(Actions(W))] /\ Y \in [Tracks -> Seq(Actions(W))] /\ X[t] # <<>>
    BY <1>0 DEF StacksTyped
  <1>2. /\ a \in Actions(W) /\ HistoryRecord(m) /\ m.next = h.next /\ m.bytes = h.bytes
        /\ m.redo = [X EXCEPT ![t] = Front(X[t])]
        /\ m.undo = [Y EXCEPT ![t] = Append(Y[t], a)]
    BY <1>0, RedoneShape
  <1>3. \A u \in Tracks : \A i \in DOMAIN X[u] :
            \/ u = t /\ i = Len(X[t])
            \/ X[u][i].sequence > a.sequence
    BY OldestRedoDominates
  <1>4. X[t][Len(X[t])] = a /\ Len(X[t]) \in DOMAIN X[t]
    BY <1>1, FrontOrdered DEF a
  <1> HIDE DEF m, a, X, Y
  <1>5. \A u \in Tracks : \A i \in DOMAIN X[u] : X[u][i].sequence \in Nat
    BY <1>1, ActionsTyped
  <1>6. a.sequence \in Nat
    BY <1>2 DEF Actions
  <1>7. On(m.redo) = On(X) \ {x}
    <2>1. \A u \in Tracks : \A i \in DOMAIN X[u] :
              (u = t /\ i = Len(X[t])) \/ X[u][i].sequence # a.sequence
      BY <1>3, <1>5, <1>6
    <2> QED
      <3>1. \A u \in Tracks : \A i \in DOMAIN X[u] :
              (u = t /\ i = Len(X[t])) \/ X[u][i].sequence # Last(X[t]).sequence
        BY <2>1 DEF a, X
      <3>2. On(Shorter(X, t)) = On(X) \ {<<t, Last(X[t])>>}
        BY ONLY <1>1, <3>1, t \in Tracks, OnFront
      <3>3. m.redo = Shorter(X, t) /\ Last(X[t]) = a
        BY <1>2 DEF a, Shorter, X
      <3> QED
        BY <3>2, <3>3
  <1>8. On(m.undo) = On(Y) \cup {x}
    <2>1. On(Longer(Y, t, a)) = On(Y) \cup {<<t, a>>}
      BY <1>1, <1>2, OnAppend
    <2> QED
      BY <1>2, <2>1 DEF Longer
  <1>9. x \in On(X)
    BY <1>4, OnIs
  <1>10. ASSUME NEW y \in On(X), y # x
         PROVE  a.sequence < y[2].sequence
    <2>1. PICK u, i : u \in Tracks /\ i \in DOMAIN X[u] /\ y = <<u, X[u][i]>>
      BY <1>10, OnIs
    <2>2. X[u][i].sequence > a.sequence
      BY <1>3, <1>4, <1>10, <2>1
    <2> QED
      BY <1>5, <1>6, <2>1, <2>2
  <1>11. ASSUME NEW y \in On(Y)
         PROVE  y[2].sequence < a.sequence
    <2>1. PICK u, i : u \in Tracks /\ i \in DOMAIN Y[u] /\ y = <<u, Y[u][i]>>
      BY <1>11, OnIs
    <2>2. Before(Y[u], X[t])
      BY <2>1 DEF Chronological, UndoBeforeRedo, X, Y
    <2> QED
      BY <1>4, <2>1, <2>2 DEF Before
  <1>12. x[2] = a
    OBVIOUS
  <1> HIDE DEF x
  <1>13. Moves(On(X), On(Y), x, On(m.redo), On(m.undo))
    BY <1>7, <1>8, <1>9 DEF Moves
  <1> QED
    BY <1>10, <1>11, <1>12, <1>13 DEF x, m, a, X, Y

\* No deques, no actions.
LEMMA OnNone == On(NoStacks) = {}
  <1>1. ASSUME NEW x \in On(NoStacks)
        PROVE  FALSE
    <2>1. PICK u, i : u \in Tracks /\ i \in DOMAIN NoStacks[u] /\ x = <<u, NoStacks[u][i]>>
      BY <1>1, OnIs
    <2> QED
      BY <2>1 DEF NoStacks
  <1> QED
    BY <1>1

\* The actions of an ascending deque below a number come first.
LEMMA OlderFirst ==
    ASSUME NEW W, NEW s \in Seq(Actions(W)), Ascending(s), NEW cut \in Nat
    PROVE  \E k \in 0 .. Len(s) :
              /\ DropOlder(s, cut) = SubSeq(s, k + 1, Len(s))
              /\ \A i \in 1 .. Len(s) : s[i].sequence < cut <=> i <= k
  <1> DEFINE n == Len(s)
             older == {i \in DOMAIN s : s[i].sequence < cut}
  <1>1. /\ n \in Nat /\ DOMAIN s = 1 .. n /\ \A i \in 1 .. n : s[i].sequence \in Nat
        /\ \A i, j \in 1 .. n : i < j => s[i].sequence < s[j].sequence
    BY ActionsTyped DEF Ascending
  <1>2. DropOlder(s, cut) = SubSeq(s, Cardinality(older) + 1, n)
    BY DEF DropOlder
  <1>3. \A i : i \in older <=> i \in 1 .. n /\ s[i].sequence < cut
    BY <1>1
  <1> HIDE DEF n, older
  <1>4. CASE older = {}
    <2>1. Cardinality(older) = 0
      BY <1>4, FS_EmptySet
    <2>2. 0 \in 0 .. n /\ \A i \in 1 .. n : ~(i <= 0)
      BY <1>1
    <2> QED
      BY <1>2, <1>3, <1>4, <2>1, <2>2 DEF n
  <1>5. CASE older # {}
    <2>1. older \in SUBSET (1 .. n)
      BY <1>3
    <2>2. PICK m \in older : \A y \in older : y <= m
      BY <1>1, <1>5, <2>1, GreatestNumber
    <2>3. m \in 1 .. n
      BY <1>3, <2>2
    <2>4. ASSUME NEW i \in 1 .. n
          PROVE  i \in older <=> i <= m
      <3>1. CASE i < m
        <4>1. s[i].sequence < s[m].sequence /\ s[m].sequence < cut
          BY <1>1, <1>3, <2>2, <2>3, <3>1
        <4> QED
          BY <1>1, <1>3, <2>3, <3>1, <4>1
      <3>2. CASE i = m
        BY <1>1, <2>2, <3>2
      <3>3. CASE m < i
        BY <1>1, <2>2, <2>3, <3>3
      <3> QED
        BY <1>1, <2>3, <3>1, <3>2, <3>3
    <2>5. older = 1 .. m
      <3>1. \A i : i \in older => i \in 1 .. n /\ i <= m
        BY <1>3, <2>4
      <3>2. \A i \in 1 .. m : i \in 1 .. n /\ i <= m
        BY <1>1, <2>3
      <3>3. \A i \in 1 .. m : i \in older
        BY <2>4, <3>2
      <3>4. \A i : i \in older => i \in 1 .. m
        BY <1>1, <2>3, <3>1
      <3> QED
        BY <3>3, <3>4
    <2>6. Cardinality(older) = m
      <3>1. Cardinality(1 .. m) = m
        BY <1>1, <2>3, FS_Interval
      <3> QED
        BY <2>5, <3>1
    <2>7. m \in 0 .. n /\ \A i \in 1 .. n : s[i].sequence < cut <=> i <= m
      BY <1>3, <2>3, <2>4
    <2>8. DropOlder(s, cut) = SubSeq(s, m + 1, n)
      BY <1>2, <2>6
    <2> QED
      BY <2>7, <2>8 DEF n
  <1> QED
    BY <1>4, <1>5

\* What the budget leaves on the deques is what is not below the cut.
LEMMA KeptOn ==
    ASSUME NEW W, NEW p, p.undo \in [Tracks -> Seq(Actions(W))],
           \A t \in Tracks : Ascending(p.undo[t]), NEW cut \in Nat
    PROVE  On(KeptFrom(p, cut)) = {y \in On(p.undo) : ~(y[2].sequence < cut)}
  <1> DEFINE X == p.undo
             Y == KeptFrom(p, cut)
  <1>1. \A t \in Tracks : Y[t] = DropOlder(X[t], cut)
    BY DEF KeptFrom
  <1>2. X \in [Tracks -> Seq(Actions(W))] /\ \A t \in Tracks : Ascending(X[t])
    OBVIOUS
  <1> HIDE DEF X, Y
  <1>3. ASSUME NEW t \in Tracks
        PROVE  \E k \in 0 .. Len(X[t]) :
                  /\ Len(X[t]) \in Nat /\ DOMAIN X[t] = 1 .. Len(X[t])
                  /\ DOMAIN Y[t] = 1 .. (Len(X[t]) - k)
                  /\ \A j \in 1 .. (Len(X[t]) - k) : Y[t][j] = X[t][j + k]
                  /\ \A i \in 1 .. Len(X[t]) : X[t][i].sequence < cut <=> i <= k
    <2> DEFINE s == X[t]
               n == Len(s)
    <2>1. s \in Seq(Actions(W)) /\ Ascending(s)
      BY <1>2
    <2> HIDE DEF s
    <2>2. n \in Nat /\ DOMAIN s = 1 .. n
      BY <2>1
    <2>3. PICK k \in 0 .. n :
              /\ DropOlder(s, cut) = SubSeq(s, k + 1, n)
              /\ \A i \in 1 .. n : s[i].sequence < cut <=> i <= k
      BY <2>1, OlderFirst
    <2>4. /\ DOMAIN SubSeq(s, k + 1, n) = 1 .. (n - k)
          /\ \A j \in 1 .. (n - k) : SubSeq(s, k + 1, n)[j] = s[j + k]
      <3>1. k + 1 \in 1 .. (n + 1)
        BY <2>2
      <3>2. /\ Len(SubSeq(s, k + 1, n)) = n - k /\ SubSeq(s, k + 1, n) \in Seq(Actions(W))
            /\ \A j \in 1 .. (n - k) : SubSeq(s, k + 1, n)[j] = s[k + 1 + j - 1]
        <4>1. \A i \in (k + 1) .. n : s[i] \in Actions(W)
          BY <2>1, <2>2, <3>1
        <4>2. SubSeq(s, k + 1, n) \in Seq(Actions(W))
          BY <2>2, <3>1, <4>1, SubSeqProperties
        <4>3. Len(SubSeq(s, k + 1, n)) = IF k + 1 <= n THEN n - (k + 1) + 1 ELSE 0
          BY <2>2, <3>1, <4>1, SubSeqProperties
        <4>4. \A i \in 1 .. (n - (k + 1) + 1) : SubSeq(s, k + 1, n)[i] = s[k + 1 + i - 1]
          BY <2>2, <3>1, <4>1, SubSeqProperties
        <4> HIDE DEF n
        <4>6. k \in Nat /\ k <= n
          BY <2>2
        <4>5. n - (k + 1) + 1 = n - k /\ (~(k + 1 <= n) => n - k = 0)
          BY <2>2, <4>6
        <4> QED
          BY <4>2, <4>3, <4>4, <4>5
      <3>3. \A j \in 1 .. (n - k) : k + 1 + j - 1 = j + k
        BY <2>2
      <3> QED
        BY <3>2, <3>3
    <2>5. Y[t] = DropOlder(s, cut)
      BY <1>1 DEF s
    <2> QED
      BY <2>2, <2>3, <2>4, <2>5 DEF s
  <1>4. ASSUME NEW y \in On(Y)
        PROVE  y \in On(X) /\ ~(y[2].sequence < cut)
    <2>1. PICK u, j : u \in Tracks /\ j \in DOMAIN Y[u] /\ y = <<u, Y[u][j]>>
      BY <1>4, OnIs
    <2>2. PICK k \in 0 .. Len(X[u]) :
                  /\ Len(X[u]) \in Nat /\ DOMAIN X[u] = 1 .. Len(X[u])
                  /\ DOMAIN Y[u] = 1 .. (Len(X[u]) - k)
                  /\ \A i \in 1 .. (Len(X[u]) - k) : Y[u][i] = X[u][i + k]
                  /\ \A i \in 1 .. Len(X[u]) : X[u][i].sequence < cut <=> i <= k
      BY <1>3, <2>1
    <2>3. j + k \in 1 .. Len(X[u]) /\ ~(j + k <= k) /\ Y[u][j] = X[u][j + k]
      BY <2>1, <2>2
    <2>4. y = <<u, X[u][j + k]>> /\ ~(X[u][j + k].sequence < cut) /\ j + k \in DOMAIN X[u]
      BY <2>1, <2>2, <2>3
    <2> QED
      BY <2>1, <2>4, OnIs
  <1>5. ASSUME NEW y \in On(X), ~(y[2].sequence < cut)
        PROVE  y \in On(Y)
    <2>1. PICK u, i : u \in Tracks /\ i \in DOMAIN X[u] /\ y = <<u, X[u][i]>>
      BY OnIs
    <2>2. PICK k \in 0 .. Len(X[u]) :
                  /\ Len(X[u]) \in Nat /\ DOMAIN X[u] = 1 .. Len(X[u])
                  /\ DOMAIN Y[u] = 1 .. (Len(X[u]) - k)
                  /\ \A j \in 1 .. (Len(X[u]) - k) : Y[u][j] = X[u][j + k]
                  /\ \A j \in 1 .. Len(X[u]) : X[u][j].sequence < cut <=> j <= k
      BY <1>3, <2>1
    <2>3. ~(i <= k) /\ i \in 1 .. Len(X[u])
      BY <1>5, <2>1, <2>2
    <2>4. i - k \in 1 .. (Len(X[u]) - k) /\ (i - k) + k = i
      BY <2>2, <2>3
    <2>5. i - k \in DOMAIN Y[u] /\ Y[u][i - k] = X[u][i]
      BY <2>2, <2>4
    <2> QED
      BY <2>1, <2>5, OnIs
  <1> QED
    BY <1>4, <1>5 DEF X, Y

\* Recording: the new action, behind it the newest of those that could be undone.
LEMMA RecordedOn ==
    ASSUME NEW W, NEW h, StacksTyped(h, W), Chronological(h),
           NEW t \in Tracks, NEW size \in Nat, NEW what \in W
    PROVE  LET x == <<t, NewAction(h, size, what)>>
               r == Recorded(h, t, size, what)
           IN  /\ On(r.redo) = {} /\ x \in On(r.undo) /\ On(r.undo) \subseteq On(h.undo) \cup {x}
               /\ \A y \in On(h.undo) : y[2].sequence < x[2].sequence
               /\ \A y \in On(r.undo), z \in On(h.undo) :
                     y[2].sequence <= z[2].sequence => z \in On(r.undo)
  <1> DEFINE a == NewAction(h, size, what)
             x == <<t, a>>
             p == Pushed(ClearRedo(h), t, size, what)
             r == Recorded(h, t, size, what)
             X == h.undo
  <1>1. X \in [Tracks -> Seq(Actions(W))] /\ h.next \in Nat
    BY DEF StacksTyped
  <1>2. /\ a \in Actions(W) /\ a.sequence = h.next /\ HistoryRecord(p) /\ p.redo = NoStacks
        /\ p.next = h.next + 1 /\ p.undo = [u \in Tracks |-> p.undo[u]]
        /\ p.undo[t] = Append(X[t], a)
        /\ \A u \in Tracks \ {t} : p.undo[u] = X[u]
        /\ \A u \in Tracks : p.undo[u] \in Seq(Actions(W))
    BY PushedShape
  <1>3. p.undo \in [Tracks -> Seq(Actions(W))] /\ NewestAt(p.undo, t, h.next)
    BY PushedNewestAt
  <1>4. r = EnforceBudget(p)
    BY DEF Recorded
  <1>5. \A u \in Tracks : Ascending(X[u]) /\ Below(X[u], h.next)
    BY DEF Chronological, OrderedStacks, UndoBeforeRedo
  <1> HIDE DEF a, p, r, X
  <1>6. p.undo = Longer(X, t, a)
    BY <1>1, <1>2 DEF Longer
  <1>7. On(p.undo) = On(X) \cup {x}
    BY <1>1, <1>2, <1>6, OnAppend
  <1>8. \A u \in Tracks : Ascending(p.undo[u])
    <2>1. Ascending(p.undo[t])
      <3>1. X[t] \in Seq(Actions(W)) /\ Below(X[t], a.sequence) /\ Ascending(X[t])
        BY <1>1, <1>2, <1>5
      <3>2. Ascending(Append(X[t], a))
        BY <1>2, <3>1, AppendAscending
      <3> QED
        BY <1>2, <3>2
    <2> QED
      BY <1>2, <1>5, <2>1
  <1>9. ASSUME NEW y \in On(X)
        PROVE  y[2].sequence < a.sequence /\ y[2].sequence \in Nat
    <2>1. PICK u, i : u \in Tracks /\ i \in DOMAIN X[u] /\ y = <<u, X[u][i]>>
      BY <1>9, OnIs
    <2>2. X[u] \in Seq(Actions(W))
      BY <1>1, <2>1
    <2>3. X[u][i].sequence \in Nat
      BY <2>1, <2>2, ActionsTyped
    <2> QED
      BY <1>2, <1>5, <2>1, <2>3 DEF Below
  <1>10. x[2] = a /\ a.sequence \in Nat
    BY <1>1, <1>2
  <1> HIDE DEF x
  <1>11. CASE r = p
    <2>1. On(r.undo) = On(X) \cup {x} /\ On(r.redo) = {}
      BY <1>2, <1>7, <1>11, OnNone
    <2> QED
      BY <1>9, <1>10, <2>1 DEF x, a, r, X
  <1>12. CASE r # p
    <2>1. \/ /\ r = p
             /\ r.bytes <= HistoryBudget \/ ActionCount(r) <= 1
          \/ \E cut \in Nat :
                      /\ cut <= h.next
                      /\ \/ ActionBytes(KeptFrom(p, cut)) <= HistoryBudget
                         \/ cut = h.next
                      /\ HistoryRecord(r)
                      /\ r.redo = p.redo
                      /\ r.undo = KeptFrom(p, cut)
                      /\ r.bytes = p.bytes - (ActionBytes(p.undo) - ActionBytes(KeptFrom(p, cut)))
      BY <1>1, <1>2, <1>3, <1>4, EnforcedCut, ZenonT(60)
    <2>2. PICK cut \in Nat : cut <= h.next /\ r.redo = p.redo /\ r.undo = KeptFrom(p, cut)
      BY <1>12, <2>1
    <2>3. On(r.undo) = {y \in On(p.undo) : ~(y[2].sequence < cut)}
      BY <1>3, <1>8, <2>2, KeptOn
    <2>4. On(r.redo) = {}
      BY <1>2, <2>2, OnNone
    <2>5. x \in On(r.undo)
      BY <1>1, <1>2, <1>7, <1>10, <2>2, <2>3
    <2>6. ASSUME NEW y \in On(r.undo), NEW z \in On(X), y[2].sequence <= z[2].sequence
          PROVE  z \in On(r.undo)
      <3>1. ~(y[2].sequence < cut) /\ y[2].sequence \in Nat /\ z[2].sequence \in Nat
        BY <1>7, <1>9, <1>10, <2>3
      <3>2. ~(z[2].sequence < cut)
        BY <2>6, <3>1
      <3> QED
        BY <1>7, <2>3, <3>2
    <2> QED
      BY <1>7, <1>9, <1>10, <2>3, <2>4, <2>5, <2>6 DEF x, a, r, X
  <1> QED
    BY <1>11, <1>12

\* Each action leads from one state to another, and these states are strung together:
\* the newest action that can be undone ends at A, the oldest that can be redone begins
\* there, and of two neighbours the one ends where the other begins.
No(y) == y[2].sequence
Neighbours(P, m, n) ==
    m \in P /\ n \in P /\ No(m) < No(n) /\ \A k \in P : ~(No(m) < No(k) /\ No(k) < No(n))
Strung(P, B, F) == \A m, n \in P : Neighbours(P, m, n) => F[No(m)] = B[No(n)]
Line(P, Q, A, B, F) ==
    /\ Strung(P, B, F) /\ Strung(Q, B, F)
    /\ \A m \in P : (\A k \in P : ~(No(m) < No(k))) => F[No(m)] = A
    /\ \A n \in Q : (\A k \in Q : ~(No(k) < No(n))) => B[No(n)] = A
Numbered(P) == \A y \in P : No(y) \in Nat

\* Undoing the newest action leads to where it began.
LEMMA UndoLine ==
    ASSUME NEW P, NEW Q, Numbered(P), Numbered(Q), NEW A, NEW B, NEW F, Line(P, Q, A, B, F),
           NEW x, NEW P1, NEW Q1, Moves(P, Q, x, P1, Q1),
           \A y \in P : y = x \/ No(y) < No(x), \A y \in Q : No(x) < No(y)
    PROVE  F[No(x)] = A /\ Line(P1, Q1, B[No(x)], B, F)
  <1>1. /\ x \in P /\ P1 = P \ {x} /\ Q1 = Q \cup {x}
        /\ \A y \in P : No(y) \in Nat
        /\ \A y \in Q : No(y) \in Nat
    BY DEF Moves, Numbered
  <1>2. F[No(x)] = A
    BY <1>1 DEF Line
  <1>3. Strung(P1, B, F)
    <2>1. ASSUME NEW m \in P1, NEW n \in P1, Neighbours(P1, m, n)
          PROVE  Neighbours(P, m, n)
      BY <1>1, <2>1 DEF Neighbours
    <2> QED
      BY <1>1, <2>1 DEF Line, Strung
  <1>4. Strung(Q1, B, F)
    <2>1. ASSUME NEW m \in Q1, NEW n \in Q1, Neighbours(Q1, m, n)
          PROVE  F[No(m)] = B[No(n)]
      <3>1. n \in Q
        BY <1>1, <2>1 DEF Neighbours
      <3>2. CASE m = x
        <4>1. \A k \in Q : ~(No(k) < No(n))
          BY <1>1, <2>1, <3>2 DEF Neighbours
        <4> QED
          BY <1>2, <3>1, <3>2, <4>1 DEF Line
      <3>3. CASE m # x
        <4>1. Neighbours(Q, m, n)
          BY <1>1, <2>1, <3>1, <3>3 DEF Neighbours
        <4> QED
          BY <1>1, <3>1, <3>3, <4>1 DEF Line, Strung
      <3> QED
        BY <3>2, <3>3
    <2> QED
      BY <2>1 DEF Strung
  <1>5. ASSUME NEW m \in P1, \A k \in P1 : ~(No(m) < No(k))
        PROVE  F[No(m)] = B[No(x)]
    <2>1. Neighbours(P, m, x)
      BY <1>1, <1>5 DEF Neighbours
    <2> QED
      BY <1>1, <2>1 DEF Line, Strung
  <1>6. ASSUME NEW n \in Q1, \A k \in Q1 : ~(No(k) < No(n))
        PROVE  B[No(n)] = B[No(x)]
    <2>1. n = x
      BY <1>1, <1>6
    <2> QED
      BY <2>1
  <1> QED
    BY <1>2, <1>3, <1>4, <1>5, <1>6 DEF Line

\* Redoing the oldest one leads to where it ended.
LEMMA RedoLine ==
    ASSUME NEW P, NEW Q, Numbered(P), Numbered(Q), NEW A, NEW B, NEW F, Line(P, Q, A, B, F),
           NEW x, NEW P1, NEW Q1, Moves(Q, P, x, Q1, P1),
           \A y \in Q : y = x \/ No(x) < No(y), \A y \in P : No(y) < No(x)
    PROVE  B[No(x)] = A /\ Line(P1, Q1, F[No(x)], B, F)
  <1>1. /\ x \in Q /\ Q1 = Q \ {x} /\ P1 = P \cup {x}
        /\ \A y \in P : No(y) \in Nat
        /\ \A y \in Q : No(y) \in Nat
    BY DEF Moves, Numbered
  <1>2. B[No(x)] = A
    BY <1>1 DEF Line
  <1>3. Strung(Q1, B, F)
    <2>1. ASSUME NEW m \in Q1, NEW n \in Q1, Neighbours(Q1, m, n)
          PROVE  Neighbours(Q, m, n)
      BY <1>1, <2>1 DEF Neighbours
    <2> QED
      BY <1>1, <2>1 DEF Line, Strung
  <1>4. Strung(P1, B, F)
    <2>1. ASSUME NEW m \in P1, NEW n \in P1, Neighbours(P1, m, n)
          PROVE  F[No(m)] = B[No(n)]
      <3>1. m \in P
        BY <1>1, <2>1 DEF Neighbours
      <3>2. CASE n = x
        <4>1. \A k \in P : ~(No(m) < No(k))
          BY <1>1, <2>1, <3>2 DEF Neighbours
        <4> QED
          BY <1>2, <3>1, <3>2, <4>1 DEF Line
      <3>3. CASE n # x
        <4>1. Neighbours(P, m, n)
          BY <1>1, <2>1, <3>1, <3>3 DEF Neighbours
        <4> QED
          BY <1>1, <3>1, <3>3, <4>1 DEF Line, Strung
      <3> QED
        BY <3>2, <3>3
    <2> QED
      BY <2>1 DEF Strung
  <1>5. ASSUME NEW n \in Q1, \A k \in Q1 : ~(No(k) < No(n))
        PROVE  B[No(n)] = F[No(x)]
    <2>1. Neighbours(Q, x, n)
      BY <1>1, <1>5 DEF Neighbours
    <2> QED
      BY <1>1, <2>1 DEF Line, Strung
  <1>6. ASSUME NEW m \in P1, \A k \in P1 : ~(No(m) < No(k))
        PROVE  F[No(m)] = F[No(x)]
    <2>1. m = x
      BY <1>1, <1>6
    <2> QED
      BY <2>1
  <1> QED
    BY <1>2, <1>3, <1>4, <1>5, <1>6 DEF Line

\* A new action begins where the line ended, and what could be redone is gone.
LEMMA RecordLine ==
    ASSUME NEW P, NEW Q, Numbered(P), NEW A, NEW B, NEW F, Line(P, Q, A, B, F),
           NEW x, No(x) \in Nat, \A y \in P : No(y) < No(x),
           NEW P1, x \in P1, P1 \subseteq P \cup {x},
           \A y \in P1, z \in P : No(y) <= No(z) => z \in P1,
           NEW A1, NEW B1, NEW F1, B1[No(x)] = A, F1[No(x)] = A1,
           \A y \in P : B1[No(y)] = B[No(y)] /\ F1[No(y)] = F[No(y)]
    PROVE  Line(P1, {}, A1, B1, F1)
  <1>1. \A y \in P : No(y) \in Nat
    BY DEF Numbered
  <1>2. ASSUME NEW m \in P1, NEW n \in P1, Neighbours(P1, m, n)
        PROVE  F1[No(m)] = B1[No(n)]
    <2>1. No(m) < No(n) /\ \A k \in P1 : ~(No(m) < No(k) /\ No(k) < No(n))
      BY <1>2 DEF Neighbours
    <2>2. m \in P
      <3>1. CASE m = x
        <4>1. n = x \/ n \in P
          OBVIOUS
        <4> QED
          BY <1>1, <2>1, <3>1, <4>1
      <3> QED
        BY <3>1
    <2>3. CASE n = x
      <3>1. \A k \in P : ~(No(m) < No(k))
        <4>1. ASSUME NEW k \in P, No(m) < No(k)
              PROVE  FALSE
          <5>1. k \in P1
            BY <1>1, <2>2, <4>1
          <5> QED
            BY <2>1, <2>3, <4>1, <5>1
        <4> QED
          BY <4>1
      <3>2. F[No(m)] = A
        BY <2>2, <3>1 DEF Line
      <3> QED
        BY <2>2, <2>3, <3>2
    <2>4. CASE n # x
      <3>1. n \in P
        BY <2>4
      <3>2. \A k \in P : ~(No(m) < No(k) /\ No(k) < No(n))
        <4>1. ASSUME NEW k \in P, No(m) < No(k)
              PROVE  k \in P1
          BY <1>1, <2>2, <4>1
        <4> QED
          BY <2>1, <4>1
      <3>3. F[No(m)] = B[No(n)]
        BY <2>1, <2>2, <3>1, <3>2 DEF Line, Strung, Neighbours
      <3> QED
        BY <2>2, <3>1, <3>3
    <2> QED
      BY <2>3, <2>4
  <1>3. ASSUME NEW m \in P1, \A k \in P1 : ~(No(m) < No(k))
        PROVE  F1[No(m)] = A1
    <2>1. m = x
      BY <1>1, <1>3
    <2> QED
      BY <2>1
  <1> QED
    BY <1>2, <1>3 DEF Line, Strung

\* Nothing is strung to nothing.
LEMMA EmptyLine == \A A, B, F : Line({}, {}, A, B, F)
  BY DEF Line, Strung

\* The numbers of actions.
LEMMA OnNumbered ==
    ASSUME NEW W, NEW X \in [Tracks -> Seq(Actions(W))]
    PROVE  Numbered(On(X)) /\ \A y \in On(X) : y[1] \in Tracks /\ y[2] \in Actions(W)
  <1>1. ASSUME NEW y \in On(X)
        PROVE  No(y) \in Nat /\ y[1] \in Tracks /\ y[2] \in Actions(W)
    <2>1. PICK u, i : u \in Tracks /\ i \in DOMAIN X[u] /\ y = <<u, X[u][i]>>
      BY <1>1, OnIs
    <2>2. X[u] \in Seq(Actions(W))
      BY <2>1
    <2>3. X[u][i].sequence \in Nat /\ X[u][i] \in Actions(W)
      BY <2>1, <2>2, ActionsTyped
    <2> QED
      BY <2>1, <2>3 DEF No
  <1> QED
    BY <1>1 DEF Numbered

\* What a history of some actions may hold, one of more actions may hold.
LEMMA MoreActions ==
    ASSUME NEW W, NEW h, StacksTyped(h, W), NEW V, W \subseteq V
    PROVE  StacksTyped(h, V)
  <1>1. Actions(W) \subseteq Actions(V)
    BY DEF Actions
  <1>2. Seq(Actions(W)) \subseteq Seq(Actions(V))
    BY <1>1
  <1>3. h.undo \in [Tracks -> Seq(Actions(V))] /\ h.redo \in [Tracks -> Seq(Actions(V))]
    BY <1>2 DEF StacksTyped
  <1> QED
    BY <1>3 DEF StacksTyped

-----------------------------------------------------------------------------
\* The numbers of the actions of some deques, and how many actions they hold.
Numbers(X) == {No(y) : y \in On(X)}
HeldActions(X) == SumFunction([t \in Tracks |-> Len(X[t])])
Distinct(X) ==
    \A t, u \in Tracks : \A i \in DOMAIN X[t], j \in DOMAIN X[u] :
        X[t][i].sequence = X[u][j].sequence => t = u /\ i = j

\* A number is that of an action of some deque.
LEMMA NumbersAre ==
    ASSUME NEW X
    PROVE  \A k : k \in Numbers(X) <=> \E t \in Tracks : \E i \in DOMAIN X[t] : k = X[t][i].sequence
  <1>1. ASSUME NEW t \in Tracks, NEW i \in DOMAIN X[t]
        PROVE  X[t][i].sequence \in Numbers(X)
    <2>1. <<t, X[t][i]>> \in On(X) /\ No(<<t, X[t][i]>>) = X[t][i].sequence
      BY OnIs DEF No
    <2> QED
      BY <2>1 DEF Numbers
  <1>2. ASSUME NEW k \in Numbers(X)
        PROVE  \E t \in Tracks : \E i \in DOMAIN X[t] : k = X[t][i].sequence
    <2>1. PICK y \in On(X) : k = No(y)
      BY <1>2 DEF Numbers
    <2>2. PICK t \in Tracks : \E i \in DOMAIN X[t] : y = <<t, X[t][i]>>
      BY <2>1, OnIs
    <2>3. PICK i \in DOMAIN X[t] : y = <<t, X[t][i]>>
      BY <2>2
    <2> QED
      BY <2>1, <2>3 DEF No
  <1> QED
    BY <1>1, <1>2

\* The actions of a chronological history have numbers of their own.
LEMMA NumbersDistinct ==
    ASSUME NEW W, NEW h, StacksTyped(h, W), Chronological(h)
    PROVE  /\ Distinct(h.undo) /\ Distinct(h.redo)
           /\ Numbers(h.undo) \in SUBSET Nat /\ Numbers(h.redo) \in SUBSET Nat
           /\ \A k \in Numbers(h.undo) : k < h.next
           /\ \A k \in Numbers(h.redo) : k < h.next
           /\ \A k \in Numbers(h.undo), z \in Numbers(h.redo) : k < z
  <1>1. h.undo \in [Tracks -> Seq(Actions(W))] /\ h.redo \in [Tracks -> Seq(Actions(W))]
    BY DEF StacksTyped
  <1>2. \A t \in Tracks : /\ Ascending(h.undo[t]) /\ Descending(h.redo[t])
                          /\ Below(h.undo[t], h.next) /\ Below(h.redo[t], h.next)
    BY DEF Chronological, OrderedStacks, UndoBeforeRedo
  <1>3. \A t, u \in Tracks : /\ t # u => /\ Apart(h.undo[t], h.undo[u])
                                         /\ Apart(h.redo[t], h.redo[u])
                             /\ Before(h.undo[t], h.redo[u])
    BY DEF Chronological, NumbersUnique, UndoBeforeRedo
  <1>4. \A t \in Tracks : /\ Len(h.undo[t]) \in Nat /\ DOMAIN h.undo[t] = 1 .. Len(h.undo[t])
                          /\ \A i \in DOMAIN h.undo[t] : h.undo[t][i].sequence \in Nat
    BY <1>1, ActionsTyped
  <1>5. \A t \in Tracks : /\ Len(h.redo[t]) \in Nat /\ DOMAIN h.redo[t] = 1 .. Len(h.redo[t])
                          /\ \A i \in DOMAIN h.redo[t] : h.redo[t][i].sequence \in Nat
    BY <1>1, ActionsTyped
  <1>6. Distinct(h.undo)
    <2> SUFFICES ASSUME NEW t \in Tracks, NEW u \in Tracks,
                        NEW i \in DOMAIN h.undo[t], NEW j \in DOMAIN h.undo[u],
                        h.undo[t][i].sequence = h.undo[u][j].sequence
                 PROVE  t = u /\ i = j
      BY DEF Distinct
    <2>1. t = u
      BY <1>3 DEF Apart
    <2>2. /\ i < j => h.undo[t][i].sequence < h.undo[t][j].sequence
          /\ j < i => h.undo[t][j].sequence < h.undo[t][i].sequence
      BY <1>2, <2>1 DEF Ascending
    <2> QED
      BY <1>4, <2>1, <2>2
  <1>7. Distinct(h.redo)
    <2> SUFFICES ASSUME NEW t \in Tracks, NEW u \in Tracks,
                        NEW i \in DOMAIN h.redo[t], NEW j \in DOMAIN h.redo[u],
                        h.redo[t][i].sequence = h.redo[u][j].sequence
                 PROVE  t = u /\ i = j
      BY DEF Distinct
    <2>1. t = u
      BY <1>3 DEF Apart
    <2>2. /\ i < j => h.redo[t][i].sequence > h.redo[t][j].sequence
          /\ j < i => h.redo[t][j].sequence > h.redo[t][i].sequence
      BY <1>2, <2>1 DEF Descending
    <2> QED
      BY <1>5, <2>1, <2>2
  <1>8. ASSUME NEW k \in Numbers(h.undo)
        PROVE  k \in Nat /\ k < h.next /\ \A z \in Numbers(h.redo) : k < z
    <2>1. PICK t \in Tracks : \E i \in DOMAIN h.undo[t] : k = h.undo[t][i].sequence
      BY <1>8, NumbersAre
    <2>2. PICK i \in DOMAIN h.undo[t] : k = h.undo[t][i].sequence
      BY <2>1
    <2>3. k \in Nat /\ k < h.next
      BY <1>2, <1>4, <2>2 DEF Below
    <2>4. ASSUME NEW z \in Numbers(h.redo)
          PROVE  k < z
      <3>1. PICK u \in Tracks : \E j \in DOMAIN h.redo[u] : z = h.redo[u][j].sequence
        BY <2>4, NumbersAre
      <3>2. PICK j \in DOMAIN h.redo[u] : z = h.redo[u][j].sequence
        BY <3>1
      <3> QED
        BY <1>3, <2>2, <3>2 DEF Before
    <2> QED
      BY <2>3, <2>4
  <1>9. ASSUME NEW k \in Numbers(h.redo)
        PROVE  k \in Nat /\ k < h.next
    <2>1. PICK t \in Tracks : \E i \in DOMAIN h.redo[t] : k = h.redo[t][i].sequence
      BY <1>9, NumbersAre
    <2>2. PICK i \in DOMAIN h.redo[t] : k = h.redo[t][i].sequence
      BY <2>1
    <2> QED
      BY <1>2, <1>5, <2>2 DEF Below
  <1> QED
    BY <1>6, <1>7, <1>8, <1>9

\* Deques hold one action more when one gains one.
LEMMA HeldLonger ==
    ASSUME NEW W, NEW X \in [Tracks -> Seq(Actions(W))], NEW t \in Tracks, NEW a \in Actions(W)
    PROVE  HeldActions(X) \in Nat /\ HeldActions(Longer(X, t, a)) = HeldActions(X) + 1
  <1> DEFINE Y == Longer(X, t, a)
             f == [u \in Tracks |-> Len(X[u])]
             g == [u \in Tracks |-> Len(Y[u])]
  <1>1. HeldActions(X) = SumFunctionOnSet(f, Tracks) /\ HeldActions(Y) = SumFunctionOnSet(g, Tracks)
    BY DEF HeldActions, SumFunction
  <1>2. \A u \in Tracks : f[u] \in Nat
    BY LongerLen
  <1>3. \A u \in Tracks : g[u] = IF u = t THEN f[u] + 1 ELSE f[u]
    BY LongerLen
  <1> HIDE DEF f, g, Y
  <1>4. SumFunctionOnSet(g, Tracks) = SumFunctionOnSet(f, Tracks) + 1
    BY <1>2, <1>3, SumRaised, TracksAssumption
  <1>5. SumFunctionOnSet(f, Tracks) \in Nat
    BY <1>2, SumIsNat, TracksAssumption
  <1> QED
    BY <1>1, <1>4, <1>5 DEF Y

\* Taking the action at the back of one deque takes its number.
LEMMA ShorterNumbers ==
    ASSUME NEW W, NEW X \in [Tracks -> Seq(Actions(W))], Distinct(X), NEW t \in Tracks, X[t] # <<>>
    PROVE  LET a == Last(X[t])
               Y == Shorter(X, t)
           IN  /\ a \in Actions(W) /\ X = Longer(Y, t, a)
               /\ Y \in [Tracks -> Seq(Actions(W))] /\ Distinct(Y)
               /\ a.sequence \in Numbers(X) /\ Numbers(Y) = Numbers(X) \ {a.sequence}
  <1> DEFINE a == Last(X[t])
             Y == Shorter(X, t)
             n == Len(X[t])
  <1>1. /\ Front(X[t]) \in Seq(Actions(W)) /\ a \in Actions(W) /\ n \in DOMAIN X[t] /\ a = X[t][n]
        /\ X[t] = Append(Front(X[t]), a)
        /\ \A i \in DOMAIN Front(X[t]) : i \in DOMAIN X[t] /\ i < n /\ Front(X[t])[i] = X[t][i]
        /\ \A i \in DOMAIN X[t] : i = n \/ (i < n /\ i \in DOMAIN Front(X[t]))
    BY FrontOrdered
  <1>2. Y[t] = Front(X[t]) /\ \A u \in Tracks \ {t} : Y[u] = X[u]
    BY DEF Shorter
  <1>3. Y \in [Tracks -> Seq(Actions(W))]
    BY <1>1 DEF Shorter
  <1>4. X = Longer(Y, t, a)
    BY <1>1, <1>2, <1>3 DEF Longer, Shorter
  <1>5. n \in Nat
    BY <1>1
  <1> HIDE DEF a, Y, n
  <1>6. \A u \in Tracks : \A i \in DOMAIN Y[u] : i \in DOMAIN X[u] /\ Y[u][i] = X[u][i]
    BY <1>1, <1>2
  <1>7. Distinct(Y)
    BY <1>6 DEF Distinct
  <1>8. a.sequence \in Numbers(X)
    BY <1>1, NumbersAre
  <1>9. \A u \in Tracks : \A i \in DOMAIN X[u] : X[u][i].sequence # a.sequence => i \in DOMAIN Y[u]
    BY <1>1, <1>2
  <1>10. \A u \in Tracks : \A i \in DOMAIN Y[u] : Y[u][i].sequence # a.sequence
    <2> SUFFICES ASSUME NEW u \in Tracks, NEW i \in DOMAIN Y[u], Y[u][i].sequence = a.sequence
                 PROVE  FALSE
      OBVIOUS
    <2>1. u = t /\ i = n
      BY <1>1, <1>6 DEF Distinct
    <2> QED
      BY <1>1, <1>2, <1>5, <2>1
  <1>11. Numbers(Y) = Numbers(X) \ {a.sequence}
    <2>1. ASSUME NEW k \in Numbers(Y)
          PROVE  k \in Numbers(X) /\ k # a.sequence
      <3>1. PICK u \in Tracks : \E i \in DOMAIN Y[u] : k = Y[u][i].sequence
        BY <2>1, NumbersAre
      <3>2. PICK i \in DOMAIN Y[u] : k = Y[u][i].sequence
        BY <3>1
      <3>3. i \in DOMAIN X[u] /\ k = X[u][i].sequence /\ k # a.sequence
        BY <1>6, <1>10, <3>2
      <3> QED
        BY <3>3, NumbersAre
    <2>2. ASSUME NEW k \in Numbers(X), k # a.sequence
          PROVE  k \in Numbers(Y)
      <3>1. PICK u \in Tracks : \E i \in DOMAIN X[u] : k = X[u][i].sequence
        BY <2>2, NumbersAre
      <3>2. PICK i \in DOMAIN X[u] : k = X[u][i].sequence
        BY <3>1
      <3>3. i \in DOMAIN Y[u] /\ k = Y[u][i].sequence
        BY <1>6, <1>9, <2>2, <3>2
      <3> QED
        BY <3>3, NumbersAre
    <2> QED
      BY <2>1, <2>2
  <1> QED
    BY <1>1, <1>3, <1>4, <1>7, <1>8, <1>11 DEF a, Y

\* Deques without actions have no numbers.
LEMMA NumbersNone ==
    ASSUME NEW X, \A t \in Tracks : X[t] = <<>>
    PROVE  HeldActions(X) = 0 /\ Numbers(X) = {}
  <1> DEFINE f == [u \in Tracks |-> Len(X[u])]
  <1>1. HeldActions(X) = SumFunctionOnSet(f, Tracks)
    BY DEF HeldActions, SumFunction
  <1>2. \A u \in Tracks : f[u] = 0
    OBVIOUS
  <1> HIDE DEF f
  <1>3. SumFunctionOnSet(f, Tracks) = 0
    BY <1>2, SumZero, TracksAssumption
  <1>4. Numbers(X) = {}
    <2>1. ASSUME NEW k \in Numbers(X)
          PROVE  FALSE
      <3>1. PICK u \in Tracks : \E i \in DOMAIN X[u] : k = X[u][i].sequence
        BY <2>1, NumbersAre
      <3>2. X[u] = <<>>
        BY <3>1
      <3>3. DOMAIN X[u] = {}
        BY <3>2
      <3>4. DOMAIN X[u] # {}
        BY <3>1
      <3> QED
        BY <3>3, <3>4
    <2> QED
      BY <2>1
  <1> QED
    BY <1>1, <1>3, <1>4

\* There are as many numbers as actions.
LEMMA NumbersCounted ==
    ASSUME NEW W, NEW X \in [Tracks -> Seq(Actions(W))], Distinct(X)
    PROVE  /\ IsFiniteSet(Numbers(X)) /\ HeldActions(X) \in Nat
           /\ HeldActions(X) = Cardinality(Numbers(X))
  <1> DEFINE Fine(Y) == IsFiniteSet(Numbers(Y)) /\ HeldActions(Y) = Cardinality(Numbers(Y))
             I == {n \in Nat : \A Y \in [Tracks -> Seq(Actions(W))] :
                                  Distinct(Y) /\ HeldActions(Y) = n => Fine(Y)}
  <1>1. ASSUME NEW Y \in [Tracks -> Seq(Actions(W))], Distinct(Y),
               \A t \in Tracks : Y[t] = <<>>
        PROVE  Fine(Y) /\ HeldActions(Y) = 0
    BY <1>1, NumbersNone, FS_EmptySet
  <1>2. ASSUME NEW Y \in [Tracks -> Seq(Actions(W))], Distinct(Y), NEW t \in Tracks, Y[t] # <<>>
        PROVE  \E Z \in [Tracks -> Seq(Actions(W))] :
                  /\ Distinct(Z) /\ HeldActions(Z) \in Nat /\ HeldActions(Y) = HeldActions(Z) + 1
                  /\ Fine(Z) => Fine(Y)
    <2> DEFINE Z == Shorter(Y, t)
               a == Last(Y[t])
    <2>1. /\ a \in Actions(W) /\ Y = Longer(Z, t, a)
          /\ Z \in [Tracks -> Seq(Actions(W))] /\ Distinct(Z)
          /\ a.sequence \in Numbers(Y) /\ Numbers(Z) = Numbers(Y) \ {a.sequence}
      BY <1>2, ShorterNumbers
    <2> HIDE DEF Z, a
    <2>2. HeldActions(Z) \in Nat /\ HeldActions(Y) = HeldActions(Z) + 1
      <3>1. HeldActions(Z) \in Nat /\ HeldActions(Longer(Z, t, a)) = HeldActions(Z) + 1
        BY <2>1, HeldLonger
      <3> QED
        BY <2>1, <3>1
    <2>3. ASSUME Fine(Z)
          PROVE  Fine(Y)
      <3> DEFINE k == a.sequence
                 K == Numbers(Z)
      <3>1. Numbers(Y) = K \cup {k} /\ k \notin K
        BY <2>1
      <3>2. IsFiniteSet(K) /\ HeldActions(Z) = Cardinality(K)
        BY <2>3
      <3> HIDE DEF k, K
      <3>3. IsFiniteSet(K \cup {k}) /\ Cardinality(K \cup {k}) = Cardinality(K) + 1
        BY <3>1, <3>2, FS_AddElement
      <3> QED
        BY <2>2, <3>1, <3>2, <3>3
    <2> QED
      BY <2>1, <2>2, <2>3
  <1> HIDE DEF Fine
  <1>3. 0 \in I
    <2>1. ASSUME NEW Y \in [Tracks -> Seq(Actions(W))], Distinct(Y), HeldActions(Y) = 0
          PROVE  Fine(Y)
      <3>1. ASSUME NEW t \in Tracks, Y[t] # <<>>
            PROVE  FALSE
        <4>1. PICK Z \in [Tracks -> Seq(Actions(W))] :
                  HeldActions(Z) \in Nat /\ HeldActions(Y) = HeldActions(Z) + 1
          BY <1>2, <2>1, <3>1
        <4> QED
          BY <2>1, <4>1
      <3> QED
        BY <1>1, <2>1, <3>1
    <2> QED
      BY <2>1
  <1>4. ASSUME NEW n \in Nat, n \in I
        PROVE  n + 1 \in I
    <2>1. ASSUME NEW Y \in [Tracks -> Seq(Actions(W))], Distinct(Y), HeldActions(Y) = n + 1
          PROVE  Fine(Y)
      <3>1. CASE \A t \in Tracks : Y[t] = <<>>
        BY <1>1, <2>1, <3>1
      <3>2. ASSUME NEW t \in Tracks, Y[t] # <<>>
            PROVE  Fine(Y)
        <4>1. PICK Z \in [Tracks -> Seq(Actions(W))] :
                  /\ Distinct(Z) /\ HeldActions(Z) \in Nat /\ HeldActions(Y) = HeldActions(Z) + 1
                  /\ Fine(Z) => Fine(Y)
          BY <1>2, <2>1, <3>2
        <4>2. HeldActions(Z) = n
          BY <2>1, <4>1
        <4> QED
          BY <1>4, <4>1, <4>2
      <3> QED
        BY <3>1, <3>2
    <2> QED
      BY <2>1
  <1>5. \A n \in Nat : n \in I
    <2> HIDE DEF I
    <2> QED
      BY <1>3, <1>4, IndexInduction
  <1>6. HeldActions(X) \in Nat
    <2>1. CASE \A t \in Tracks : X[t] = <<>>
      BY <1>1, <2>1
    <2>2. ASSUME NEW t \in Tracks, X[t] # <<>>
          PROVE  HeldActions(X) \in Nat
      <3>1. PICK Z \in [Tracks -> Seq(Actions(W))] :
                  HeldActions(Z) \in Nat /\ HeldActions(X) = HeldActions(Z) + 1
        BY <1>2, <2>2
      <3> QED
        BY <3>1
    <2> QED
      BY <2>1, <2>2
  <1>7. Fine(X)
    BY <1>5, <1>6
  <1> QED
    BY <1>6, <1>7 DEF Fine

\* Undoing takes the greatest number of those that can be undone, and some deque has it.
LEMMA NewestIs ==
    ASSUME NEW W, NEW h, StacksTyped(h, W), Chronological(h),
           NEW x \in Numbers(h.undo), \A k \in Numbers(h.undo) : k <= x
    PROVE  /\ \E t \in Tracks : NewestUndo(h, t)
           /\ \A t \in Tracks : NewestUndo(h, t) =>
                 /\ Last(h.undo[t]).sequence = x
                 /\ Numbers(Undone(h, t).undo) = Numbers(h.undo) \ {x}
                 /\ Numbers(Undone(h, t).redo) = Numbers(h.redo) \cup {x}
  <1>1. h.undo \in [Tracks -> Seq(Actions(W))]
    BY DEF StacksTyped
  <1>2. ASSUME NEW t \in Tracks, h.undo[t] # <<>>
        PROVE  /\ Last(h.undo[t]).sequence \in Numbers(h.undo) /\ Last(h.undo[t]).sequence \in Nat
    <2>1. h.undo[t] \in Seq(Actions(W))
      BY <1>1
    <2>2. Last(h.undo[t]) = h.undo[t][Len(h.undo[t])] /\ Len(h.undo[t]) \in DOMAIN h.undo[t]
      BY <1>2, <2>1, FrontOrdered
    <2>3. h.undo[t][Len(h.undo[t])].sequence \in Nat
      BY <2>1, <2>2, ActionsTyped
    <2> QED
      BY <2>2, <2>3, NumbersAre
  <1>3. PICK t \in Tracks : \E i \in DOMAIN h.undo[t] : x = h.undo[t][i].sequence
    BY NumbersAre
  <1>4. PICK i \in DOMAIN h.undo[t] : x = h.undo[t][i].sequence
    BY <1>3
  <1>5. h.undo[t] # <<>> /\ Last(h.undo[t]).sequence = x
    <2>1. h.undo[t] \in Seq(Actions(W))
      BY <1>1
    <2>2. /\ Len(h.undo[t]) \in Nat /\ DOMAIN h.undo[t] = 1 .. Len(h.undo[t])
          /\ \A j \in DOMAIN h.undo[t] : h.undo[t][j].sequence \in Nat
      BY <2>1, ActionsTyped
    <2>3. h.undo[t] # <<>>
      <3>1. \A j \in DOMAIN <<>> : FALSE
        OBVIOUS
      <3> QED
        BY <3>1
    <2>4. Last(h.undo[t]) = h.undo[t][Len(h.undo[t])] /\ Len(h.undo[t]) \in DOMAIN h.undo[t]
      BY <2>1, <2>3, FrontOrdered
    <2>5. i < Len(h.undo[t]) => x < Last(h.undo[t]).sequence
      <3>1. Ascending(h.undo[t])
        BY DEF Chronological, OrderedStacks
      <3> QED
        BY <1>4, <2>4, <3>1 DEF Ascending
    <2>6. Last(h.undo[t]).sequence <= x /\ Last(h.undo[t]).sequence \in Nat /\ x \in Nat
      BY <1>2, <1>4, <2>2, <2>3
    <2> QED
      BY <1>4, <2>2, <2>3, <2>4, <2>5, <2>6
  <1>6. NewestUndo(h, t)
    BY <1>2, <1>5 DEF NewestUndo
  <1>7. ASSUME NEW u \in Tracks, NewestUndo(h, u)
        PROVE  /\ Last(h.undo[u]).sequence = x
               /\ Numbers(Undone(h, u).undo) = Numbers(h.undo) \ {x}
               /\ Numbers(Undone(h, u).redo) = Numbers(h.redo) \cup {x}
    <2>1. Last(h.undo[u]).sequence = x
      <3>1. h.undo[u] # <<>> /\ Last(h.undo[u]).sequence >= Last(h.undo[t]).sequence
        BY <1>5, <1>7 DEF NewestUndo
      <3>2. Last(h.undo[u]).sequence <= x /\ Last(h.undo[u]).sequence \in Nat /\ x \in Nat
        BY <1>2, <1>5, <3>1
      <3> QED
        BY <1>5, <3>1, <3>2
    <2> DEFINE m == Undone(h, u)
               y == <<u, Last(h.undo[u])>>
    <2>2. /\ Moves(On(h.undo), On(h.redo), y, On(m.undo), On(m.redo))
          /\ \A z \in On(h.undo) : z = y \/ z[2].sequence < y[2].sequence
      BY <1>7, UndoneOn
    <2>3. No(y) = x
      BY <2>1 DEF No
    <2>4. Numbered(On(h.undo))
      BY <1>1, OnNumbered
    <2> HIDE DEF m, y
    <2>5. \A z \in On(h.undo) : z = y \/ No(z) # x
      BY <2>2, <2>3, <2>4 DEF No, Numbered
    <2>6. Numbers(m.undo) = Numbers(h.undo) \ {x} /\ Numbers(m.redo) = Numbers(h.redo) \cup {x}
      BY <2>2, <2>3, <2>5 DEF Moves, Numbers
    <2> QED
      BY <2>1, <2>6 DEF m
  <1> QED
    BY <1>6, <1>7

\* Redoing takes the least number of those that can be taken again.
LEMMA OldestIs ==
    ASSUME NEW W, NEW h, StacksTyped(h, W), Chronological(h),
           NEW x \in Numbers(h.redo), \A k \in Numbers(h.redo) : x <= k
    PROVE  /\ \E t \in Tracks : OldestRedo(h, t)
           /\ \A t \in Tracks : OldestRedo(h, t) =>
                 /\ Last(h.redo[t]).sequence = x
                 /\ Numbers(Redone(h, t).redo) = Numbers(h.redo) \ {x}
                 /\ Numbers(Redone(h, t).undo) = Numbers(h.undo) \cup {x}
  <1>1. h.redo \in [Tracks -> Seq(Actions(W))]
    BY DEF StacksTyped
  <1>2. ASSUME NEW t \in Tracks, h.redo[t] # <<>>
        PROVE  /\ Last(h.redo[t]).sequence \in Numbers(h.redo) /\ Last(h.redo[t]).sequence \in Nat
    <2>1. h.redo[t] \in Seq(Actions(W))
      BY <1>1
    <2>2. Last(h.redo[t]) = h.redo[t][Len(h.redo[t])] /\ Len(h.redo[t]) \in DOMAIN h.redo[t]
      BY <1>2, <2>1, FrontOrdered
    <2>3. h.redo[t][Len(h.redo[t])].sequence \in Nat
      BY <2>1, <2>2, ActionsTyped
    <2> QED
      BY <2>2, <2>3, NumbersAre
  <1>3. PICK t \in Tracks : \E i \in DOMAIN h.redo[t] : x = h.redo[t][i].sequence
    BY NumbersAre
  <1>4. PICK i \in DOMAIN h.redo[t] : x = h.redo[t][i].sequence
    BY <1>3
  <1>5. h.redo[t] # <<>> /\ Last(h.redo[t]).sequence = x
    <2>1. h.redo[t] \in Seq(Actions(W))
      BY <1>1
    <2>2. /\ Len(h.redo[t]) \in Nat /\ DOMAIN h.redo[t] = 1 .. Len(h.redo[t])
          /\ \A j \in DOMAIN h.redo[t] : h.redo[t][j].sequence \in Nat
      BY <2>1, ActionsTyped
    <2>3. h.redo[t] # <<>>
      <3>1. \A j \in DOMAIN <<>> : FALSE
        OBVIOUS
      <3> QED
        BY <3>1
    <2>4. Last(h.redo[t]) = h.redo[t][Len(h.redo[t])] /\ Len(h.redo[t]) \in DOMAIN h.redo[t]
      BY <2>1, <2>3, FrontOrdered
    <2>5. i < Len(h.redo[t]) => x > Last(h.redo[t]).sequence
      <3>1. Descending(h.redo[t])
        BY DEF Chronological, OrderedStacks
      <3> QED
        BY <1>4, <2>4, <3>1 DEF Descending
    <2>6. x <= Last(h.redo[t]).sequence /\ Last(h.redo[t]).sequence \in Nat /\ x \in Nat
      BY <1>2, <1>4, <2>2, <2>3
    <2> QED
      BY <1>4, <2>2, <2>3, <2>4, <2>5, <2>6
  <1>6. OldestRedo(h, t)
    BY <1>2, <1>5 DEF OldestRedo
  <1>7. ASSUME NEW u \in Tracks, OldestRedo(h, u)
        PROVE  /\ Last(h.redo[u]).sequence = x
               /\ Numbers(Redone(h, u).redo) = Numbers(h.redo) \ {x}
               /\ Numbers(Redone(h, u).undo) = Numbers(h.undo) \cup {x}
    <2>1. Last(h.redo[u]).sequence = x
      <3>1. h.redo[u] # <<>> /\ Last(h.redo[u]).sequence <= Last(h.redo[t]).sequence
        BY <1>5, <1>7 DEF OldestRedo
      <3>2. x <= Last(h.redo[u]).sequence /\ Last(h.redo[u]).sequence \in Nat /\ x \in Nat
        BY <1>2, <1>5, <3>1
      <3> QED
        BY <1>5, <3>1, <3>2
    <2> DEFINE m == Redone(h, u)
               y == <<u, Last(h.redo[u])>>
    <2>2. /\ Moves(On(h.redo), On(h.undo), y, On(m.redo), On(m.undo))
          /\ \A z \in On(h.redo) : z = y \/ y[2].sequence < z[2].sequence
      BY <1>7, RedoneOn
    <2>3. No(y) = x
      BY <2>1 DEF No
    <2>4. Numbered(On(h.redo))
      BY <1>1, OnNumbered
    <2> HIDE DEF m, y
    <2>5. \A z \in On(h.redo) : z = y \/ No(z) # x
      BY <2>2, <2>3, <2>4 DEF No, Numbered
    <2>6. Numbers(m.redo) = Numbers(h.redo) \ {x} /\ Numbers(m.undo) = Numbers(h.undo) \cup {x}
      BY <2>2, <2>3, <2>5 DEF Moves, Numbers
    <2> QED
      BY <2>1, <2>6 DEF m
  <1> QED
    BY <1>6, <1>7

-----------------------------------------------------------------------------
\* The numbers of K as replaying meets them, the next one last: undo takes the greatest,
\* redo the least.
Beyond(x, y, redo) == IF redo THEN x < y ELSE y < x
Ranked(r, K, redo) ==
    /\ r \in Seq(Nat)
    /\ \A i, j \in 1 .. Len(r) : i < j => Beyond(r[j], r[i], redo)
    /\ \A i \in 1 .. Len(r) : r[i] \in K
    /\ \A k \in K : \E i \in 1 .. Len(r) : r[i] = k

\* There are as many as numbers.
LEMMA RankedCounted ==
    ASSUME NEW r, NEW K, NEW redo \in BOOLEAN, Ranked(r, K, redo)
    PROVE  Len(r) \in Nat /\ Cardinality(K) = Len(r)
  <1> DEFINE n == Len(r)
             f == [i \in 1 .. n |-> r[i]]
  <1>1. /\ r \in Seq(Nat) /\ n \in Nat
        /\ \A i, j \in 1 .. n : i < j => Beyond(r[j], r[i], redo)
        /\ \A i \in 1 .. n : r[i] \in K
        /\ \A k \in K : \E i \in 1 .. n : r[i] = k
    BY DEF Ranked
  <1>2. \A i \in 1 .. n : r[i] \in Nat
    BY <1>1
  <1>3. \A i, j \in 1 .. n : r[i] = r[j] => i = j
    <2> SUFFICES ASSUME NEW i \in 1 .. n, NEW j \in 1 .. n, r[i] = r[j], i < j
                 PROVE  FALSE
      BY <1>1
    <2> QED
      BY <1>1, <1>2 DEF Beyond
  <1>4. f \in [1 .. n -> K] /\ \A i \in 1 .. n : f[i] = r[i]
    BY <1>1
  <1> HIDE DEF n, f
  <1>5. f \in Bijection(1 .. n, K)
    <2>1. f \in Injection(1 .. n, K)
      BY <1>3, <1>4 DEF Injection, IsInjective
    <2>2. f \in Surjection(1 .. n, K)
      BY <1>1, <1>4 DEF Surjection
    <2> QED
      BY <2>1, <2>2 DEF Bijection
  <1>6. Cardinality(K) = n
    BY <1>1, <1>5, FS_CountingElements DEF ExistsBijection
  <1> QED
    BY <1>1, <1>6 DEF n

\* Where there is nothing to take, there are no numbers.
LEMMA RankedNone ==
    /\ \A redo : Ranked(<<>>, {}, redo)
    /\ \A r, redo : Ranked(r, {}, redo) => r = <<>>
  <1>1. ASSUME NEW redo
        PROVE  Ranked(<<>>, {}, redo)
    BY DEF Ranked
  <1>2. ASSUME NEW r, NEW redo, Ranked(r, {}, redo)
        PROVE  r = <<>>
    <2>1. r \in Seq(Nat) /\ \A i \in 1 .. Len(r) : r[i] \in {}
      BY <1>2 DEF Ranked
    <2>2. Len(r) \in Nat /\ 1 .. Len(r) = {}
      BY <2>1
    <2>3. Len(r) = 0
      BY <2>2
    <2> QED
      BY <2>1, <2>3, EmptySeq
  <1> QED
    BY <1>1, <1>2

\* The next one comes after those behind it.
LEMMA RankedMore ==
    ASSUME NEW r, NEW K, NEW redo \in BOOLEAN, Ranked(r, K, redo), NEW x \in Nat,
           \A y \in K : Beyond(x, y, redo)
    PROVE  Ranked(Append(r, x), K \cup {x}, redo)
  <1> DEFINE n == Len(r)
             c == Append(r, x)
  <1>1. /\ r \in Seq(Nat) /\ n \in Nat
        /\ \A i, j \in 1 .. n : i < j => Beyond(r[j], r[i], redo)
        /\ \A i \in 1 .. n : r[i] \in K
        /\ \A k \in K : \E i \in 1 .. n : r[i] = k
    BY DEF Ranked
  <1>2. /\ c \in Seq(Nat) /\ Len(c) = n + 1 /\ c[n + 1] = x
        /\ \A i \in 1 .. n : c[i] = r[i]
    BY <1>1, AppendProperties
  <1> HIDE DEF n, c
  <1>3. \A i \in 1 .. (n + 1) : i \in 1 .. n \/ i = n + 1
    BY <1>1
  <1>4. \A i \in 1 .. n : i \in 1 .. (n + 1)
    BY <1>1
  <1>5. ASSUME NEW i \in 1 .. (n + 1), NEW j \in 1 .. (n + 1), i < j
        PROVE  Beyond(c[j], c[i], redo)
    <2>1. i \in 1 .. n
      BY <1>1, <1>5
    <2>2. CASE j \in 1 .. n
      BY <1>1, <1>2, <1>5, <2>1, <2>2
    <2>3. CASE j = n + 1
      BY <1>1, <1>2, <2>1, <2>3
    <2> QED
      BY <1>3, <2>2, <2>3
  <1>6. \A i \in 1 .. (n + 1) : c[i] \in K \cup {x}
    BY <1>1, <1>2, <1>3
  <1>7. ASSUME NEW k \in K \cup {x}
        PROVE  \E i \in 1 .. (n + 1) : c[i] = k
    <2>1. CASE k = x
      <3>1. n + 1 \in 1 .. (n + 1)
        BY <1>1
      <3> QED
        BY <1>2, <2>1, <3>1
    <2>2. CASE k \in K
      <3>1. PICK i \in 1 .. n : r[i] = k
        BY <1>1, <2>2
      <3> QED
        BY <1>2, <1>4, <3>1
    <2> QED
      BY <2>1, <2>2
  <1> QED
    BY <1>2, <1>5, <1>6, <1>7 DEF Ranked, c

\* Of some numbers one is taken first.
LEMMA OneIsNext ==
    ASSUME NEW K \in SUBSET Nat, IsFiniteSet(K), K # {}, NEW redo \in BOOLEAN
    PROVE  \E x \in K : \A y \in K \ {x} : Beyond(x, y, redo)
  <1>1. CASE redo
    <2>1. PICK x \in K : \A y \in K : x <= y
      BY LeastNumber
    <2>2. \A y \in K \ {x} : x < y
      BY <2>1
    <2> QED
      BY <1>1, <2>1, <2>2 DEF Beyond
  <1>2. CASE ~redo
    <2> DEFINE M == {b \in Nat : \A y \in K : y <= b}
    <2>1. M # {}
      <3> DEFINE I == {T \in SUBSET K : \E b \in Nat : \A y \in T : y <= b}
      <3>1. ASSUME NEW T \in SUBSET K, \A x \in T : T \ {x} \in I
            PROVE  T \in I
        <4>1. CASE T = {}
          <5>1. \A y \in T : y <= 0
            BY <4>1
          <5> QED
            BY <5>1
        <4>2. CASE T # {}
          <5>1. PICK x \in T : TRUE
            BY <4>2
          <5>2. PICK b \in Nat : \A y \in T \ {x} : y <= b
            BY <3>1, <5>1
          <5>3. x \in Nat /\ b + x \in Nat /\ \A y \in T : y \in Nat
            BY <5>1
          <5>4. \A y \in T : y <= b + x
            BY <5>2, <5>3
          <5> QED
            BY <5>3, <5>4
        <4> QED
          BY <4>1, <4>2
      <3> HIDE DEF I
      <3>2. SUBSET K \subseteq I
        BY <3>1, SubsetInduction
      <3>3. K \in I
        BY <3>2
      <3> QED
        BY <3>3 DEF I
    <2>2. PICK b \in M : \A m \in M : b <= m
      <3> HIDE DEF M
      <3>1. M \in SUBSET Nat
        BY DEF M
      <3> QED
        BY <2>1, <3>1, LeastNumber
    <2>3. b \in K
      <3>1. ASSUME b \notin K
            PROVE  FALSE
        <4>1. \A y \in K : y \in Nat /\ y < b
          BY <2>2, <3>1
        <4>2. b - 1 \in Nat
          <5>1. PICK y \in K : y < b
            BY <4>1
          <5>2. b \in Nat /\ y \in Nat
            BY <2>2
          <5> QED
            BY <5>1, <5>2
        <4>3. b - 1 \in M
          BY <2>2, <4>1, <4>2
        <4> QED
          BY <2>2, <4>2, <4>3
      <3> QED
        BY <3>1
    <2>4. \A y \in K \ {b} : y < b
      BY <2>2
    <2> QED
      BY <1>2, <2>3, <2>4 DEF Beyond
  <1> QED
    BY <1>1, <1>2

\* Numbers can be listed so.
LEMMA RankedExists ==
    ASSUME NEW K \in SUBSET Nat, IsFiniteSet(K), NEW redo \in BOOLEAN
    PROVE  \E r : Ranked(r, K, redo)
  <1> DEFINE I == {T \in SUBSET K : \E r : Ranked(r, T, redo)}
  <1>1. ASSUME NEW T \in SUBSET K, \A x \in T : T \ {x} \in I
        PROVE  T \in I
    <2>1. CASE T = {}
      BY <2>1, RankedNone
    <2>2. CASE T # {}
      <3>1. T \in SUBSET Nat /\ IsFiniteSet(T)
        BY FS_Subset
      <3>2. PICK x \in T : \A y \in T \ {x} : Beyond(x, y, redo)
        BY <2>2, <3>1, OneIsNext
      <3>3. PICK r : Ranked(r, T \ {x}, redo)
        BY <1>1, <3>2
      <3>4. Ranked(Append(r, x), (T \ {x}) \cup {x}, redo)
        BY <3>1, <3>2, <3>3, RankedMore
      <3>5. (T \ {x}) \cup {x} = T
        BY <3>2
      <3> QED
        BY <3>4, <3>5
    <2> QED
      BY <2>1, <2>2
  <1> HIDE DEF I
  <1>2. SUBSET K \subseteq I
    BY <1>1, SubsetInduction
  <1>3. K \in I
    BY <1>2
  <1> QED
    BY <1>3 DEF I

\* The first m numbers of r, and the next.
Firsts(r, m) == {r[i] : i \in 1 .. m}
LEMMA FirstsAre ==
    ASSUME NEW r, NEW K, NEW redo \in BOOLEAN, Ranked(r, K, redo)
    PROVE  /\ Len(r) \in Nat /\ Firsts(r, Len(r)) = K
           /\ \A m \in Nat : m < Len(r) =>
                 /\ r[m + 1] \in Firsts(r, m + 1)
                 /\ Firsts(r, m + 1) \ {r[m + 1]} = Firsts(r, m)
                 /\ \A y \in Firsts(r, m) : Beyond(r[m + 1], y, redo)
  <1>1. /\ r \in Seq(Nat) /\ Len(r) \in Nat
        /\ \A i, j \in 1 .. Len(r) : i < j => Beyond(r[j], r[i], redo)
        /\ \A i \in 1 .. Len(r) : r[i] \in K
        /\ \A k \in K : \E i \in 1 .. Len(r) : r[i] = k
    BY DEF Ranked
  <1>2. Firsts(r, Len(r)) = K
    BY <1>1 DEF Firsts
  <1>3. ASSUME NEW m \in Nat, m < Len(r)
        PROVE  /\ r[m + 1] \in Firsts(r, m + 1)
               /\ Firsts(r, m + 1) \ {r[m + 1]} = Firsts(r, m)
               /\ \A y \in Firsts(r, m) : Beyond(r[m + 1], y, redo)
    <2>1. /\ m + 1 \in 1 .. (m + 1) /\ m + 1 \in 1 .. Len(r)
          /\ \A i \in 1 .. m : i \in 1 .. (m + 1) /\ i \in 1 .. Len(r) /\ i < m + 1
          /\ \A i \in 1 .. (m + 1) : i = m + 1 \/ i \in 1 .. m
      BY <1>1, <1>3
    <2>2. \A i \in 1 .. m : Beyond(r[m + 1], r[i], redo)
      BY <1>1, <2>1
    <2>3. r[m + 1] \in Nat /\ \A i \in 1 .. m : r[i] \in Nat
      BY <1>1, <2>1
    <2>4. \A i \in 1 .. m : r[i] # r[m + 1]
      BY <2>2, <2>3 DEF Beyond
    <2>5. r[m + 1] \in Firsts(r, m + 1)
      BY <2>1 DEF Firsts
    <2>6. Firsts(r, m + 1) \ {r[m + 1]} = Firsts(r, m)
      BY <2>1, <2>4 DEF Firsts
    <2>7. \A y \in Firsts(r, m) : Beyond(r[m + 1], y, redo)
      BY <2>2 DEF Firsts
    <2> QED
      BY <2>5, <2>6, <2>7
  <1> QED
    BY <1>1, <1>2, <1>3

\* The newest number is that of the action undo takes.
LEMMA NewestNumber ==
    ASSUME NEW W, NEW h, StacksTyped(h, W), Chronological(h), NEW t \in Tracks, NewestUndo(h, t)
    PROVE  \E x \in Numbers(h.undo) :
              /\ x = Last(h.undo[t]).sequence /\ \A k \in Numbers(h.undo) : k <= x
              /\ Numbers(Undone(h, t).undo) = Numbers(h.undo) \ {x}
              /\ Numbers(Undone(h, t).redo) = Numbers(h.redo) \cup {x}
  <1> DEFINE K == Numbers(h.undo)
  <1>1. h.undo \in [Tracks -> Seq(Actions(W))] /\ h.undo[t] # <<>>
    BY DEF StacksTyped, NewestUndo
  <1>2. 1 \in DOMAIN h.undo[t]
    BY <1>1
  <1>3. K # {}
    BY <1>2, NumbersAre
  <1>4. K \in SUBSET Nat /\ IsFiniteSet(K)
    BY <1>1, NumbersDistinct, NumbersCounted
  <1> HIDE DEF K
  <1>5. PICK x \in K : \A y \in K \ {x} : Beyond(x, y, FALSE)
    BY <1>3, <1>4, OneIsNext
  <1>6. x \in K /\ \A y \in K : y <= x
    BY <1>4, <1>5 DEF Beyond
  <1>7. /\ Last(h.undo[t]).sequence = x
        /\ Numbers(Undone(h, t).undo) = Numbers(h.undo) \ {x}
        /\ Numbers(Undone(h, t).redo) = Numbers(h.redo) \cup {x}
    BY <1>6, NewestIs DEF K
  <1> QED
    BY <1>6, <1>7 DEF K

\* The oldest number is that of the action redo takes.
LEMMA OldestNumber ==
    ASSUME NEW W, NEW h, StacksTyped(h, W), Chronological(h), NEW t \in Tracks, OldestRedo(h, t)
    PROVE  \E x \in Numbers(h.redo) :
              /\ x = Last(h.redo[t]).sequence /\ \A k \in Numbers(h.redo) : x <= k
              /\ Numbers(Redone(h, t).redo) = Numbers(h.redo) \ {x}
              /\ Numbers(Redone(h, t).undo) = Numbers(h.undo) \cup {x}
  <1> DEFINE K == Numbers(h.redo)
  <1>1. h.redo \in [Tracks -> Seq(Actions(W))] /\ h.redo[t] # <<>>
    BY DEF StacksTyped, OldestRedo
  <1>2. 1 \in DOMAIN h.redo[t]
    BY <1>1
  <1>3. K # {}
    BY <1>2, NumbersAre
  <1>4. K \in SUBSET Nat /\ IsFiniteSet(K)
    BY <1>1, NumbersDistinct, NumbersCounted
  <1> HIDE DEF K
  <1>5. PICK x \in K : \A y \in K \ {x} : Beyond(x, y, TRUE)
    BY <1>3, <1>4, OneIsNext
  <1>6. x \in K /\ \A y \in K : x <= y
    BY <1>4, <1>5 DEF Beyond
  <1>7. /\ Last(h.redo[t]).sequence = x
        /\ Numbers(Redone(h, t).redo) = Numbers(h.redo) \ {x}
        /\ Numbers(Redone(h, t).undo) = Numbers(h.undo) \cup {x}
    BY <1>6, OldestIs DEF K
  <1> QED
    BY <1>6, <1>7 DEF K
=============================================================================
