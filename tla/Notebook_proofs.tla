--------------------------- MODULE Notebook_proofs ---------------------------
(***************************************************************************)
(* What holds of a Notebook in every state a session can reach, whatever   *)
(* the user does, undoes and takes again, and wherever Pages come and go:  *)
(* the ordering is rooted in Pages, the Pages are found under their keys,  *)
(* and the action at the end of a deque can always be applied.             *)
(*                                                                         *)
(* None of these is inductive.  That an action can be applied depends on   *)
(* the Pages the store then has, and those depend on every action that     *)
(* will have been taken back before it.  The invariant therefore says of   *)
(* all of them at once where they lead: there are Pages A that the store   *)
(* holds and, for every action of a deque, Pages it began with and Pages   *)
(* it ended with, such that those of an action are those of the next one   *)
(* (Line, in HistoryStacks_proofs) and A is where the line is cut.  A      *)
(* command is recorded with an action that leads from its Pages to A       *)
(* (Recording), which is what each command is shown to do, with what it    *)
(* leaves of each of their Blocks (Remade).                                *)
(***************************************************************************)
EXTENDS Notebook, Outline_proofs, HistoryStacks_proofs

-----------------------------------------------------------------------------
\* The identifiers of an outline, and what a store that holds it reads as: the
\* children of a Block, the entries of a Page, the Page of an entry, of a date.

\* The Page or the entry an entry is under, and its rank there.
Container(p, es, i) == IF es[i].parent = TopLevel THEN p ELSE es[i].parent
Siblings(es, i) == {k \in 1 .. i : es[k].parent = es[i].parent}
Rank(es, i) == Cardinality(Siblings(es, i))

\* The placement of one entry.
LEMMA PlacementIs ==
    ASSUME NEW o, DOMAIN o.entries = 1 .. Len(o.entries), Named(o.entries)
    PROVE  /\ DOMAIN Placements(o) = Ids(o.entries)
           /\ \A i \in 1 .. Len(o.entries) :
                 Placements(o)[o.entries[i].id] = <<Container(o.id, o.entries, i), Rank(o.entries, i)>>
  <1> DEFINE es == o.entries
             at(b) == <<Container(o.id, es, PositionOf(es, b)), Rank(es, PositionOf(es, b))>>
  <1>1. Placements(o) = [b \in Ids(es) |-> at(b)]
    BY DEF Placements, Container, Rank, Siblings
  <1>2. ASSUME NEW i \in 1 .. Len(es)
        PROVE  es[i].id \in Ids(es) /\ PositionOf(es, es[i].id) = i
    BY FoundAt DEF Ids
  <1> QED
    BY <1>1, <1>2

\* Later siblings have greater ranks.
LEMMA RankGrows ==
    ASSUME NEW es, Len(es) \in Nat
    PROVE  /\ \A i \in 1 .. Len(es) : Rank(es, i) \in 1 .. Len(es)
           /\ \A i, j \in 1 .. Len(es) :
                 i < j /\ es[i].parent = es[j].parent => Rank(es, i) < Rank(es, j)
  <1> DEFINE n == Len(es)
  <1>1. ASSUME NEW i \in 1 .. n
        PROVE  /\ IsFiniteSet(Siblings(es, i)) /\ Rank(es, i) \in Nat /\ Rank(es, i) <= n
               /\ i \in Siblings(es, i) /\ Rank(es, i) # 0
    <2>1. IsFiniteSet(1 .. n) /\ Cardinality(1 .. n) = n
      <3>1. 1 \in Int /\ n \in Int /\ n \in Nat
        OBVIOUS
      <3>2. IsFiniteSet(1 .. n) /\ Cardinality(1 .. n) = IF 1 > n THEN 0 ELSE n - 1 + 1
        BY <3>1, FS_Interval
      <3> HIDE DEF n
      <3>3. n = IF 1 > n THEN 0 ELSE n - 1 + 1
        BY <3>1
      <3> QED
        BY <3>2, <3>3
    <2>2. Siblings(es, i) \in SUBSET (1 .. n)
      BY DEF Siblings
    <2>3. IsFiniteSet(Siblings(es, i)) /\ Rank(es, i) <= n
      BY <2>1, <2>2, FS_Subset DEF Rank
    <2>4. i \in Siblings(es, i)
      BY DEF Siblings
    <2>5. Rank(es, i) \in Nat
      BY <2>3, FS_CardinalityType DEF Rank
    <2>6. Rank(es, i) # 0
      BY <2>3, <2>4, FS_EmptySet DEF Rank
    <2> QED
      BY <2>3, <2>4, <2>5, <2>6
  <1>2. ASSUME NEW i \in 1 .. n, NEW j \in 1 .. n, i < j, es[i].parent = es[j].parent
        PROVE  Rank(es, i) < Rank(es, j)
    <2>1. Siblings(es, i) \in SUBSET Siblings(es, j)
      BY <1>2 DEF Siblings
    <2>2. j \in Siblings(es, j) /\ j \notin Siblings(es, i)
      BY <1>2 DEF Siblings
    <2>3. /\ Cardinality(Siblings(es, i)) <= Cardinality(Siblings(es, j))
          /\ Cardinality(Siblings(es, j)) = Cardinality(Siblings(es, i))
                => Siblings(es, j) = Siblings(es, i)
      BY <1>1, <2>1, FS_Subset
    <2>4. Rank(es, i) \in Nat /\ Rank(es, j) \in Nat
      BY <1>1
    <2>5. Rank(es, i) <= Rank(es, j) /\ Rank(es, i) # Rank(es, j)
      BY <2>2, <2>3 DEF Rank
    <2> QED
      BY <2>4, <2>5
  <1> QED
    BY <1>1, <1>2

\* There are as many identifiers as entries.
LEMMA IdsCounted ==
    ASSUME NEW es, Len(es) \in Nat, DOMAIN es = 1 .. Len(es), Named(es)
    PROVE  Cardinality(Ids(es)) = Len(es)
  <1> DEFINE n == Len(es)
             f == [i \in 1 .. n |-> es[i].id]
  <1>1. f \in Bijection(1 .. n, Ids(es))
    <2>1. f \in [1 .. n -> Ids(es)]
      BY DEF Ids
    <2>2. \A i, k \in 1 .. n : f[i] = f[k] => i = k
      BY DEF Named
    <2>3. \A x \in Ids(es) : \E i \in 1 .. n : f[i] = x
      BY DEF Ids
    <2> HIDE DEF f, n
    <2> QED
      BY <2>1, <2>2, <2>3 DEF Bijection, Injection, Surjection, IsInjective
  <1> HIDE DEF f
  <1>2. n \in Nat /\ ExistsBijection(1 .. n, Ids(es))
    BY <1>1 DEF ExistsBijection
  <1> HIDE DEF n
  <1>3. Cardinality(Ids(es)) = n
    BY <1>2, FS_CountingElements
  <1> QED
    BY <1>3 DEF n

\* No Page has more entries than there are identifiers.
LEMMA LengthBound ==
    ASSUME NEW es, Len(es) \in Nat, DOMAIN es = 1 .. Len(es), Named(es), Ids(es) \subseteq BlockIds
    PROVE  Len(es) <= MaxIds
  <1>1. Cardinality(Ids(es)) = Len(es)
    BY IdsCounted
  <1>2. MaxIds \in Nat /\ MaxIds # 0
    BY MaxIdsAssumption
  <1>3. IsFiniteSet(BlockIds) /\ Cardinality(BlockIds) = MaxIds
    BY <1>2, FS_Interval DEF BlockIds
  <1>4. Cardinality(Ids(es)) <= Cardinality(BlockIds)
    BY <1>3, FS_Subset
  <1> QED
    BY <1>1, <1>3, <1>4

\* How the children of a Block are read, one rank after the other.
ChildrenNext(s, b, r, f) ==
    IF <<b, r>> \in DOMAIN s.byParent THEN Append(f, s.byParent[<<b, r>>]) ELSE f
ChildrenSteps(s, b, f) ==
    f = [r \in 0 .. MaxIds |->
            IF r = 0 THEN <<>>
            ELSE IF <<b, r>> \in DOMAIN s.byParent
                 THEN Append(f[r - 1], s.byParent[<<b, r>>])
                 ELSE f[r - 1]]

\* That reading exists, and ends with the children.
LEMMA ChildrenStepsExist ==
    ASSUME NEW s, NEW b, NEW I, \A k \in DOMAIN s.byParent : s.byParent[k] \in I
    PROVE  \E f : /\ f[0] = <<>> /\ ChildrenOf(s, b) = f[MaxIds]
                  /\ \A r \in 1 .. MaxIds : f[r] = ChildrenNext(s, b, r, f[r - 1])
                  /\ \A r \in 0 .. MaxIds : f[r] \in Seq(I)
  <1> DEFINE A == Seq(I)
             F == [m \in 1 .. MaxIds |-> [v \in A |-> ChildrenNext(s, b, m, v)]]
             c == CHOOSE f : ChildrenSteps(s, b, f)
  <1>n. MaxIds \in Nat
    BY MaxIdsAssumption
  <1>1. \A m \in 1 .. MaxIds : \A v \in A : F[m][v] = ChildrenNext(s, b, m, v)
    OBVIOUS
  <1>2. \A m \in 1 .. MaxIds, v \in A : ChildrenNext(s, b, m, v) \in A
    BY DEF ChildrenNext
  <1>3. StepsIn(A, F, MaxIds)
    <2> HIDE DEF F, A
    <2> QED
      BY <1>1, <1>2 DEF StepsIn
  <1>4. <<>> \in A
    OBVIOUS
  <1> HIDE DEF A, F
  <1>5. PICK g : StepsFrom(A, <<>>, F, MaxIds, g)
    BY <1>n, <1>3, <1>4, StepsExist
  <1> DEFINE body(f, m) == IF m = 0 THEN <<>> ELSE ChildrenNext(s, b, m, f[m - 1])
  <1>6. \A f : ChildrenSteps(s, b, f) <=> f = [m \in 0 .. MaxIds |-> body(f, m)]
    BY DEF ChildrenSteps, ChildrenNext
  <1>7. ChildrenSteps(s, b, g)
    <2>1. /\ g \in [0 .. MaxIds -> A] /\ g[0] = <<>>
          /\ \A m \in 1 .. MaxIds : g[m] = F[m][g[m - 1]]
      BY <1>5 DEF StepsFrom
    <2>2. \A m \in 0 .. MaxIds : m # 0 => m \in 1 .. MaxIds /\ m - 1 \in 0 .. MaxIds
      BY <1>n
    <2>3. ASSUME NEW m \in 0 .. MaxIds
          PROVE  g[m] = body(g, m)
      <3>1. CASE m = 0
        BY <2>1, <3>1
      <3>2. CASE m # 0
        <4>1. m \in 1 .. MaxIds /\ g[m - 1] \in A
          BY <2>1, <2>2, <3>2
        <4>2. g[m] = F[m][g[m - 1]]
          BY <2>1, <4>1
        <4>3. F[m][g[m - 1]] = body(g, m)
          BY <1>1, <3>2, <4>1
        <4> QED
          BY <4>2, <4>3
      <3> QED
        BY <3>1, <3>2
    <2>4. g = [m \in 0 .. MaxIds |-> g[m]]
      BY <2>1
    <2> HIDE DEF body
    <2>5. g = [m \in 0 .. MaxIds |-> body(g, m)]
      BY <2>3, <2>4
    <2> QED
      BY <1>6, <2>5
  <1>8. ChildrenSteps(s, b, c)
    BY <1>7
  <1>9. ChildrenOf(s, b) = c[MaxIds]
    BY DEF ChildrenOf, ChildrenSteps
  <1> HIDE DEF c
  <1>10. \A m \in 0 .. MaxIds : c[m] = body(c, m)
    <2> HIDE DEF body
    <2>1. c = [m \in 0 .. MaxIds |-> body(c, m)]
      BY <1>6, <1>8
    <2> QED
      BY <2>1
  <1>11. c[0] = <<>>
    BY <1>n, <1>10
  <1>12. \A r \in 1 .. MaxIds : c[r] = ChildrenNext(s, b, r, c[r - 1])
    BY <1>n, <1>10
  <1> HIDE DEF body
  <1> DEFINE J == {r \in Nat : r <= MaxIds => c[r] \in A}
  <1>13. 0 \in J
    BY <1>4, <1>11
  <1>14. ASSUME NEW r \in Nat, r \in J
         PROVE  r + 1 \in J
    <2>1. ASSUME r + 1 <= MaxIds
          PROVE  c[r + 1] \in A
      <3>1. r + 1 \in 1 .. MaxIds /\ (r + 1) - 1 = r /\ r <= MaxIds
        BY <1>n, <2>1
      <3>2. c[r] \in A
        BY <1>14, <3>1
      <3> QED
        BY <1>2, <1>12, <3>1, <3>2
    <2> QED
      BY <2>1
  <1>15. \A r \in Nat : r \in J
    <2> HIDE DEF J
    <2> QED
      BY <1>13, <1>14, IndexInduction
  <1>16. \A r \in 0 .. MaxIds : c[r] \in Seq(I)
    BY <1>n, <1>15 DEF A
  <1> QED
    BY <1>9, <1>11, <1>12, <1>16

\* The outline of the Page p, its identifiers in I and its times in U.
Outlined(o, p, I, U) ==
    /\ o = [id |-> p, page |-> o.page, entries |-> o.entries]
    /\ o.page \in PageBlocks /\ o.page.updated \in U
    /\ Page(I, Seq(STRING), U, o.entries)
Separate(o, r) ==
    /\ PageKey(o.page) # PageKey(r.page)
    /\ Ids(o.entries) \cap Ids(r.entries) = {}

\* WellFormed, for identifiers in I and times in U.
Paged(A, I, U) ==
    /\ A = [p \in DOMAIN A |-> A[p]]
    /\ DOMAIN A \subseteq I /\ DOMAIN A \cap EntriesOf(A) = {}
    /\ \A p \in DOMAIN A : Outlined(A[p], p, I, U)
    /\ \A p, q \in DOMAIN A : p # q => Separate(A[p], A[q])

\* The entries of one Page.
LEMMA OutlinedIs ==
    ASSUME NEW o, NEW p, NEW I, NEW U, Outlined(o, p, I, U)
    PROVE  /\ o.id = p /\ TopLevel \notin I
           /\ o.entries \in Seq(Entry(I, Seq(STRING), U)) /\ Len(o.entries) \in Nat
           /\ DOMAIN o.entries = 1 .. Len(o.entries)
           /\ Named(o.entries) /\ \E D : Tree(o.entries, D)
           /\ Ids(o.entries) = {o.entries[i].id : i \in 1 .. Len(o.entries)}
           /\ Ids(o.entries) \subseteq I
           /\ \A i \in 1 .. Len(o.entries) : o.entries[i] \in Entry(I, Seq(STRING), U)
  <1>1. /\ o = [id |-> p, page |-> o.page, entries |-> o.entries]
        /\ Page(I, Seq(STRING), U, o.entries)
    BY DEF Outlined
  <1>2. o.id = p
    BY <1>1
  <1>3. \E D : Tree(o.entries, D)
    BY <1>1 DEF Page
  <1>4. Named(o.entries)
    BY <1>3 DEF Tree
  <1>5. /\ TopLevel \notin I
        /\ o.entries \in Seq(Entry(I, Seq(STRING), U)) /\ Len(o.entries) \in Nat
        /\ DOMAIN o.entries = 1 .. Len(o.entries)
        /\ \A i \in 1 .. Len(o.entries) : o.entries[i] \in Entry(I, Seq(STRING), U)
        /\ \A i \in 1 .. Len(o.entries) : o.entries[i].id \in I
    BY <1>1, PageIs
  <1>6. Ids(o.entries) = {o.entries[i].id : i \in 1 .. Len(o.entries)}
    BY <1>5 DEF Ids
  <1>7. Ids(o.entries) \subseteq I
    BY <1>5, <1>6
  <1> QED
    BY <1>2, <1>3, <1>4, <1>5, <1>6, <1>7

\* An identifier is on one Page, as a Page or as an entry of it.
LEMMA PagedIs ==
    ASSUME NEW A, NEW I, NEW U, Paged(A, I, U)
    PROVE  /\ \A p \in DOMAIN A : p \in I /\ Outlined(A[p], p, I, U)
           /\ \A p, q \in DOMAIN A : \A b \in Ids(A[p].entries) : b # q
           /\ \A p, q \in DOMAIN A : \A b \in Ids(A[p].entries) :
                 b \in Ids(A[q].entries) => p = q
           /\ \A b \in EntriesOf(A) : \E p \in DOMAIN A : b \in Ids(A[p].entries)
           /\ \A p \in DOMAIN A : \A b \in Ids(A[p].entries) : b \in EntriesOf(A)
  BY DEF Paged, EntriesOf, Separate

\* The store has this entry at its place.
PlacedAt(s, p, es, i) ==
    LET k == <<Container(p, es, i), Rank(es, i)>>
    IN  /\ es[i].id \in DOMAIN s.byChild /\ s.byChild[es[i].id] = k
        /\ k \in DOMAIN s.byParent /\ s.byParent[k] = es[i].id

\* The placements a store holds.
LEMMA HeldPlaces ==
    ASSUME NEW s, NEW A, NEW I, NEW U, Paged(A, I, U), PlacesAre(s, A)
    PROVE  \A p \in DOMAIN A : \A i \in 1 .. Len(A[p].entries) :
              PlacedAt(s, p, A[p].entries, i)
  <1> SUFFICES ASSUME NEW p \in DOMAIN A, NEW i \in 1 .. Len(A[p].entries)
               PROVE  PlacedAt(s, p, A[p].entries, i)
    OBVIOUS
  <1> DEFINE es == A[p].entries
             b == es[i].id
  <1>1. /\ A[p].id = p /\ DOMAIN es = 1 .. Len(es) /\ Named(es)
        /\ Ids(es) = {es[j].id : j \in 1 .. Len(es)}
    <2>1. Outlined(A[p], p, I, U)
      BY PagedIs
    <2> QED
      BY <2>1, OutlinedIs
  <1>2. Placements(A[p])[b] = <<Container(p, es, i), Rank(es, i)>>
    BY <1>1, PlacementIs
  <1>3. b \in Ids(es) /\ b \in EntriesOf(A)
    <2>1. b \in Ids(es)
      BY <1>1
    <2> QED
      BY <2>1, PagedIs
  <1>4. b \in DOMAIN s.byChild /\ s.byChild[b] = Placements(A[p])[b]
    BY <1>3 DEF PlacesAre
  <1>5. s.byChild[b] \in DOMAIN s.byParent /\ s.byParent[s.byChild[b]] = b
    BY <1>3 DEF PlacesAre
  <1> QED
    BY <1>2, <1>4, <1>5 DEF PlacedAt

\* Who is below the Page or below its m-th entry, and at which ranks.
ContainerAt(p, es, m) == IF m = 0 THEN p ELSE es[m].id

\* Below the Page, or below an entry, the store has those entries the outline has there,
\* and no other.
LEMMA HeldBelow ==
    ASSUME NEW s, NEW A, NEW I, NEW U, Paged(A, I, U), PlacesAre(s, A), NEW p \in DOMAIN A,
           NEW D, Tree(A[p].entries, D), NEW m \in 0 .. Len(A[p].entries)
    PROVE  LET es == A[p].entries
               c == ContainerAt(p, es, m)
           IN  /\ \A k \in 1 .. Len(es) : D[k] = m =>
                     /\ <<c, Rank(es, k)>> \in DOMAIN s.byParent
                     /\ s.byParent[<<c, Rank(es, k)>>] = es[k].id
               /\ \A r : <<c, r>> \in DOMAIN s.byParent =>
                     \E k \in 1 .. Len(es) : D[k] = m /\ Rank(es, k) = r
  <1> DEFINE es == A[p].entries
             n == Len(es)
             c == ContainerAt(p, es, m)
  <1>1. /\ A[p].id = p /\ Len(es) \in Nat /\ DOMAIN es = 1 .. n /\ Named(es) /\ TopLevel \notin I
        /\ Ids(es) = {es[j].id : j \in 1 .. n} /\ Ids(es) \subseteq I
    <2>1. Outlined(A[p], p, I, U)
      BY PagedIs
    <2> QED
      BY <2>1, OutlinedIs
  <1>2. \A k \in 1 .. n : /\ D[k] \in 0 .. (k - 1)
                          /\ es[k].parent = IF D[k] = 0 THEN TopLevel ELSE es[D[k]].id
    BY <1>1, ParentIs
  <1>3. ASSUME NEW k \in 1 .. n
        PROVE  Container(p, es, k) = ContainerAt(p, es, D[k])
    <2>1. CASE D[k] = 0
      BY <1>2, <2>1 DEF Container, ContainerAt
    <2>2. CASE D[k] # 0
      <3>1. D[k] \in 1 .. n
        BY <1>1, <1>2, <2>2
      <3>2. es[D[k]].id # TopLevel
        BY <1>1, <3>1 DEF Named
      <3> QED
        BY <1>2, <2>2, <3>2 DEF Container, ContainerAt
    <2> QED
      BY <2>1, <2>2
  <1>4. ASSUME NEW k \in 1 .. n, D[k] = m
        PROVE  /\ <<c, Rank(es, k)>> \in DOMAIN s.byParent
               /\ s.byParent[<<c, Rank(es, k)>>] = es[k].id
    <2>1. Container(p, es, k) = c
      BY <1>3, <1>4
    <2>2. PlacedAt(s, p, A[p].entries, k)
      BY HeldPlaces
    <2> QED
      BY <2>1, <2>2 DEF PlacedAt
  <1>5. ASSUME NEW r, <<c, r>> \in DOMAIN s.byParent
        PROVE  \E k \in 1 .. n : D[k] = m /\ Rank(es, k) = r
    <2>1. PICK b \in EntriesOf(A) : <<c, r>> = s.byChild[b]
      BY <1>5 DEF PlacesAre
    <2>2. PICK q \in DOMAIN A : b \in Ids(A[q].entries)
      BY PagedIs
    <2> DEFINE fs == A[q].entries
    <2>3. /\ Len(fs) \in Nat /\ Named(fs) /\ Ids(fs) = {fs[j].id : j \in 1 .. Len(fs)}
          /\ Ids(fs) \subseteq I /\ \E G : Tree(fs, G)
      <3>1. Outlined(A[q], q, I, U)
        BY PagedIs
      <3> QED
        BY <3>1, OutlinedIs
    <2>4. PICK k \in 1 .. Len(fs) : b = fs[k].id
      BY <2>2, <2>3
    <2>5. c = Container(q, fs, k) /\ r = Rank(fs, k)
      <3>1. s.byChild[A[q].entries[k].id]
                = <<Container(q, A[q].entries, k), Rank(A[q].entries, k)>>
        <4>1. k \in 1 .. Len(A[q].entries)
          BY <2>4
        <4>2. PlacedAt(s, q, A[q].entries, k)
          BY <4>1, HeldPlaces
        <4> QED
          BY <4>2 DEF PlacedAt
      <3> QED
        BY <2>1, <2>4, <3>1
    <2>6. p = q
      <3>1. c = p \/ c \in Ids(es)
        BY <1>1 DEF ContainerAt
      <3>2. Container(q, fs, k) = q \/ Container(q, fs, k) \in Ids(fs)
        <4>1. PICK G : Tree(fs, G)
          BY <2>3
        <4>2. /\ G[k] \in 0 .. (k - 1)
              /\ fs[k].parent = IF G[k] = 0 THEN TopLevel ELSE fs[G[k]].id
          BY <2>3, <4>1, ParentIs
        <4>3. CASE G[k] = 0
          BY <4>2, <4>3 DEF Container
        <4>4. CASE G[k] # 0
          <5>1. G[k] \in 1 .. Len(fs)
            BY <2>3, <4>2, <4>4
          <5>2. fs[k].parent \in Ids(fs) /\ fs[k].parent # TopLevel
            BY <2>3, <4>2, <4>4, <5>1 DEF Named
          <5> QED
            BY <5>2 DEF Container
        <4> QED
          BY <4>3, <4>4
      <3> QED
        BY <2>5, <3>1, <3>2, PagedIs
    <2>7. k \in 1 .. n /\ Rank(es, k) = r /\ c = ContainerAt(p, es, D[k])
      BY <1>3, <2>5, <2>6
    <2>8. D[k] = m
      <3>1. D[k] \in 0 .. n
        BY <1>1, <1>2, <2>7
      <3>2. ContainerAt(p, es, m) = ContainerAt(p, es, D[k])
        BY <2>7
      <3>3. \A j \in 1 .. n : es[j].id # p
        BY <1>1, PagedIs
      <3>4. CASE m = 0 /\ D[k] = 0
        BY <3>4
      <3>5. CASE m = 0 /\ D[k] # 0
        <4>1. D[k] \in 1 .. n /\ p = es[D[k]].id
          BY <3>1, <3>2, <3>5 DEF ContainerAt
        <4> QED
          BY <3>3, <4>1
      <3>6. CASE m # 0 /\ D[k] = 0
        <4>1. m \in 1 .. n /\ p = es[m].id
          BY <1>1, <3>2, <3>6 DEF ContainerAt
        <4> QED
          BY <3>3, <4>1
      <3>7. CASE m # 0 /\ D[k] # 0
        <4>1. m \in 1 .. n /\ D[k] \in 1 .. n /\ es[m].id = es[D[k]].id
          BY <1>1, <3>1, <3>2, <3>7 DEF ContainerAt
        <4> QED
          BY <1>1, <4>1 DEF Named
      <3> QED
        BY <3>4, <3>5, <3>6, <3>7
    <2> QED
      BY <2>7, <2>8
  <1> QED
    BY <1>4, <1>5

\* Only identifiers are kept.
LEMMA HeldIds ==
    ASSUME NEW s, NEW A, NEW I, NEW U, Paged(A, I, U), PlacesAre(s, A)
    PROVE  \A k \in DOMAIN s.byParent : s.byParent[k] \in I
  <1> SUFFICES ASSUME NEW k \in DOMAIN s.byParent
               PROVE  s.byParent[k] \in I
    OBVIOUS
  <1>1. PICK b \in EntriesOf(A) : k = s.byChild[b]
    BY DEF PlacesAre
  <1>2. s.byParent[k] = b
    BY <1>1 DEF PlacesAre
  <1>3. PICK q \in DOMAIN A : b \in Ids(A[q].entries)
    BY PagedIs
  <1>4. Outlined(A[q], q, I, U)
    BY PagedIs
  <1> QED
    BY <1>2, <1>3, <1>4, OutlinedIs

\* The positions below the m-th entry.
Kids(D, n, m) == {k \in 1 .. n : D[k] = m}

\* The children of the Page or of its m-th entry are those below it, in their order.
LEMMA ChildrenAre ==
    ASSUME NEW s, NEW A, NEW U, Paged(A, BlockIds, U), PlacesAre(s, A), NEW p \in DOMAIN A,
           NEW D, Tree(A[p].entries, D), NEW m \in 0 .. Len(A[p].entries)
    PROVE  LET es == A[p].entries
           IN  \E q : /\ Lists(q, Kids(D, Len(es), m))
                      /\ ChildrenOf(s, ContainerAt(p, es, m)) = IdsAt(es, q)
  <1> DEFINE es == A[p].entries
             n == Len(es)
             c == ContainerAt(p, es, m)
             Upto(r) == {k \in Kids(D, n, m) : Rank(es, k) <= r}
  <1>1. /\ n \in Nat /\ DOMAIN es = 1 .. n /\ Named(es)
        /\ Ids(es) = {es[j].id : j \in 1 .. n} /\ Ids(es) \subseteq BlockIds
    <2>1. Outlined(A[p], p, BlockIds, U)
      BY PagedIs
    <2> QED
      BY <2>1, OutlinedIs
  <1>2. n <= MaxIds
    BY <1>1, LengthBound
  <1>n. MaxIds \in Nat
    BY MaxIdsAssumption
  <1>3. /\ \A k \in 1 .. n : D[k] = m =>
              /\ <<c, Rank(es, k)>> \in DOMAIN s.byParent
              /\ s.byParent[<<c, Rank(es, k)>>] = es[k].id
        /\ \A r : <<c, r>> \in DOMAIN s.byParent =>
              \E k \in 1 .. n : D[k] = m /\ Rank(es, k) = r
    BY HeldBelow
  <1>4. \A k \in DOMAIN s.byParent : s.byParent[k] \in BlockIds
    BY HeldIds
  <1>5. PICK f : /\ f[0] = <<>> /\ ChildrenOf(s, c) = f[MaxIds]
                 /\ \A r \in 1 .. MaxIds : f[r] = ChildrenNext(s, c, r, f[r - 1])
                 /\ \A r \in 0 .. MaxIds : f[r] \in Seq(BlockIds)
    <2> HIDE DEF c
    <2> QED
      BY ONLY <1>4, ChildrenStepsExist
  <1>6. /\ \A i \in 1 .. n : Rank(es, i) \in 1 .. n
        /\ \A i, j \in 1 .. n : i < j /\ es[i].parent = es[j].parent => Rank(es, i) < Rank(es, j)
    BY <1>1, RankGrows
  <1>7. \A i, j \in Kids(D, n, m) : i < j => Rank(es, i) < Rank(es, j)
    <2> SUFFICES ASSUME NEW i \in Kids(D, n, m), NEW j \in Kids(D, n, m), i < j
                 PROVE  Rank(es, i) < Rank(es, j)
      OBVIOUS
    <2>1. i \in 1 .. n /\ j \in 1 .. n /\ D[i] = D[j]
      BY DEF Kids
    <2>2. es[i].parent = es[j].parent
      <3>1. /\ es[i].parent = IF D[i] = 0 THEN TopLevel ELSE es[D[i]].id
            /\ es[j].parent = IF D[j] = 0 THEN TopLevel ELSE es[D[j]].id
        BY <1>1, <2>1, ParentIs
      <3> QED
        BY <2>1, <3>1
    <2> QED
      BY <1>6, <2>1, <2>2
  <1>8. \A k \in Kids(D, n, m) : k \in Nat /\ k \in 1 .. n /\ es[k].id \in BlockIds
                                 /\ Rank(es, k) \in Nat
    BY <1>1, <1>6 DEF Kids
  <1> HIDE DEF c, es, n
  <1> DEFINE J == {r \in Nat : r <= MaxIds => \E q : Lists(q, Upto(r)) /\ f[r] = IdsAt(es, q)}
  <1>9. 0 \in J
    <2>1. Upto(0) = {}
      BY <1>6 DEF Kids
    <2>2. Lists(<<>>, Upto(0))
      <3> HIDE DEF Upto
      <3> QED
        BY <2>1, ListingNone
    <2>3. IdsAt(es, <<>>) = <<>>
      BY IdsAtNone
    <2> QED
      BY <1>5, <2>2, <2>3
  <1>10. ASSUME NEW r \in Nat, r \in J
         PROVE  r + 1 \in J
    <2>1. ASSUME r + 1 <= MaxIds
          PROVE  \E q : Lists(q, Upto(r + 1)) /\ f[r + 1] = IdsAt(es, q)
      <3>1. r <= MaxIds /\ r + 1 \in 1 .. MaxIds /\ (r + 1) - 1 = r
        BY <1>n, <2>1
      <3>2. PICK q : Lists(q, Upto(r)) /\ f[r] = IdsAt(es, q)
        BY <1>10, <3>1
      <3>3. f[r + 1] = ChildrenNext(s, c, r + 1, f[r])
        BY <1>5, <3>1
      <3>4. CASE <<c, r + 1>> \in DOMAIN s.byParent
        <4>1. PICK k \in 1 .. n : D[k] = m /\ Rank(es, k) = r + 1
          BY <1>3, <3>4
        <4>2. k \in Kids(D, n, m) /\ k \in Nat /\ es[k].id \in BlockIds
          BY <1>8, <4>1 DEF Kids
        <4>3. s.byParent[<<c, r + 1>>] = es[k].id
          BY <1>3, <4>1
        <4>4. \A i \in Upto(r) : i < k
          <5> SUFFICES ASSUME NEW i \in Upto(r)
                       PROVE  i < k
            OBVIOUS
          <5>1. i \in Kids(D, n, m) /\ Rank(es, i) <= r /\ i \in Nat /\ Rank(es, i) \in Nat
            BY <1>8
          <5>2. ~(k < i) /\ k # i
            BY <1>7, <4>1, <4>2, <5>1
          <5> QED
            BY <4>2, <5>1, <5>2
        <4>5. Upto(r + 1) = Upto(r) \cup {k}
          <5>1. \A i \in Kids(D, n, m) : Rank(es, i) = r + 1 => i = k
            <6> SUFFICES ASSUME NEW i \in Kids(D, n, m), Rank(es, i) = r + 1
                         PROVE  i = k
              OBVIOUS
            <6>1. ~(i < k) /\ ~(k < i)
              BY <1>7, <4>1, <4>2
            <6> QED
              BY <1>8, <4>2, <6>1
          <5>2. \A i \in Kids(D, n, m) : Rank(es, i) <= r + 1 <=> Rank(es, i) <= r \/ Rank(es, i) = r + 1
            BY <1>8
          <5> QED
            BY <4>1, <4>2, <5>1, <5>2
        <4>6. Lists(<<k>>, {k}) /\ IdsAt(es, <<k>>) = <<es[k].id>>
          <5>1. <<k>> \in Seq(Nat) /\ Len(<<k>>) = 1 /\ <<k>>[1] = k /\ 1 .. 1 = {1}
            BY <4>2
          <5> QED
            BY <5>1 DEF Lists, IdsAt
        <4>7. q \in Seq(Nat) /\ \A i \in 1 .. Len(q) : q[i] \in Upto(r)
          BY <3>2 DEF Lists
        <4>8. \A i \in 1 .. Len(q) : es[q[i]].id \in BlockIds
          BY <1>8, <4>7
        <4> HIDE DEF Upto
        <4>9. Lists(q \o <<k>>, Upto(r + 1))
          <5>1. \A x \in Upto(r), y \in {k} : x < y
            BY <4>4
          <5> QED
            BY <3>2, <4>5, <4>6, <5>1, ListingConcat
        <4>10. IdsAt(es, q \o <<k>>) = IdsAt(es, q) \o IdsAt(es, <<k>>)
          <5>1. <<k>> \in Seq(Nat) /\ \A j \in 1 .. Len(<<k>>) : es[<<k>>[j]].id \in BlockIds
            BY <4>2
          <5> QED
            BY <4>7, <4>8, <5>1, IdsAtConcat
        <4>11. f[r + 1] = Append(IdsAt(es, q), es[k].id)
          BY <3>2, <3>3, <3>4, <4>3 DEF ChildrenNext
        <4>12. IdsAt(es, q) \in Seq(BlockIds)
          BY <4>7, <4>8, IdsAtIs
        <4>13. f[r + 1] = IdsAt(es, q \o <<k>>)
          BY <4>2, <4>6, <4>10, <4>11, <4>12, AppendIsConcat
        <4> QED
          BY <4>9, <4>13
      <3>5. CASE <<c, r + 1>> \notin DOMAIN s.byParent
        <4>1. f[r + 1] = f[r]
          BY <3>3, <3>5 DEF ChildrenNext
        <4>2. \A i \in Kids(D, n, m) : Rank(es, i) # r + 1
          BY <1>3, <3>5 DEF Kids
        <4>3. Upto(r + 1) = Upto(r)
          <5>1. \A i \in Kids(D, n, m) : Rank(es, i) <= r + 1 <=> Rank(es, i) <= r
            BY <1>8, <4>2
          <5> QED
            BY <5>1
        <4> QED
          BY <3>2, <4>1, <4>3
      <3> QED
        BY <3>4, <3>5
    <2> QED
      BY <2>1
  <1>11. \A r \in Nat : r \in J
    <2> HIDE DEF J
    <2> QED
      BY <1>9, <1>10, IndexInduction
  <1>12. PICK q : Lists(q, Upto(MaxIds)) /\ f[MaxIds] = IdsAt(es, q)
    <2>1. MaxIds \in J
      BY <1>n, <1>11
    <2>2. MaxIds <= MaxIds
      BY <1>n
    <2> QED
      BY <2>1, <2>2
  <1>13. Upto(MaxIds) = Kids(D, n, m)
    <2>1. \A k \in Kids(D, n, m) : Rank(es, k) <= MaxIds
      <3>1. n \in Nat
        BY <1>1 DEF n, es
      <3>2. n <= MaxIds
        BY <1>2 DEF n, es
      <3>3. \A k \in Kids(D, n, m) : Rank(es, k) \in 1 .. n
        BY <1>6, <1>8
      <3> QED
        BY <1>n, <3>1, <3>2, <3>3
    <2> QED
      BY <2>1
  <1> QED
    BY <1>5, <1>12, <1>13 DEF c, es, n

\* How the Blocks on a stack are read, one after the other.
ReadOne(s, p, f, pending) ==
    <<EntryRead(s, p, Head(pending))>> \o f[ChildrenOf(s, Head(pending)) \o Tail(pending)]
ReadSteps(s, p, f) ==
    f = [left \in 0 .. MaxIds |->
            [pending \in Seq(BlockIds) |->
                IF left = 0 \/ pending = <<>> THEN <<>>
                ELSE <<EntryRead(s, p, Head(pending))>>
                         \o f[left - 1][ChildrenOf(s, Head(pending)) \o Tail(pending)]]]

\* That reading exists, and ends with the outline.
LEMMA ReadStepsExist ==
    ASSUME NEW s, NEW p, \A b \in BlockIds : ChildrenOf(s, b) \in Seq(BlockIds)
    PROVE  \E f : /\ LoadOutline(s, p)
                        = [id |-> p, page |-> s.blocks[p], entries |-> f[MaxIds][ChildrenOf(s, p)]]
                  /\ \A stack \in Seq(BlockIds) : f[0][stack] = <<>>
                  /\ \A r \in 1 .. MaxIds, stack \in Seq(BlockIds) :
                        f[r][stack] = IF stack = <<>> THEN <<>> ELSE ReadOne(s, p, f[r - 1], stack)
  <1> DEFINE V == {EntryRead(s, p, b) : b \in BlockIds}
             Stacks == Seq(BlockIds)
             A == [Stacks -> Seq(V)]
             next(v) == [stack \in Stacks |->
                            IF stack = <<>> THEN <<>> ELSE ReadOne(s, p, v, stack)]
             F == [m \in 1 .. MaxIds |-> [v \in A |-> next(v)]]
             none == [stack \in Stacks |-> <<>>]
             c == CHOOSE f : ReadSteps(s, p, f)
  <1>n. MaxIds \in Nat
    BY MaxIdsAssumption
  <1>1. ASSUME NEW v \in A
        PROVE  next(v) \in A
    <2>1. ASSUME NEW stack \in Stacks, stack # <<>>
          PROVE  ReadOne(s, p, v, stack) \in Seq(V)
      <3>1. Head(stack) \in BlockIds /\ Tail(stack) \in Stacks
        BY <2>1
      <3>2. ChildrenOf(s, Head(stack)) \in Stacks
        BY <3>1
      <3>3. ChildrenOf(s, Head(stack)) \o Tail(stack) \in Stacks
        BY <3>1, <3>2
      <3>4. v[ChildrenOf(s, Head(stack)) \o Tail(stack)] \in Seq(V)
        BY <3>3
      <3>5. <<EntryRead(s, p, Head(stack))>> \in Seq(V)
        BY <3>1
      <3> QED
        BY <3>4, <3>5 DEF ReadOne
    <2>2. \A stack \in Stacks :
             (IF stack = <<>> THEN <<>> ELSE ReadOne(s, p, v, stack)) \in Seq(V)
      BY <2>1
    <2> QED
      BY <2>2
  <1>2. none \in A
    OBVIOUS
  <1>3. \A m \in 1 .. MaxIds, v \in A : F[m][v] = next(v)
    OBVIOUS
  <1>4. StepsIn(A, F, MaxIds)
    <2> HIDE DEF A, F, next
    <2> QED
      BY <1>1, <1>3 DEF StepsIn
  <1>5. PICK g : StepsFrom(A, none, F, MaxIds, g)
    <2> HIDE DEF A, F, none
    <2> QED
      BY <1>n, <1>2, <1>4, StepsExist
  <1> DEFINE body(f, m) ==
                 [stack \in Stacks |->
                     IF m = 0 \/ stack = <<>> THEN <<>> ELSE ReadOne(s, p, f[m - 1], stack)]
  <1>6. \A f : ReadSteps(s, p, f) <=> f = [m \in 0 .. MaxIds |-> body(f, m)]
    BY DEF ReadSteps, ReadOne
  <1>7. ReadSteps(s, p, g)
    <2>1. /\ g \in [0 .. MaxIds -> A] /\ g[0] = none
          /\ \A m \in 1 .. MaxIds : g[m] = F[m][g[m - 1]]
      <3> HIDE DEF A, F, none
      <3> QED
        BY <1>5 DEF StepsFrom
    <2>2. \A m \in 0 .. MaxIds : m # 0 => m \in 1 .. MaxIds /\ m - 1 \in 0 .. MaxIds
      BY <1>n
    <2>3. ASSUME NEW m \in 0 .. MaxIds
          PROVE  g[m] = body(g, m)
      <3>1. CASE m = 0
        BY <2>1, <3>1
      <3>2. CASE m # 0
        <4>1. m \in 1 .. MaxIds /\ g[m - 1] \in A
          <5> HIDE DEF A
          <5> QED
            BY <2>1, <2>2, <3>2
        <4>2. g[m] = F[m][g[m - 1]]
          BY <2>1, <4>1
        <4>3. F[m][g[m - 1]] = next(g[m - 1])
          <5> HIDE DEF A, F, next
          <5> QED
            BY <1>3, <4>1
        <4>4. next(g[m - 1]) = body(g, m)
          BY <3>2
        <4> QED
          BY <4>2, <4>3, <4>4
      <3> QED
        BY <3>1, <3>2
    <2>4. g = [m \in 0 .. MaxIds |-> g[m]]
      <3> HIDE DEF A, F, none
      <3> QED
        BY <2>1
    <2> HIDE DEF body
    <2>5. g = [m \in 0 .. MaxIds |-> body(g, m)]
      BY <2>3, <2>4
    <2> QED
      BY <1>6, <2>5
  <1>8. ReadSteps(s, p, c)
    BY <1>7
  <1>9. LoadOutline(s, p)
            = [id |-> p, page |-> s.blocks[p], entries |-> c[MaxIds][ChildrenOf(s, p)]]
    BY DEF LoadOutline, ReadSteps
  <1> HIDE DEF c
  <1>10. \A m \in 0 .. MaxIds : c[m] = body(c, m)
    <2> HIDE DEF body
    <2>1. c = [m \in 0 .. MaxIds |-> body(c, m)]
      BY <1>6, <1>8
    <2> QED
      BY <2>1
  <1>11. \A stack \in Seq(BlockIds) : c[0][stack] = <<>>
    <2>1. c[0] = body(c, 0)
      BY <1>n, <1>10
    <2> QED
      BY <2>1
  <1>12. ASSUME NEW r \in 1 .. MaxIds, NEW stack \in Seq(BlockIds)
         PROVE  c[r][stack] = IF stack = <<>> THEN <<>> ELSE ReadOne(s, p, c[r - 1], stack)
    <2>1. c[r] = body(c, r) /\ r # 0
      BY <1>n, <1>10
    <2>2. body(c, r)[stack] = IF stack = <<>> THEN <<>> ELSE ReadOne(s, p, c[r - 1], stack)
      BY <2>1
    <2> QED
      BY <2>1, <2>2
  <1> QED
    BY <1>9, <1>11, <1>12

\* The positions still to be read after the i-th, and the entries from there on.
Pending(D, n, i) == {k \in (i + 1) .. n : D[k] <= i}
Rest(es, i) == [j \in 1 .. (Len(es) - i) |-> es[i + j]]

\* The walk says who is pending.
LEMMA PendingIs ==
    ASSUME NEW D, NEW n \in Nat, Walk(D, n)
    PROVE  /\ Pending(D, n, 0) = Kids(D, n, 0)
           /\ Pending(D, n, n) = {}
           /\ \A i \in 0 .. (n - 1) :
                 /\ i + 1 \in Pending(D, n, i) /\ \A k \in Pending(D, n, i) : i + 1 <= k
                 /\ Pending(D, n, i + 1)
                       = Kids(D, n, i + 1) \cup (Pending(D, n, i) \ {i + 1})
                 /\ \A x \in Kids(D, n, i + 1), y \in Pending(D, n, i) \ {i + 1} : x < y
  <1>1. /\ \A k \in 1 .. n : D[k] \in Nat /\ D[k] < k
        /\ \A j, k \in 1 .. n : D[k] < j /\ j <= k => D[k] <= D[j]
    BY DEF Walk
  <1>2. Pending(D, n, 0) = Kids(D, n, 0)
    <2>1. \A k \in 1 .. n : D[k] <= 0 <=> D[k] = 0
      BY <1>1
    <2>2. (0 + 1) .. n = 1 .. n
      OBVIOUS
    <2> QED
      BY <2>1, <2>2 DEF Pending, Kids
  <1>3. Pending(D, n, n) = {}
    BY DEF Pending
  <1>4. ASSUME NEW i \in 0 .. (n - 1)
        PROVE  /\ i + 1 \in Pending(D, n, i) /\ \A k \in Pending(D, n, i) : i + 1 <= k
               /\ Pending(D, n, i + 1) = Kids(D, n, i + 1) \cup (Pending(D, n, i) \ {i + 1})
               /\ \A x \in Kids(D, n, i + 1), y \in Pending(D, n, i) \ {i + 1} : x < y
    <2>1. i + 1 \in 1 .. n /\ D[i + 1] \in Nat /\ D[i + 1] < i + 1
      BY <1>1
    <2>2. i + 1 \in Pending(D, n, i)
      BY <2>1 DEF Pending
    <2>3. \A k \in Pending(D, n, i) : i + 1 <= k
      BY DEF Pending
    <2>4. \A k : k \in Pending(D, n, i + 1)
                   <=> k \in Kids(D, n, i + 1) \/ k \in Pending(D, n, i) \ {i + 1}
      <3> SUFFICES ASSUME NEW k
                   PROVE  k \in Pending(D, n, i + 1)
                            <=> k \in Kids(D, n, i + 1) \/ k \in Pending(D, n, i) \ {i + 1}
        OBVIOUS
      <3>1. CASE k \in 1 .. n
        <4>1. D[k] \in Nat /\ D[k] < k
          BY <1>1, <3>1
        <4>2. k \in Pending(D, n, i + 1) <=> i + 2 <= k /\ D[k] <= i + 1
          BY <3>1 DEF Pending
        <4>3. k \in Pending(D, n, i) <=> i + 1 <= k /\ D[k] <= i
          BY <3>1 DEF Pending
        <4>4. k \in Kids(D, n, i + 1) <=> D[k] = i + 1
          BY <3>1 DEF Kids
        <4> QED
          BY <3>1, <4>1, <4>2, <4>3, <4>4
      <3>2. CASE k \notin 1 .. n
        BY <3>2 DEF Pending, Kids
      <3> QED
        BY <3>1, <3>2
    <2>5. ASSUME NEW x \in Kids(D, n, i + 1), NEW y \in Pending(D, n, i) \ {i + 1}
          PROVE  x < y
      <3>1. x \in 1 .. n /\ D[x] = i + 1
        BY DEF Kids
      <3>2. y \in 1 .. n /\ D[y] <= i /\ i + 1 < y /\ D[y] \in Nat
        BY <1>1 DEF Pending
      <3>3. ~(y <= x)
        BY <1>1, <3>1, <3>2
      <3> QED
        BY <3>1, <3>2, <3>3
    <2>6. Pending(D, n, i + 1) = Kids(D, n, i + 1) \cup (Pending(D, n, i) \ {i + 1})
      BY <2>4
    <2> QED
      BY <2>2, <2>3, <2>5, <2>6
  <1> QED
    BY <1>2, <1>3, <1>4

\* One entry and those behind it.
LEMMA RestIs ==
    ASSUME NEW V, NEW es \in Seq(V)
    PROVE  /\ Rest(es, Len(es)) = <<>> /\ Rest(es, 0) = es
           /\ \A i \in 0 .. (Len(es) - 1) : <<es[i + 1]>> \o Rest(es, i + 1) = Rest(es, i)
  <1> DEFINE n == Len(es)
  <1>1. n \in Nat /\ DOMAIN es = 1 .. n /\ \A j \in 1 .. n : es[j] \in V
    OBVIOUS
  <1>2. Rest(es, n) = <<>>
    <2>1. n - n = 0 /\ 1 .. 0 = {}
      BY <1>1
    <2> QED
      BY <2>1 DEF Rest
  <1>3. Rest(es, 0) = es
    <2>1. n - 0 = n /\ \A j \in 1 .. n : 0 + j = j
      BY <1>1
    <2>2. es = [j \in 1 .. n |-> es[j]]
      BY <1>1
    <2> QED
      BY <2>1, <2>2 DEF Rest
  <1>4. ASSUME NEW i \in 0 .. n
        PROVE  Rest(es, i) \in Seq(V) /\ Len(Rest(es, i)) = n - i
               /\ \A j \in 1 .. (n - i) : Rest(es, i)[j] = es[i + j]
    <2>1. n - i \in Nat /\ \A j \in 1 .. (n - i) : i + j \in 1 .. n
      BY <1>1
    <2>2. \A j \in 1 .. (n - i) : es[i + j] \in V
      BY <1>1, <2>1
    <2>3. Rest(es, i) \in [1 .. (n - i) -> V]
      BY <2>2 DEF Rest
    <2>4. Rest(es, i) \in Seq(V)
      BY <2>1, <2>3, SeqDef
    <2>5. Len(Rest(es, i)) = n - i
      BY <2>1, <2>3, <2>4, LenProperties
    <2> QED
      BY <2>4, <2>5 DEF Rest
  <1>5. ASSUME NEW i \in 0 .. (n - 1)
        PROVE  <<es[i + 1]>> \o Rest(es, i + 1) = Rest(es, i)
    <2> DEFINE a == <<es[i + 1]>>
               b == Rest(es, i + 1)
               t == a \o b
               u == Rest(es, i)
    <2>1. i \in 0 .. n /\ i + 1 \in 0 .. n /\ i + 1 \in 1 .. n /\ n - (i + 1) \in Nat
          /\ n - i = 1 + (n - (i + 1))
      BY <1>1
    <2>2. a \in Seq(V) /\ Len(a) = 1 /\ a[1] = es[i + 1]
      BY <1>1, <2>1
    <2>3. b \in Seq(V) /\ Len(b) = n - (i + 1) /\ \A j \in 1 .. (n - (i + 1)) : b[j] = es[(i + 1) + j]
      BY <1>4, <2>1
    <2>4. u \in Seq(V) /\ Len(u) = n - i /\ \A j \in 1 .. (n - i) : u[j] = es[i + j]
      BY <1>4, <2>1
    <2> HIDE DEF a, b, u, n
    <2>5. /\ t \in Seq(V) /\ Len(t) = Len(a) + Len(b)
          /\ \A j \in 1 .. Len(a) : t[j] = a[j]
          /\ \A j \in 1 .. Len(b) : t[Len(a) + j] = b[j]
      <3>1. a \in Seq(V)
        BY <2>2
      <3>2. b \in Seq(V)
        BY <2>3
      <3> QED
        BY ONLY <3>1, <3>2, ConcatIs
    <2> HIDE DEF t
    <2>6. \A j \in 1 .. (n - i) : t[j] = u[j]
      <3> SUFFICES ASSUME NEW j \in 1 .. (n - i)
                   PROVE  t[j] = u[j]
        OBVIOUS
      <3>1. CASE j = 1
        <4>1. 1 \in 1 .. 1
          OBVIOUS
        <4> QED
          BY <2>2, <2>4, <2>5, <3>1, <4>1
      <3>2. CASE j # 1
        <4> DEFINE k == j - 1
        <4>1. k \in 1 .. (n - (i + 1)) /\ 1 + k = j /\ (i + 1) + k = i + j
          BY <2>1, <3>2
        <4> HIDE DEF k
        <4>2. t[1 + k] = b[k]
          BY <2>2, <2>3, <2>5, <4>1
        <4>3. b[k] = es[(i + 1) + k]
          BY <2>3, <4>1
        <4> QED
          BY <2>4, <4>1, <4>2, <4>3
      <3> QED
        BY <3>1, <3>2
    <2>7. Len(t) = Len(u)
      BY <2>1, <2>2, <2>3, <2>4, <2>5
    <2>8. t = u
      BY <2>4, <2>5, <2>6, <2>7, SameEntries
    <2> QED
      BY <2>8 DEF t, a, b, u
  <1> QED
    BY <1>2, <1>3, <1>5

\* The identifiers at listed positions.
LEMMA ListedIds ==
    ASSUME NEW es, NEW n \in Nat, \A k \in 1 .. n : es[k].id \in BlockIds,
           NEW K \in SUBSET (1 .. n), NEW q, Lists(q, K)
    PROVE  /\ q \in Seq(Nat) /\ \A j \in 1 .. Len(q) : es[q[j]].id \in BlockIds
           /\ IdsAt(es, q) \in Seq(BlockIds)
  <1>1. q \in Seq(Nat) /\ \A j \in 1 .. Len(q) : q[j] \in K
    BY DEF Lists
  <1>2. \A j \in 1 .. Len(q) : es[q[j]].id \in BlockIds
    BY <1>1
  <1> QED
    BY <1>1, <1>2, IdsAtIs

\* The entry a Block stands for.
LEMMA EntryReadIs ==
    ASSUME NEW s, NEW A, NEW U, Paged(A, BlockIds, U), Holds(s, A), NEW p \in DOMAIN A,
           NEW k \in 1 .. Len(A[p].entries)
    PROVE  EntryRead(s, p, A[p].entries[k].id) = A[p].entries[k]
  <1> DEFINE es == A[p].entries
             e == es[k]
  <1>1. /\ DOMAIN es = 1 .. Len(es) /\ Len(es) \in Nat /\ \E D : Tree(es, D)
        /\ Named(es) /\ TopLevel \notin BlockIds
        /\ e \in Entry(BlockIds, Seq(STRING), U)
        /\ Ids(es) = {es[i].id : i \in 1 .. Len(es)}
    <2>1. Outlined(A[p], p, BlockIds, U)
      BY PagedIs
    <2> QED
      BY <2>1, OutlinedIs
  <1>2. s.blocks[e.id] = EntryBlock(e)
    BY <1>1 DEF Holds, BlocksAre
  <1>3. s.byChild[e.id][1] = Container(p, es, k)
    <2>1. PlacedAt(s, p, A[p].entries, k)
      BY HeldPlaces DEF Holds
    <2> QED
      BY <2>1 DEF PlacedAt
  <1>4. (IF Container(p, es, k) = p THEN TopLevel ELSE Container(p, es, k)) = e.parent
    <2>1. CASE e.parent = TopLevel
      BY <2>1 DEF Container
    <2>2. CASE e.parent # TopLevel
      <3>1. PICK D : Tree(es, D)
        BY <1>1
      <3>2. D[k] \in 0 .. (k - 1) /\ e.parent = IF D[k] = 0 THEN TopLevel ELSE es[D[k]].id
        BY <1>1, <3>1, ParentIs
      <3>3. D[k] \in 1 .. Len(es) /\ e.parent = es[D[k]].id
        BY <1>1, <2>2, <3>2
      <3>4. e.parent \in Ids(es)
        BY <1>1, <3>3
      <3>5. e.parent # p
        BY <3>4, PagedIs
      <3> QED
        BY <2>2, <3>5 DEF Container
    <2> QED
      BY <2>1, <2>2
  <1>5. e = [id |-> e.id, text |-> e.text, updated |-> e.updated, parent |-> e.parent]
    BY <1>1 DEF Entry
  <1>6. EntryRead(s, p, e.id) = [id |-> e.id, text |-> e.text, updated |-> e.updated, parent |-> e.parent]
    <2>1. s.blocks[e.id].text = e.text /\ s.blocks[e.id].updated = e.updated
      BY <1>2 DEF EntryBlock
    <2> HIDE DEF e
    <2> QED
      BY <1>3, <1>4, <2>1 DEF EntryRead
  <1> QED
    BY <1>5, <1>6

\* A Page is read as it is.
LEMMA LoadedIs ==
    ASSUME NEW s, NEW A, NEW U, Paged(A, BlockIds, U), Holds(s, A), NEW p \in DOMAIN A
    PROVE  LoadOutline(s, p) = A[p]
  <1> DEFINE es == A[p].entries
             n == Len(es)
  <1>n. MaxIds \in Nat
    BY MaxIdsAssumption
  <1>1. /\ n \in Nat /\ DOMAIN es = 1 .. n /\ Named(es) /\ \E D : Tree(es, D)
        /\ Ids(es) = {es[j].id : j \in 1 .. n} /\ Ids(es) \subseteq BlockIds
        /\ A[p].id = p /\ es \in Seq(Entry(BlockIds, Seq(STRING), U))
    <2>1. Outlined(A[p], p, BlockIds, U)
      BY PagedIs
    <2> QED
      BY <2>1, OutlinedIs
  <1>2. n <= MaxIds
    BY <1>1, LengthBound
  <1>3. PICK D : Tree(es, D)
    BY <1>1
  <1>4. \A b : ChildrenOf(s, b) \in Seq(BlockIds)
    <2> SUFFICES ASSUME NEW b
                 PROVE  ChildrenOf(s, b) \in Seq(BlockIds)
      OBVIOUS
    <2>1. \A k \in DOMAIN s.byParent : s.byParent[k] \in BlockIds
      BY HeldIds DEF Holds
    <2>2. PICK f : /\ ChildrenOf(s, b) = f[MaxIds]
                   /\ \A r \in 0 .. MaxIds : f[r] \in Seq(BlockIds)
      BY <2>1, ChildrenStepsExist
    <2> QED
      BY <1>n, <2>2
  <1>5. PICK f : /\ LoadOutline(s, p)
                        = [id |-> p, page |-> s.blocks[p], entries |-> f[MaxIds][ChildrenOf(s, p)]]
                 /\ \A stack \in Seq(BlockIds) : f[0][stack] = <<>>
                 /\ \A r \in 1 .. MaxIds, stack \in Seq(BlockIds) :
                       f[r][stack] = IF stack = <<>> THEN <<>> ELSE ReadOne(s, p, f[r - 1], stack)
    BY <1>4, ReadStepsExist
  <1>6. \A m \in 0 .. n : \E q : /\ Lists(q, Kids(D, n, m))
                                 /\ ChildrenOf(s, ContainerAt(p, es, m)) = IdsAt(es, q)
    BY <1>3, ChildrenAre DEF Holds
  <1>7. Walk(D, n)
    BY <1>3 DEF Tree
  <1>8. \A k \in 1 .. n : EntryRead(s, p, es[k].id) = es[k] /\ es[k].id \in BlockIds
    <2>1. \A k \in 1 .. n : EntryRead(s, p, es[k].id) = es[k]
      BY EntryReadIs
    <2> QED
      BY <1>1, <2>1
  <1>9. \A q, K : K \in SUBSET (1 .. n) /\ Lists(q, K) =>
            /\ q \in Seq(Nat) /\ \A j \in 1 .. Len(q) : es[q[j]].id \in BlockIds
            /\ IdsAt(es, q) \in Seq(BlockIds)
    BY <1>1, <1>8, ListedIds
  <1> DEFINE E == Entry(BlockIds, Seq(STRING), U)
  <1>e. es \in Seq(E)
    BY <1>1
  <1> HIDE DEF es, E
  <1>10. /\ Rest(es, n) = <<>> /\ Rest(es, 0) = es
         /\ \A i \in 0 .. (n - 1) : <<es[i + 1]>> \o Rest(es, i + 1) = Rest(es, i)
    BY <1>e, RestIs
  <1> HIDE DEF n
  <1>11. \A i \in 0 .. n : Pending(D, n, i) \in SUBSET (1 .. n) /\ Kids(D, n, i) \in SUBSET (1 .. n)
    BY <1>1 DEF Pending, Kids
  <1> DEFINE J == {left \in Nat : left <= MaxIds =>
                      \A i \in 0 .. n : n - i <= left =>
                          \A q : Lists(q, Pending(D, n, i)) =>
                                     f[left][IdsAt(es, q)] = Rest(es, i)}
  <1>12. ASSUME NEW r \in 0 .. MaxIds
         PROVE  f[r][<<>>] = <<>>
    <2>1. <<>> \in Seq(BlockIds)
      OBVIOUS
    <2>2. r = 0 \/ r \in 1 .. MaxIds
      BY <1>n
    <2> QED
      BY <1>5, <2>1, <2>2
  <1>13. ASSUME NEW r \in 0 .. MaxIds, NEW q, Lists(q, Pending(D, n, n))
         PROVE  f[r][IdsAt(es, q)] = Rest(es, n)
    <2>1. Pending(D, n, n) = {}
      BY <1>1, <1>7, PendingIs
    <2>2. q = <<>>
      BY <1>13, <2>1, ListingNone
    <2> QED
      BY <1>10, <1>12, <2>2, IdsAtNone
  <1>14. 0 \in J
    <2> SUFFICES ASSUME NEW i \in 0 .. n, n - i <= 0, NEW q, Lists(q, Pending(D, n, i))
                 PROVE  f[0][IdsAt(es, q)] = Rest(es, i)
      OBVIOUS
    <2>1. i = n /\ 0 \in 0 .. MaxIds
      BY <1>1, <1>n
    <2> QED
      BY <1>13, <2>1
  <1>15. ASSUME NEW left \in Nat, left \in J
         PROVE  left + 1 \in J
    <2>1. ASSUME left + 1 <= MaxIds, NEW i \in 0 .. n, n - i <= left + 1,
                 NEW q, Lists(q, Pending(D, n, i))
          PROVE  f[left + 1][IdsAt(es, q)] = Rest(es, i)
      <3>1. CASE i = n
        <4>1. left + 1 \in 0 .. MaxIds
          BY <1>n, <2>1
        <4> QED
          BY <1>13, <2>1, <3>1, <4>1
      <3>2. CASE i # n
        <4>1. /\ i \in 0 .. (n - 1) /\ i + 1 \in 1 .. n /\ i + 1 \in 0 .. n /\ n - (i + 1) <= left
              /\ left <= MaxIds /\ left + 1 \in 1 .. MaxIds /\ (left + 1) - 1 = left /\ i + 1 \in Nat
          BY <1>1, <1>n, <2>1, <3>2
        <4>2. /\ i + 1 \in Pending(D, n, i) /\ \A k \in Pending(D, n, i) : i + 1 <= k
              /\ Pending(D, n, i + 1) = Kids(D, n, i + 1) \cup (Pending(D, n, i) \ {i + 1})
              /\ \A x \in Kids(D, n, i + 1), y \in Pending(D, n, i) \ {i + 1} : x < y
          BY <1>1, <1>7, <4>1, PendingIs
        <4>3. q # <<>> /\ q[1] = i + 1 /\ Lists(Tail(q), Pending(D, n, i) \ {i + 1})
          BY <2>1, <4>1, <4>2, ListingFirst
        <4>4. PICK r : /\ Lists(r, Kids(D, n, i + 1))
                       /\ ChildrenOf(s, ContainerAt(p, es, i + 1)) = IdsAt(es, r)
          BY <1>6, <4>1
        <4>5. ContainerAt(p, es, i + 1) = es[i + 1].id
          BY <4>1 DEF ContainerAt
        <4> DEFINE t == Tail(q)
                   stack == IdsAt(es, q)
        <4>6. /\ q \in Seq(Nat) /\ \A j \in 1 .. Len(q) : es[q[j]].id \in BlockIds
              /\ stack \in Seq(BlockIds)
          BY <1>9, <1>11, <2>1
        <4>7. Pending(D, n, i) \ {i + 1} \in SUBSET (1 .. n)
          BY <1>11
        <4>8. t \in Seq(Nat) /\ \A j \in 1 .. Len(t) : es[t[j]].id \in BlockIds
          BY <1>9, <4>3, <4>7
        <4>9. r \in Seq(Nat) /\ \A j \in 1 .. Len(r) : es[r[j]].id \in BlockIds
          BY <1>9, <1>11, <4>1, <4>4
        <4>10. stack # <<>> /\ Head(stack) = es[i + 1].id /\ Tail(stack) = IdsAt(es, t)
          BY <4>3, <4>6, IdsAtTail
        <4> HIDE DEF t
        <4>11. Lists(r \o t, Pending(D, n, i + 1))
          BY <4>2, <4>3, <4>4, ListingConcat DEF t
        <4>12. IdsAt(es, r \o t) = IdsAt(es, r) \o IdsAt(es, t)
          <5>1. r \in Seq(Nat)
            BY <4>9
          <5>2. t \in Seq(Nat)
            BY <4>8
          <5>3. \A j \in 1 .. Len(r) : es[r[j]].id \in BlockIds
            BY <4>9
          <5>4. \A j \in 1 .. Len(t) : es[t[j]].id \in BlockIds
            BY <4>8
          <5> QED
            BY ONLY <5>1, <5>2, <5>3, <5>4, IdsAtConcat
        <4> HIDE DEF stack
        <4>13. f[left + 1][stack] = ReadOne(s, p, f[left], stack)
          BY <1>5, <4>1, <4>6, <4>10
        <4>14. ChildrenOf(s, Head(stack)) \o Tail(stack) = IdsAt(es, r \o t)
          BY <4>4, <4>5, <4>10, <4>12
        <4>15. EntryRead(s, p, Head(stack)) = es[i + 1]
          BY <1>8, <4>1, <4>10
        <4>16. f[left][IdsAt(es, r \o t)] = Rest(es, i + 1)
          BY <1>15, <4>1, <4>11
        <4>17. f[left + 1][stack] = <<es[i + 1]>> \o Rest(es, i + 1)
          BY <4>13, <4>14, <4>15, <4>16 DEF ReadOne
        <4> QED
          BY <1>10, <4>1, <4>17 DEF stack
      <3> QED
        BY <3>1, <3>2
    <2> QED
      BY <2>1
  <1>16. MaxIds \in J
    <2> HIDE DEF J
    <2> QED
      BY <1>n, <1>14, <1>15, IndexInduction
  <1>17. f[MaxIds][ChildrenOf(s, p)] = es
    <2>1. 0 \in 0 .. n /\ n - 0 <= MaxIds /\ MaxIds <= MaxIds
      BY <1>1, <1>2, <1>n DEF n
    <2>2. PICK q : /\ Lists(q, Kids(D, n, 0))
                   /\ ChildrenOf(s, ContainerAt(p, es, 0)) = IdsAt(es, q)
      BY <1>6, <2>1
    <2>3. ContainerAt(p, es, 0) = p
      BY DEF ContainerAt
    <2>4. Pending(D, n, 0) = Kids(D, n, 0)
      BY <1>1, <1>7, PendingIs
    <2> QED
      BY <1>10, <1>16, <2>1, <2>2, <2>3, <2>4
  <1>18. s.blocks[p] = A[p].page
    BY DEF Holds, BlocksAre
  <1>19. A[p] = [id |-> p, page |-> A[p].page, entries |-> A[p].entries]
    BY PagedIs DEF Outlined
  <1> QED
    BY <1>5, <1>17, <1>18, <1>19 DEF es

\* An entry is directly on its Page or under an entry before it.
LEMMA ContainerIs ==
    ASSUME NEW A, NEW I, NEW U, Paged(A, I, U), NEW p \in DOMAIN A,
           NEW i \in 1 .. Len(A[p].entries)
    PROVE  \/ Container(p, A[p].entries, i) = p
           \/ \E j \in 1 .. (i - 1) : /\ j \in 1 .. Len(A[p].entries)
                                      /\ Container(p, A[p].entries, i) = A[p].entries[j].id
  <1> DEFINE es == A[p].entries
  <1>1. Len(es) \in Nat /\ Named(es) /\ \E D : Tree(es, D)
    <2>1. Outlined(A[p], p, I, U)
      BY PagedIs
    <2> QED
      BY <2>1, OutlinedIs
  <1>2. PICK D : Tree(es, D)
    BY <1>1
  <1>3. D[i] \in 0 .. (i - 1) /\ es[i].parent = IF D[i] = 0 THEN TopLevel ELSE es[D[i]].id
    BY <1>1, <1>2, ParentIs
  <1>4. CASE D[i] = 0
    BY <1>3, <1>4 DEF Container
  <1>5. CASE D[i] # 0
    <2>1. D[i] \in 1 .. (i - 1) /\ D[i] \in 1 .. Len(es)
      BY <1>1, <1>3, <1>5
    <2>2. es[D[i]].id # TopLevel
      BY <1>1, <2>1 DEF Named
    <2>3. Container(p, es, i) = es[D[i]].id
      BY <1>3, <1>5, <2>2 DEF Container
    <2> QED
      BY <2>1, <2>3
  <1> QED
    BY <1>4, <1>5

\* Which Blocks are Pages and which are entries.
LEMMA HeldKinds ==
    ASSUME NEW s, NEW A, NEW I, NEW U, Paged(A, I, U), BlocksAre(s, A)
    PROVE  /\ PageIds(s) = DOMAIN A /\ EntryIds(s) = EntriesOf(A)
           /\ \A b : IsPage(s, b) <=> b \in DOMAIN A
           /\ \A p \in DOMAIN A : s.blocks[p] = A[p].page
  <1>1. ASSUME NEW p \in DOMAIN A
        PROVE  p \in DOMAIN s.blocks /\ s.blocks[p] = A[p].page /\ s.blocks[p].kind # "entry"
    <2>1. A[p].page \in PageBlocks
      BY PagedIs DEF Outlined
    <2>2. A[p].page.kind # "entry"
      BY <2>1 DEF PageBlocks
    <2> QED
      BY <2>2 DEF BlocksAre
  <1>2. ASSUME NEW b \in EntriesOf(A)
        PROVE  b \in DOMAIN s.blocks /\ s.blocks[b].kind = "entry"
    <2>1. PICK p \in DOMAIN A : b \in Ids(A[p].entries)
      BY PagedIs
    <2>2. PICK i \in DOMAIN A[p].entries : b = A[p].entries[i].id
      BY <2>1 DEF Ids
    <2>3. s.blocks[b] = EntryBlock(A[p].entries[i])
      BY <2>2 DEF BlocksAre
    <2> QED
      BY <2>3 DEF BlocksAre, EntryBlock
  <1>3. DOMAIN s.blocks = DOMAIN A \cup EntriesOf(A)
    BY DEF BlocksAre
  <1> QED
    BY <1>1, <1>2, <1>3 DEF PageIds, EntryIds, IsPage, IsEntry

\* How the Page of a Block is found, and that it is found.
PageSteps(s, f) ==
    f = [b \in DOMAIN s.blocks |-> IF IsPage(s, b) THEN b ELSE f[s.byChild[b][1]]]

\* The climb from an entry (loadOutlineForEntry) ends at the Page whose outline it is in.
LEMMA PageOfIs ==
    ASSUME NEW s, NEW A, NEW I, NEW U, Paged(A, I, U), Holds(s, A), NEW p \in DOMAIN A,
           NEW e \in Ids(A[p].entries)
    PROVE  PageOf(s, e) = p
  <1> DEFINE on(b) == CHOOSE q \in DOMAIN A : b \in Ids(A[q].entries)
             h == [b \in DOMAIN s.blocks |-> IF IsPage(s, b) THEN b ELSE on(b)]
             c == CHOOSE f : PageSteps(s, f)
             es == A[p].entries
             n == Len(es)
  <1>1. DOMAIN s.blocks = DOMAIN A \cup EntriesOf(A) /\ \A b : IsPage(s, b) <=> b \in DOMAIN A
    <2>1. BlocksAre(s, A)
      BY DEF Holds
    <2>2. \A b : IsPage(s, b) <=> b \in DOMAIN A
      BY <2>1, HeldKinds
    <2> QED
      BY <2>1, <2>2 DEF BlocksAre
  <1>2. /\ \A q \in DOMAIN A : \A b \in Ids(A[q].entries) : b \in EntriesOf(A) /\ b \notin DOMAIN A
        /\ \A b \in EntriesOf(A) : \E q \in DOMAIN A : b \in Ids(A[q].entries)
        /\ \A q, r \in DOMAIN A : \A b \in Ids(A[q].entries) : b \in Ids(A[r].entries) => q = r
    BY PagedIs
  <1>3. \A q \in DOMAIN A : \A b \in Ids(A[q].entries) : on(b) = q
    <2> SUFFICES ASSUME NEW q \in DOMAIN A, NEW b \in Ids(A[q].entries)
                 PROVE  on(b) = q
      OBVIOUS
    <2>1. on(b) \in DOMAIN A /\ b \in Ids(A[on(b)].entries)
      OBVIOUS
    <2> HIDE DEF on
    <2> QED
      BY <1>2, <2>1
  <1> HIDE DEF on
  <1>4. ASSUME NEW q \in DOMAIN A, NEW i \in 1 .. Len(A[q].entries)
        PROVE  /\ s.byChild[A[q].entries[i].id][1] = Container(q, A[q].entries, i)
               /\ A[q].entries[i].id \in Ids(A[q].entries)
    <2>1. PlacedAt(s, q, A[q].entries, i)
      BY HeldPlaces DEF Holds
    <2>2. Outlined(A[q], q, I, U)
      BY PagedIs
    <2>3. Ids(A[q].entries) = {A[q].entries[j].id : j \in 1 .. Len(A[q].entries)}
      BY <2>2, OutlinedIs
    <2> QED
      BY <2>1, <2>3 DEF PlacedAt
  <1>5. PageSteps(s, h)
    <2>1. ASSUME NEW b \in DOMAIN s.blocks
          PROVE  h[b] = IF IsPage(s, b) THEN b ELSE h[s.byChild[b][1]]
      <3>1. CASE IsPage(s, b)
        BY <3>1
      <3>2. CASE ~IsPage(s, b)
        <4>1. b \in EntriesOf(A)
          BY <1>1, <3>2
        <4>2. PICK q \in DOMAIN A : b \in Ids(A[q].entries)
          BY <1>2, <4>1
        <4>3. PICK i \in 1 .. Len(A[q].entries) : b = A[q].entries[i].id
          <5>1. Outlined(A[q], q, I, U)
            BY PagedIs
          <5> QED
            BY <4>2, <5>1, OutlinedIs
        <4>4. h[b] = q
          BY <1>3, <3>2, <4>2
        <4> DEFINE k == Container(q, A[q].entries, i)
        <4>5. s.byChild[b][1] = k
          BY <1>4, <4>3
        <4>6. k = q \/ k \in Ids(A[q].entries)
          BY <1>4, ContainerIs
        <4> HIDE DEF k
        <4>7. h[k] = q
          <5>1. CASE k = q
            BY <1>1, <5>1
          <5>2. CASE k \in Ids(A[q].entries)
            <6>1. k \in EntriesOf(A) /\ k \notin DOMAIN A
              BY <1>2, <5>2
            <6> QED
              BY <1>1, <1>3, <5>2, <6>1
          <5> QED
            BY <4>6, <5>1, <5>2
        <4> HIDE DEF h
        <4> QED
          BY <3>2, <4>4, <4>5, <4>7
      <3> QED
        BY <3>1, <3>2
    <2>2. h = [b \in DOMAIN s.blocks |-> h[b]]
      OBVIOUS
    <2> HIDE DEF h
    <2> QED
      BY <2>1, <2>2 DEF PageSteps
  <1>6. PageSteps(s, c)
    BY <1>5
  <1>7. PageOf(s, e) = c[e]
    BY DEF PageOf, PageSteps
  <1> HIDE DEF c
  <1>8. \A b \in DOMAIN s.blocks : c[b] = IF IsPage(s, b) THEN b ELSE c[s.byChild[b][1]]
    BY <1>6 DEF PageSteps
  <1>9. /\ n \in Nat /\ Ids(es) = {es[i].id : i \in 1 .. n}
    <2>1. Outlined(A[p], p, I, U)
      BY PagedIs
    <2> QED
      BY <2>1, OutlinedIs
  <1>10. c[p] = p
    BY <1>1, <1>8
  <1> DEFINE J == {m \in Nat : \A i \in 1 .. n : i <= m => c[es[i].id] = p}
  <1>11. 0 \in J
    BY <1>9
  <1>12. ASSUME NEW m \in Nat, m \in J
         PROVE  m + 1 \in J
    <2> SUFFICES ASSUME NEW i \in 1 .. n, i <= m + 1
                 PROVE  c[es[i].id] = p
      OBVIOUS
    <2>1. es[i].id \in DOMAIN s.blocks /\ ~IsPage(s, es[i].id)
      BY <1>1, <1>2, <1>4
    <2>2. c[es[i].id] = c[Container(p, es, i)]
      BY <1>4, <1>8, <2>1
    <2>3. CASE Container(p, es, i) = p
      BY <1>10, <2>2, <2>3
    <2>4. CASE Container(p, es, i) # p
      <3>1. PICK j \in 1 .. (i - 1) : j \in 1 .. n /\ Container(p, es, i) = es[j].id
        BY <2>4, ContainerIs
      <3>2. j <= m
        BY <1>9, <3>1
      <3>3. c[es[j].id] = p
        BY <1>12, <3>1, <3>2
      <3> QED
        BY <2>2, <3>1, <3>3
    <2> QED
      BY <2>3, <2>4
  <1>13. n \in J
    <2> HIDE DEF J
    <2> QED
      BY <1>9, <1>11, <1>12, IndexInduction
  <1>14. PICK i \in 1 .. n : e = es[i].id
    BY <1>9
  <1> QED
    BY <1>7, <1>9, <1>13, <1>14

\* The Page of a date.
LEMMA LoadedForDate ==
    ASSUME NEW s, NEW A, NEW U, Paged(A, BlockIds, U), Holds(s, A), NEW date
    PROVE  /\ \A p \in DOMAIN A : PageKey(A[p].page) = <<"journal", date>> =>
                  LoadOutlineForDate(s, date) = A[p]
           /\ (\A p \in DOMAIN A : PageKey(A[p].page) # <<"journal", date>>) =>
                  LoadOutlineForDate(s, date) = Absent
           /\ <<"journal", date>> \in DOMAIN s.pages
                <=> \E p \in DOMAIN A : PageKey(A[p].page) = <<"journal", date>>
  <1>1. /\ DOMAIN s.pages = {PageKey(A[p].page) : p \in DOMAIN A}
        /\ \A p \in DOMAIN A : s.pages[PageKey(A[p].page)] = p
    BY DEF Holds, KeysAre
  <1>2. \A p \in DOMAIN A : LoadOutline(s, p) = A[p]
    BY LoadedIs
  <1> QED
    BY <1>1, <1>2 DEF LoadOutlineForDate

\* What the databases hold is rooted in Pages, and the Pages are found by their keys.
LEMMA HeldIsRooted ==
    ASSUME NEW s, NEW A, NEW U, Paged(A, BlockIds, U), Holds(s, A)
    PROVE  PageRooted(s) /\ PagesIndexed(s)
  <1>1. /\ PageIds(s) = DOMAIN A /\ EntryIds(s) = EntriesOf(A)
        /\ \A b : IsPage(s, b) <=> b \in DOMAIN A
        /\ \A p \in DOMAIN A : s.blocks[p] = A[p].page
    BY HeldKinds DEF Holds
  <1>2. \A p \in DOMAIN A : LoadOutline(s, p) = A[p]
    BY LoadedIs
  <1>3. /\ DOMAIN s.byChild = EntriesOf(A)
        /\ DOMAIN s.byParent = {s.byChild[b] : b \in EntriesOf(A)}
        /\ \A b \in EntriesOf(A) : s.byParent[s.byChild[b]] = b
    BY DEF Holds, PlacesAre
  <1>4. /\ \A k \in DOMAIN s.byParent : s.byParent[k] \in DOMAIN s.byChild
                                       /\ s.byChild[s.byParent[k]] = k
        /\ \A b \in DOMAIN s.byChild : s.byChild[b] \in DOMAIN s.byParent
                                      /\ s.byParent[s.byChild[b]] = b
    BY <1>3
  <1>5. \A p \in DOMAIN A : InPreorder(A[p].entries)
    <2> SUFFICES ASSUME NEW p \in DOMAIN A
                 PROVE  InPreorder(A[p].entries)
      OBVIOUS
    <2>1. Outlined(A[p], p, BlockIds, U)
      BY PagedIs
    <2>2. /\ Len(A[p].entries) \in Nat /\ DOMAIN A[p].entries = 1 .. Len(A[p].entries)
          /\ \E D : Tree(A[p].entries, D)
      BY <2>1, OutlinedIs
    <2> QED
      BY <2>2, TreeInPreorder
  <1>6. \A p, q \in DOMAIN A : p # q =>
            Ids(A[p].entries) \cap Ids(A[q].entries) = {} /\ PageKey(A[p].page) # PageKey(A[q].page)
    BY DEF Paged, Separate
  <1>7. PageRooted(s)
    <2>1. EntriesOf(A) = UNION {Ids(LoadOutline(s, p).entries) : p \in DOMAIN A}
      BY <1>2 DEF EntriesOf
    <2>2. \A p \in DOMAIN A : InPreorder(LoadOutline(s, p).entries)
      BY <1>2, <1>5
    <2>3. \A p, q \in DOMAIN A : p # q =>
              Ids(LoadOutline(s, p).entries) \cap Ids(LoadOutline(s, q).entries) = {}
      BY <1>2, <1>6
    <2> QED
      BY <1>1, <1>3, <1>4, <2>1, <2>2, <2>3 DEF PageRooted
  <1>8. PagesIndexed(s)
    BY <1>1 DEF Holds, KeysAre, PagesIndexed
  <1> QED
    BY <1>7, <1>8

-----------------------------------------------------------------------------
\* What a transaction writes: the Blocks, the two databases of the ordering and the
\* index of the Pages, one write after the other.

\* h is f over g, or f cut down to S.
IsOver(h, f, g) ==
    /\ DOMAIN h = DOMAIN f \cup DOMAIN g
    /\ \A x \in DOMAIN f : h[x] = f[x]
    /\ \A x \in DOMAIN g : x \notin DOMAIN f => h[x] = g[x]
IsCut(h, f, S) == DOMAIN h = S /\ \A x \in S : h[x] = f[x]

\* Writing over a database keeps the other keys.
LEMMA OverIs == \A f, g : IsOver(Over(f, g), f, g)
  BY DEF Over, IsOver

\* Deleting keys keeps the others.
LEMMA CutIs == \A f, S : IsCut(Restrict(f, S), f, S)
  BY DEF Restrict, IsCut

\* Either way the result is a database.
LEMMA DatabaseIs ==
    /\ \A f, g : IsDatabase(Over(f, g))
    /\ \A f, S : IsDatabase(Restrict(f, S))
  BY DEF Over, Restrict, IsDatabase

\* The two databases of the ordering are the same; only they may differ.
SameOrder(s, t) == t.byChild = s.byChild /\ t.byParent = s.byParent
SameRest(s, t) == t.blocks = s.blocks /\ t.pages = s.pages /\ t.revision = s.revision

\* A commit advances the revision.
LEMMA Committing ==
    ASSUME NEW s, IsStore(s)
    PROVE  /\ IsStore(Committed(s)) /\ SameOrder(s, Committed(s))
           /\ Committed(s).blocks = s.blocks /\ Committed(s).pages = s.pages
           /\ Committed(s).revision = s.revision + 1
  <1> DEFINE t == Committed(s)
  <1>1. t = [s EXCEPT !.revision = @ + 1]
    BY DEF Committed
  <1> HIDE DEF t
  <1>2. /\ IsStore(t) /\ SameOrder(s, t) /\ t.blocks = s.blocks /\ t.pages = s.pages
        /\ t.revision = s.revision + 1
    BY <1>1 DEF IsStore, SameOrder
  <1> QED
    BY <1>2 DEF t

\* Erasing or writing the ordering changes the two databases of it.
IsErased(t, s, ids) ==
    /\ IsStore(t) /\ SameRest(s, t)
    /\ t.byChild = Restrict(s.byChild, DOMAIN s.byChild \ ids)
    /\ t.byParent = Restrict(s.byParent, DOMAIN s.byParent \ {s.byChild[b] : b \in ids})
IsWritten(t, s, at) ==
    /\ IsStore(t) /\ SameRest(s, t)
    /\ t.byChild = Over(at, s.byChild)
    /\ t.byParent = Over([k \in Range(at) |-> CHOOSE b \in DOMAIN at : at[b] = k], s.byParent)

\* eraseContainment takes the Blocks out of the two databases of the ordering only.
LEMMA Erasing ==
    ASSUME NEW s, IsStore(s), NEW ids
    PROVE  IsErased(EraseContainment(s, ids), s, ids)
  <1> DEFINE y == Restrict(s.byChild, DOMAIN s.byChild \ ids)
             x == Restrict(s.byParent, DOMAIN s.byParent \ {s.byChild[b] : b \in ids})
             t == EraseContainment(s, ids)
  <1>1. t = [s EXCEPT !.byParent = x, !.byChild = y]
    BY DEF EraseContainment
  <1>2. IsDatabase(x) /\ IsDatabase(y)
    BY DatabaseIs
  <1> HIDE DEF x, y, t
  <1>3. IsStore(t) /\ SameRest(s, t) /\ t.byParent = x /\ t.byChild = y
    BY <1>1, <1>2 DEF IsStore, SameRest
  <1> QED
    BY <1>3 DEF x, y, t, IsErased

\* rewriteContainment writes the placements of one outline to the same two.
LEMMA Writing ==
    ASSUME NEW s, IsStore(s), NEW o
    PROVE  IsWritten(WriteContainment(s, o), s, Placements(o))
  <1> DEFINE at == Placements(o)
             y == Over(at, s.byChild)
             x == Over([k \in Range(at) |-> CHOOSE b \in DOMAIN at : at[b] = k], s.byParent)
             t == WriteContainment(s, o)
  <1>1. t = [s EXCEPT !.byChild = y, !.byParent = x]
    BY DEF WriteContainment
  <1>2. IsDatabase(x) /\ IsDatabase(y)
    BY DatabaseIs
  <1> HIDE DEF x, y, t
  <1>3. IsStore(t) /\ SameRest(s, t) /\ t.byParent = x /\ t.byChild = y
    BY <1>1, <1>2 DEF IsStore, SameRest
  <1> QED
    BY <1>3 DEF x, y, t, IsWritten

\* The Blocks that one outline, one Page, or a rename writes.
EntryBlocks(o) ==
    [b \in Ids(o.entries) |-> EntryBlock(o.entries[PositionOf(o.entries, b)])]
TextBlocks(s, texts, side) ==
    [e \in DOMAIN texts |-> [s.blocks[e] EXCEPT !.text = texts[e][side]]]

\* Only the Blocks differ.
SameButBlocks(s, t) == SameOrder(s, t) /\ t.pages = s.pages /\ t.revision = s.revision

IsBlocked(t, s, blocks) == IsStore(t) /\ SameButBlocks(s, t) /\ t.blocks = blocks
IsIndexed(t, s, pages) ==
    /\ IsStore(t) /\ SameOrder(s, t) /\ t.blocks = s.blocks /\ t.revision = s.revision
    /\ t.pages = pages

\* Writing entries, a Page or texts, and deleting Blocks, leaves the ordering, the index
\* and the revision alone.
LEMMA WritingBlocks ==
    ASSUME NEW s, IsStore(s), NEW o, NEW ids, NEW texts, NEW side
    PROVE  /\ IsBlocked(WriteEntries(s, o), s, Over(EntryBlocks(o), s.blocks))
           /\ IsBlocked(WritePage(s, o), s, Over([b \in {o.id} |-> o.page], s.blocks))
           /\ IsBlocked(DeleteBlocks(s, ids), s, Restrict(s.blocks, DOMAIN s.blocks \ ids))
           /\ IsBlocked(WriteTexts(s, texts, side), s, Over(TextBlocks(s, texts, side), s.blocks))
  <1>2. IsBlocked(WriteEntries(s, o), s, Over(EntryBlocks(o), s.blocks))
    <2> DEFINE x == Over(EntryBlocks(o), s.blocks)
               t == WriteEntries(s, o)
    <2>1. t = [s EXCEPT !.blocks = x]
      BY DEF WriteEntries, EntryBlocks
    <2>2. IsDatabase(x)
      BY DatabaseIs
    <2> HIDE DEF x, t
    <2>3. IsStore(t) /\ SameButBlocks(s, t) /\ t.blocks = x
      BY <2>1, <2>2 DEF IsStore, SameButBlocks, SameOrder
    <2> QED
      BY <2>3 DEF x, t, IsBlocked
  <1>3. IsBlocked(WritePage(s, o), s, Over([b \in {o.id} |-> o.page], s.blocks))
    <2> DEFINE x == Over([b \in {o.id} |-> o.page], s.blocks)
               t == WritePage(s, o)
    <2>1. t = [s EXCEPT !.blocks = x]
      BY DEF WritePage
    <2>2. IsDatabase(x)
      BY DatabaseIs
    <2> HIDE DEF x, t
    <2>3. IsStore(t) /\ SameButBlocks(s, t) /\ t.blocks = x
      BY <2>1, <2>2 DEF IsStore, SameButBlocks, SameOrder
    <2> QED
      BY <2>3 DEF x, t, IsBlocked
  <1>4. IsBlocked(DeleteBlocks(s, ids), s, Restrict(s.blocks, DOMAIN s.blocks \ ids))
    <2> DEFINE x == Restrict(s.blocks, DOMAIN s.blocks \ ids)
               t == DeleteBlocks(s, ids)
    <2>1. t = [s EXCEPT !.blocks = x]
      BY DEF DeleteBlocks
    <2>2. IsDatabase(x)
      BY DatabaseIs
    <2> HIDE DEF x, t
    <2>3. IsStore(t) /\ SameButBlocks(s, t) /\ t.blocks = x
      BY <2>1, <2>2 DEF IsStore, SameButBlocks, SameOrder
    <2> QED
      BY <2>3 DEF x, t, IsBlocked
  <1>5. IsBlocked(WriteTexts(s, texts, side), s, Over(TextBlocks(s, texts, side), s.blocks))
    <2> DEFINE x == Over(TextBlocks(s, texts, side), s.blocks)
               t == WriteTexts(s, texts, side)
    <2>1. t = [s EXCEPT !.blocks = x]
      BY DEF WriteTexts, TextBlocks
    <2>2. IsDatabase(x)
      BY DatabaseIs
    <2> HIDE DEF x, t
    <2>3. IsStore(t) /\ SameButBlocks(s, t) /\ t.blocks = x
      BY <2>1, <2>2 DEF IsStore, SameButBlocks, SameOrder
    <2> QED
      BY <2>3 DEF x, t, IsBlocked
  <1> QED
    BY <1>2, <1>3, <1>4, <1>5

\* Entering a Page in the index, or taking it out, changes that key only.
LEMMA Indexing ==
    ASSUME NEW s, IsStore(s), NEW o
    PROVE  /\ IsIndexed(IndexPage(s, o), s, Over([k \in {PageKey(o.page)} |-> o.id], s.pages))
           /\ IsIndexed(UnindexPage(s, o), s, Restrict(s.pages, DOMAIN s.pages \ {PageKey(o.page)}))
  <1>1. IsIndexed(IndexPage(s, o), s, Over([k \in {PageKey(o.page)} |-> o.id], s.pages))
    <2> DEFINE x == Over([k \in {PageKey(o.page)} |-> o.id], s.pages)
               t == IndexPage(s, o)
    <2>1. t = [s EXCEPT !.pages = x]
      BY DEF IndexPage
    <2>2. IsDatabase(x)
      BY DatabaseIs
    <2> HIDE DEF x, t
    <2>3. /\ IsStore(t) /\ SameOrder(s, t) /\ t.blocks = s.blocks
          /\ t.revision = s.revision /\ t.pages = x
      BY <2>1, <2>2 DEF IsStore, SameOrder
    <2> QED
      BY <2>3 DEF x, t, IsIndexed
  <1>2. IsIndexed(UnindexPage(s, o), s, Restrict(s.pages, DOMAIN s.pages \ {PageKey(o.page)}))
    <2> DEFINE x == Restrict(s.pages, DOMAIN s.pages \ {PageKey(o.page)})
               t == UnindexPage(s, o)
    <2>1. t = [s EXCEPT !.pages = x]
      BY DEF UnindexPage
    <2>2. IsDatabase(x)
      BY DatabaseIs
    <2> HIDE DEF x, t
    <2>3. /\ IsStore(t) /\ SameOrder(s, t) /\ t.blocks = s.blocks
          /\ t.revision = s.revision /\ t.pages = x
      BY <2>1, <2>2 DEF IsStore, SameOrder
    <2> QED
      BY <2>3 DEF x, t, IsIndexed
  <1> QED
    BY <1>1, <1>2

\* The Pages with one more (or another one for it), and without some.
Put(A, o) == [q \in DOMAIN A \cup {o.id} |-> IF q = o.id THEN o ELSE A[q]]
Drop(A, P) == [q \in DOMAIN A \ P |-> A[q]]

IsMap(A) == A = [q \in DOMAIN A |-> A[q]]

\* A Page that none of the others is in the way of.
Fits(A, o) ==
    /\ o.id \notin DOMAIN A /\ o.id \notin EntriesOf(A) /\ o.id \notin Ids(o.entries)
    /\ Ids(o.entries) \cap DOMAIN A = {} /\ Ids(o.entries) \cap EntriesOf(A) = {}
    /\ \A q \in DOMAIN A : PageKey(A[q].page) # PageKey(o.page)

\* R is A without P.
Leaves(R, A, P) ==
    /\ DOMAIN R = DOMAIN A \ P /\ \A q \in DOMAIN A \ P : R[q] = A[q]
    /\ IsMap(R) /\ EntriesOf(R) \subseteq EntriesOf(A)
    /\ \A p \in P \cap DOMAIN A : Ids(A[p].entries) \cap EntriesOf(R) = {}
    /\ \A b \in EntriesOf(A) : \/ b \in EntriesOf(R)
                               \/ \E p \in P \cap DOMAIN A : b \in Ids(A[p].entries)

\* Taking some Pages out of a Notebook leaves a Notebook without their entries.
LEMMA DropIs ==
    ASSUME NEW A, NEW I, NEW U, Paged(A, I, U), NEW P
    PROVE  Leaves(Drop(A, P), A, P) /\ Paged(Drop(A, P), I, U)
  <1> DEFINE R == Drop(A, P)
  <1>1. /\ DOMAIN R = DOMAIN A \ P /\ \A q \in DOMAIN A \ P : R[q] = A[q]
        /\ IsMap(R)
    BY DEF Drop, IsMap
  <1> HIDE DEF R
  <1>2. EntriesOf(R) \subseteq EntriesOf(A)
    BY <1>1 DEF EntriesOf
  <1>3. Paged(R, I, U)
    BY <1>1, <1>2 DEF Paged, IsMap
  <1>4. \A p \in P \cap DOMAIN A : Ids(A[p].entries) \cap EntriesOf(R) = {}
    <2> SUFFICES ASSUME NEW p \in P \cap DOMAIN A, NEW b \in Ids(A[p].entries), b \in EntriesOf(R)
                 PROVE  FALSE
      OBVIOUS
    <2>1. PICK q \in DOMAIN R : b \in Ids(R[q].entries)
      BY DEF EntriesOf
    <2>2. q \in DOMAIN A /\ q \notin P /\ b \in Ids(A[q].entries)
      BY <1>1, <2>1
    <2> QED
      BY <2>2, PagedIs
  <1>5. \A b \in EntriesOf(A) : \/ b \in EntriesOf(R)
                                \/ \E p \in P \cap DOMAIN A : b \in Ids(A[p].entries)
    BY <1>1 DEF EntriesOf
  <1> QED
    BY <1>1, <1>2, <1>3, <1>4, <1>5 DEF R, Leaves

\* B is A and the Page o.
Joins(B, A, o) ==
    /\ DOMAIN B = DOMAIN A \cup {o.id} /\ B[o.id] = o /\ \A q \in DOMAIN A : B[q] = A[q]
    /\ EntriesOf(B) = EntriesOf(A) \cup Ids(o.entries) /\ IsMap(B)

\* One Page more, with its entries.
LEMMA PutIs ==
    ASSUME NEW A, NEW o, o.id \notin DOMAIN A
    PROVE  Joins(Put(A, o), A, o)
  <1> DEFINE B == Put(A, o)
  <1>1. /\ DOMAIN B = DOMAIN A \cup {o.id} /\ B[o.id] = o /\ \A q \in DOMAIN A : B[q] = A[q]
        /\ IsMap(B)
    BY DEF Put, IsMap
  <1> HIDE DEF B
  <1>2. EntriesOf(B) = EntriesOf(A) \cup Ids(o.entries)
    BY <1>1 DEF EntriesOf
  <1> QED
    BY <1>1, <1>2 DEF B, Joins

\* One Page more among Pages as they can be.
LEMMA PutFits ==
    ASSUME NEW A, NEW I, NEW U, Paged(A, I, U), NEW o, Outlined(o, o.id, I, U), o.id \in I,
           Fits(A, o)
    PROVE  Paged(Put(A, o), I, U)
  <1> DEFINE B == Put(A, o)
  <1>1. /\ DOMAIN B = DOMAIN A \cup {o.id} /\ B[o.id] = o /\ \A q \in DOMAIN A : B[q] = A[q]
        /\ EntriesOf(B) = EntriesOf(A) \cup Ids(o.entries)
        /\ IsMap(B)
    <2>1. Joins(B, A, o)
      BY PutIs DEF Fits
    <2> QED
      BY <2>1 DEF Joins
  <1> HIDE DEF B
  <1>2. DOMAIN B \subseteq I /\ DOMAIN B \cap EntriesOf(B) = {}
    BY <1>1 DEF Paged, Fits
  <1>3. \A p \in DOMAIN B : Outlined(B[p], p, I, U)
    BY <1>1 DEF Paged
  <1>4. \A q \in DOMAIN A : Separate(A[q], o) /\ Separate(o, A[q])
    <2>1. \A q \in DOMAIN A : Ids(A[q].entries) \subseteq EntriesOf(A)
      BY DEF EntriesOf
    <2> QED
      BY <2>1 DEF Separate, Fits
  <1>5. \A p, q \in DOMAIN B : p # q => Separate(B[p], B[q])
    BY <1>1, <1>4 DEF Paged
  <1>6. Paged(B, I, U)
    BY <1>1, <1>2, <1>3, <1>5 DEF Paged, IsMap
  <1> QED
    BY <1>6 DEF B

\* And the other way round.
LEMMA FitsPut ==
    ASSUME NEW A, NEW I, NEW U, NEW o, o.id \notin DOMAIN A, Paged(Put(A, o), I, U),
           IsMap(A)
    PROVE  Paged(A, I, U) /\ Outlined(o, o.id, I, U) /\ o.id \in I /\ Fits(A, o)
  <1> DEFINE B == Put(A, o)
  <1>1. /\ DOMAIN B = DOMAIN A \cup {o.id} /\ B[o.id] = o /\ \A q \in DOMAIN A : B[q] = A[q]
        /\ EntriesOf(B) = EntriesOf(A) \cup Ids(o.entries)
    <2>1. Joins(B, A, o)
      BY PutIs
    <2> QED
      BY <2>1 DEF Joins
  <1>2. Paged(B, I, U)
    OBVIOUS
  <1> HIDE DEF B
  <1>3. Outlined(o, o.id, I, U) /\ o.id \in I
    BY <1>1, <1>2 DEF Paged
  <1>4. /\ DOMAIN A \subseteq I /\ DOMAIN A \cap EntriesOf(A) = {}
        /\ o.id \notin EntriesOf(A) /\ o.id \notin Ids(o.entries)
        /\ Ids(o.entries) \cap DOMAIN A = {}
    BY <1>1, <1>2 DEF Paged
  <1>5. \A p \in DOMAIN A : Outlined(A[p], p, I, U)
    BY <1>1, <1>2 DEF Paged
  <1>6. \A q \in DOMAIN A : Separate(A[q], o)
    BY <1>1, <1>2 DEF Paged
  <1>7. \A p, q \in DOMAIN A : p # q => Separate(A[p], A[q])
    BY <1>1, <1>2 DEF Paged
  <1>8. Paged(A, I, U)
    BY <1>4, <1>5, <1>7 DEF Paged, IsMap
  <1>9. Ids(o.entries) \cap EntriesOf(A) = {}
    BY <1>6 DEF EntriesOf, Separate
  <1>10. Fits(A, o)
    BY <1>4, <1>6, <1>9 DEF Fits, Separate
  <1> QED
    BY <1>3, <1>8, <1>10

\* Taking a Page out and putting it back.
LEMMA PutBack ==
    ASSUME NEW A, NEW I, NEW U, Paged(A, I, U), NEW p \in DOMAIN A
    PROVE  Put(Drop(A, {p}), A[p]) = A
  <1>1. IsMap(A) /\ A[p].id = p
    <2>1. Outlined(A[p], p, I, U)
      BY PagedIs
    <2> QED
      BY <2>1, OutlinedIs DEF Paged, IsMap
  <1>2. DOMAIN Drop(A, {p}) = DOMAIN A \ {p} /\ \A q \in DOMAIN A \ {p} : Drop(A, {p})[q] = A[q]
    BY DEF Drop
  <1> DEFINE B == Put(Drop(A, {p}), A[p])
  <1>3. /\ DOMAIN B = DOMAIN A /\ B[p] = A[p] /\ \A q \in DOMAIN A \ {p} : B[q] = A[q]
        /\ IsMap(B)
    <2>1. A[p].id \notin DOMAIN Drop(A, {p})
      BY <1>1, <1>2
    <2>2. Joins(B, Drop(A, {p}), A[p])
      BY <2>1, PutIs
    <2> HIDE DEF B
    <2> QED
      BY <1>1, <1>2, <2>2 DEF Joins
  <1> HIDE DEF B
  <1>4. \A q \in DOMAIN A : B[q] = A[q]
    BY <1>3
  <1>5. B = A
    BY <1>1, <1>3, <1>4 DEF IsMap
  <1> QED
    BY <1>5 DEF B

\* Putting a Page in and taking it out again.
LEMMA DropPut ==
    ASSUME NEW A, IsMap(A), NEW o, o.id \notin DOMAIN A
    PROVE  Drop(Put(A, o), {o.id}) = A
  <1> DEFINE B == Put(A, o)
             R == Drop(B, {o.id})
  <1>1. DOMAIN B = DOMAIN A \cup {o.id} /\ \A q \in DOMAIN A : B[q] = A[q]
    <2>1. Joins(B, A, o)
      BY PutIs
    <2> QED
      BY <2>1 DEF Joins
  <1> HIDE DEF B
  <1>2. DOMAIN R = DOMAIN A /\ R = [q \in DOMAIN R |-> R[q]] /\ \A q \in DOMAIN A : R[q] = A[q]
    BY <1>1 DEF Drop
  <1> HIDE DEF R
  <1>3. R = A
    BY <1>2 DEF IsMap
  <1> QED
    BY <1>3 DEF R, B

\* Where the entries of one Page are placed: below it or below one another, each
\* at a place of its own.
PlacesWithin(o) ==
    /\ DOMAIN Placements(o) = Ids(o.entries)
    /\ \A b \in Ids(o.entries) : Placements(o)[b][1] = o.id \/ Placements(o)[b][1] \in Ids(o.entries)
    /\ \A b, c \in Ids(o.entries) : Placements(o)[b] = Placements(o)[c] => b = c

\* The placements of an outline stay on its Page, and no two entries share one.
LEMMA PlacementsWithin ==
    ASSUME NEW o, NEW I, NEW U, Outlined(o, o.id, I, U), o.id \notin Ids(o.entries)
    PROVE  PlacesWithin(o)
  <1> DEFINE es == o.entries
             n == Len(es)
             at == Placements(o)
             p == o.id
  <1>1. /\ n \in Nat /\ DOMAIN es = 1 .. n /\ Named(es) /\ \E D : Tree(es, D)
        /\ Ids(es) = {es[i].id : i \in 1 .. n} /\ TopLevel \notin I
    BY OutlinedIs
  <1>2. /\ DOMAIN at = Ids(es)
        /\ \A i \in 1 .. n : at[es[i].id] = <<Container(p, es, i), Rank(es, i)>>
    BY <1>1, PlacementIs
  <1>3. /\ \A i \in 1 .. n : Rank(es, i) \in 1 .. n
        /\ \A i, j \in 1 .. n : i < j /\ es[i].parent = es[j].parent => Rank(es, i) < Rank(es, j)
    BY <1>1, RankGrows
  <1>4. ASSUME NEW i \in 1 .. n
        PROVE  es[i].parent = TopLevel \/ es[i].parent \in Ids(es)
    <2>1. PICK D : Tree(es, D)
      BY <1>1
    <2>2. D[i] \in 0 .. (i - 1) /\ es[i].parent = IF D[i] = 0 THEN TopLevel ELSE es[D[i]].id
      BY <1>1, <2>1, ParentIs
    <2>3. CASE D[i] = 0
      BY <2>2, <2>3
    <2>4. CASE D[i] # 0
      <3>1. D[i] \in 1 .. n
        BY <1>1, <2>2, <2>4
      <3> QED
        BY <1>1, <2>2, <2>4, <3>1
    <2> QED
      BY <2>3, <2>4
  <1> HIDE DEF at, es, n, p
  <1>5. ASSUME NEW b \in Ids(es)
        PROVE  at[b][1] = p \/ at[b][1] \in Ids(es)
    <2>1. PICK i \in 1 .. n : b = es[i].id
      BY <1>1
    <2>2. at[b][1] = Container(p, es, i)
      BY <1>2, <2>1
    <2> QED
      BY <1>4, <2>2 DEF Container
  <1>6. ASSUME NEW b \in Ids(es), NEW c \in Ids(es), at[b] = at[c]
        PROVE  b = c
    <2>1. PICK i \in 1 .. n : b = es[i].id
      BY <1>1
    <2>2. PICK j \in 1 .. n : c = es[j].id
      BY <1>1
    <2>3. Container(p, es, i) = Container(p, es, j) /\ Rank(es, i) = Rank(es, j)
      <3>1. at[b] = <<Container(p, es, i), Rank(es, i)>> /\ at[c] = <<Container(p, es, j), Rank(es, j)>>
        BY <1>2, <2>1, <2>2
      <3>2. <<Container(p, es, i), Rank(es, i)>> = <<Container(p, es, j), Rank(es, j)>>
        BY <1>6, <3>1
      <3> HIDE DEF Container, Rank
      <3> QED
        BY <3>2
    <2>4. es[i].parent = es[j].parent
      <3>1. p \notin Ids(es)
        BY DEF p, es
      <3> QED
        BY <1>4, <2>3, <3>1 DEF Container
    <2>5. ~(i < j) /\ ~(j < i)
      <3>1. i < j => Rank(es, i) < Rank(es, j)
        BY <1>3, <2>4
      <3>2. j < i => Rank(es, j) < Rank(es, i)
        BY <1>3, <2>4
      <3>3. Rank(es, i) \in Nat
        BY <1>3
      <3> QED
        BY <2>3, <3>1, <3>2, <3>3
    <2>6. i = j
      BY <1>1, <2>5
    <2> QED
      BY <2>1, <2>2, <2>6
  <1> QED
    BY <1>2, <1>5, <1>6 DEF PlacesWithin, at, es, p

\* Erasing the ordering of some Pages.
LEMMA PlacesErased ==
    ASSUME NEW s, IsStore(s), NEW A, NEW I, NEW U, Paged(A, I, U), PlacesAre(s, A),
           NEW P \in SUBSET DOMAIN A, NEW ids, ids = UNION {Ids(A[q].entries) : q \in P}
    PROVE  /\ CanEraseContainment(s, ids)
           /\ PlacesAre(EraseContainment(s, ids), Drop(A, P))
  <1> DEFINE R == Drop(A, P)
             t == EraseContainment(s, ids)
  <1>1. /\ DOMAIN R = DOMAIN A \ P /\ \A q \in DOMAIN A \ P : R[q] = A[q]
        /\ EntriesOf(R) \subseteq EntriesOf(A)
        /\ \A p \in P : Ids(A[p].entries) \cap EntriesOf(R) = {}
        /\ \A b \in EntriesOf(A) : \/ b \in EntriesOf(R)
                                   \/ \E p \in P : b \in Ids(A[p].entries)
    <2>1. Leaves(R, A, P)
      BY DropIs
    <2> QED
      BY <2>1 DEF Leaves
  <1>2. /\ t.byChild = Restrict(s.byChild, DOMAIN s.byChild \ ids)
        /\ t.byParent = Restrict(s.byParent, DOMAIN s.byParent \ {s.byChild[b] : b \in ids})
    <2>1. IsErased(t, s, ids)
      BY Erasing
    <2> QED
      BY <2>1 DEF IsErased
  <1>3. /\ DOMAIN s.byChild = EntriesOf(A)
        /\ \A p \in DOMAIN A : \A b \in Ids(A[p].entries) : s.byChild[b] = Placements(A[p])[b]
        /\ DOMAIN s.byParent = {s.byChild[b] : b \in EntriesOf(A)}
        /\ \A b \in EntriesOf(A) : s.byParent[s.byChild[b]] = b
    BY DEF PlacesAre
  <1>4. ids \subseteq EntriesOf(A) /\ EntriesOf(A) \ ids = EntriesOf(R)
    <2>1. ids \subseteq EntriesOf(A)
      BY DEF EntriesOf
    <2>2. \A b \in EntriesOf(A) : b \in ids <=> b \notin EntriesOf(R)
      BY <1>1
    <2> QED
      BY <1>1, <2>1, <2>2
  <1> HIDE DEF t, R
  <1>5. CanEraseContainment(s, ids)
    <2>1. \A b, c \in ids : s.byChild[b] = s.byChild[c] => b = c
      BY <1>3, <1>4
    <2>2. \A b \in ids : s.byChild[b] \in DOMAIN s.byParent
      BY <1>3, <1>4
    <2> QED
      BY <1>3, <1>4, <2>1, <2>2 DEF CanEraseContainment
  <1>6. DOMAIN t.byChild = EntriesOf(R) /\ \A b \in EntriesOf(R) : t.byChild[b] = s.byChild[b]
    <2>1. IsCut(t.byChild, s.byChild, DOMAIN s.byChild \ ids)
      BY <1>2, CutIs
    <2> QED
      BY <1>3, <1>4, <2>1 DEF IsCut
  <1>7. /\ DOMAIN t.byParent = DOMAIN s.byParent \ {s.byChild[b] : b \in ids}
        /\ \A k \in DOMAIN t.byParent : t.byParent[k] = s.byParent[k]
    <2>1. IsCut(t.byParent, s.byParent, DOMAIN s.byParent \ {s.byChild[b] : b \in ids})
      BY <1>2, CutIs
    <2> QED
      BY <2>1 DEF IsCut
  <1>8. DOMAIN t.byParent = {s.byChild[b] : b \in EntriesOf(R)}
    <2>1. \A b \in EntriesOf(R), c \in ids : s.byChild[b] # s.byChild[c]
      BY <1>3, <1>4
    <2> QED
      BY <1>3, <1>4, <1>7, <2>1
  <1>9. DOMAIN t.byParent = {t.byChild[b] : b \in EntriesOf(R)}
    BY <1>6, <1>8
  <1>10. \A b \in EntriesOf(R) : t.byParent[t.byChild[b]] = b
    BY <1>3, <1>4, <1>6, <1>7, <1>9
  <1>11. \A p \in DOMAIN R : \A b \in Ids(R[p].entries) : t.byChild[b] = Placements(R[p])[b]
    <2> SUFFICES ASSUME NEW p \in DOMAIN R, NEW b \in Ids(R[p].entries)
                 PROVE  t.byChild[b] = Placements(R[p])[b]
      OBVIOUS
    <2>1. p \in DOMAIN A /\ R[p] = A[p] /\ b \in EntriesOf(R)
      BY <1>1 DEF EntriesOf
    <2> QED
      BY <1>3, <1>6, <2>1
  <1>12. PlacesAre(t, R)
    BY <1>6, <1>9, <1>10, <1>11 DEF PlacesAre
  <1> QED
    BY <1>5, <1>12 DEF t, R

\* Writing the ordering of one more Page.
LEMMA PlacesWritten ==
    ASSUME NEW s, IsStore(s), NEW A, IsMap(A), NEW I, NEW U, NEW o, o.id \notin DOMAIN A,
           Paged(Put(A, o), I, U), PlacesAre(s, A)
    PROVE  /\ CanWriteContainment(s, o)
           /\ PlacesAre(WriteContainment(s, o), Put(A, o))
  <1> DEFINE B == Put(A, o)
             t == WriteContainment(s, o)
             at == Placements(o)
             back == [k \in Range(at) |-> CHOOSE b \in DOMAIN at : at[b] = k]
  <1>1. Joins(B, A, o)
    BY PutIs
  <1>2. Paged(A, I, U) /\ Outlined(o, o.id, I, U) /\ Fits(A, o)
    BY FitsPut
  <1>3. PlacesWithin(o)
    BY <1>2, PlacementsWithin DEF Fits
  <1>4. ASSUME NEW q \in DOMAIN A, NEW c \in Ids(A[q].entries)
        PROVE  /\ Placements(A[q])[c][1] = q \/ Placements(A[q])[c][1] \in Ids(A[q].entries)
               /\ c \in EntriesOf(A)
    <2>1. Outlined(A[q], q, I, U) /\ q \notin Ids(A[q].entries) /\ c \in EntriesOf(A)
      BY <1>2, PagedIs
    <2>2. A[q].id = q
      BY <2>1 DEF Outlined
    <2>3. PlacesWithin(A[q])
      BY <2>1, <2>2, PlacementsWithin
    <2> QED
      BY <2>1, <2>2, <2>3 DEF PlacesWithin
  <1>5. /\ t.byChild = Over(at, s.byChild) /\ t.byParent = Over(back, s.byParent)
    <2>1. IsWritten(t, s, at)
      BY Writing
    <2> QED
      BY <2>1 DEF IsWritten
  <1>6. /\ DOMAIN s.byChild = EntriesOf(A)
        /\ \A p \in DOMAIN A : \A b \in Ids(A[p].entries) : s.byChild[b] = Placements(A[p])[b]
        /\ DOMAIN s.byParent = {s.byChild[b] : b \in EntriesOf(A)}
        /\ \A b \in EntriesOf(A) : s.byParent[s.byChild[b]] = b
    BY DEF PlacesAre
  <1>7. /\ DOMAIN at = Ids(o.entries)
        /\ \A b \in Ids(o.entries) : at[b][1] = o.id \/ at[b][1] \in Ids(o.entries)
        /\ \A b, c \in Ids(o.entries) : at[b] = at[c] => b = c
    BY <1>3 DEF PlacesWithin
  <1>8. /\ o.id \notin EntriesOf(A) /\ Ids(o.entries) \cap EntriesOf(A) = {}
        /\ Ids(o.entries) \cap DOMAIN A = {}
    BY <1>2 DEF Fits
  <1> HIDE DEF at, t, B
  <1>9. Range(at) = {at[b] : b \in Ids(o.entries)}
    BY <1>7 DEF Range
  <1>10. \A b \in Ids(o.entries) : at[b] \notin DOMAIN s.byParent
    <2> SUFFICES ASSUME NEW b \in Ids(o.entries), NEW c \in EntriesOf(A), at[b] = s.byChild[c]
                 PROVE  FALSE
      BY <1>6
    <2>1. PICK q \in DOMAIN A : c \in Ids(A[q].entries)
      BY DEF EntriesOf
    <2>2. at[b][1] = q \/ at[b][1] \in EntriesOf(A)
      <3>1. at[b] = Placements(A[q])[c]
        BY <1>6, <2>1
      <3> QED
        BY <1>4, <2>1, <3>1
    <2> QED
      BY <1>7, <1>8, <2>2
  <1>11. CanWriteContainment(s, o)
    <2>1. Range(at) \cap DOMAIN s.byParent = {}
      BY <1>9, <1>10
    <2> QED
      BY <1>6, <1>8, <2>1 DEF CanWriteContainment, at
  <1>12. /\ DOMAIN back = Range(at)
         /\ \A b \in Ids(o.entries) : back[at[b]] = b
    <2>1. \A b \in Ids(o.entries) : at[b] \in Range(at)
      BY <1>9
    <2>2. \A b \in Ids(o.entries) : (CHOOSE c \in DOMAIN at : at[c] = at[b]) = b
      BY <1>7
    <2> QED
      BY <2>1, <2>2
  <1> HIDE DEF back
  <1>13. /\ DOMAIN t.byChild = EntriesOf(A) \cup Ids(o.entries)
         /\ \A b \in Ids(o.entries) : t.byChild[b] = at[b]
         /\ \A b \in EntriesOf(A) : t.byChild[b] = s.byChild[b]
    <2>1. IsOver(t.byChild, at, s.byChild)
      BY <1>5, OverIs
    <2> QED
      BY <1>6, <1>7, <1>8, <2>1 DEF IsOver
  <1>14. /\ DOMAIN t.byParent = Range(at) \cup DOMAIN s.byParent
         /\ \A k \in Range(at) : t.byParent[k] = back[k]
         /\ \A k \in DOMAIN s.byParent : k \notin Range(at) => t.byParent[k] = s.byParent[k]
    <2>1. IsOver(t.byParent, back, s.byParent)
      BY <1>5, OverIs
    <2> QED
      BY <1>12, <2>1 DEF IsOver
  <1>15. /\ DOMAIN B = DOMAIN A \cup {o.id} /\ B[o.id] = o /\ \A q \in DOMAIN A : B[q] = A[q]
         /\ EntriesOf(B) = EntriesOf(A) \cup Ids(o.entries)
    BY <1>1 DEF Joins
  <1>16. DOMAIN t.byParent = {t.byChild[b] : b \in EntriesOf(B)}
    BY <1>6, <1>9, <1>13, <1>14, <1>15
  <1>17. \A b \in EntriesOf(B) : t.byParent[t.byChild[b]] = b
    <2> SUFFICES ASSUME NEW b \in EntriesOf(B)
                 PROVE  t.byParent[t.byChild[b]] = b
      OBVIOUS
    <2>1. CASE b \in Ids(o.entries)
      BY <1>9, <1>12, <1>13, <1>14, <2>1
    <2>2. CASE b \in EntriesOf(A)
      <3>1. s.byChild[b] \in DOMAIN s.byParent /\ s.byParent[s.byChild[b]] = b
        BY <1>6, <2>2
      <3>2. s.byChild[b] \notin Range(at)
        BY <1>9, <1>10, <3>1
      <3> QED
        BY <1>13, <1>14, <2>2, <3>1, <3>2
    <2> QED
      BY <1>15, <2>1, <2>2
  <1>18. \A p \in DOMAIN B : \A b \in Ids(B[p].entries) : t.byChild[b] = Placements(B[p])[b]
    <2> SUFFICES ASSUME NEW p \in DOMAIN B, NEW b \in Ids(B[p].entries)
                 PROVE  t.byChild[b] = Placements(B[p])[b]
      OBVIOUS
    <2>1. CASE p = o.id
      BY <1>13, <1>15, <2>1 DEF at
    <2>2. CASE p \in DOMAIN A
      <3>1. B[p] = A[p] /\ b \in Ids(A[p].entries) /\ b \in EntriesOf(A)
        BY <1>4, <1>15, <2>2
      <3> QED
        BY <1>6, <1>13, <2>2, <3>1
    <2> QED
      BY <1>15, <2>1, <2>2
  <1>19. PlacesAre(t, B)
    BY <1>13, <1>15, <1>16, <1>17, <1>18 DEF PlacesAre
  <1> QED
    BY <1>11, <1>19 DEF t, B

\* The Blocks of one Page are there.
ShowsEntries(s, o) ==
    \A i \in DOMAIN o.entries : s.blocks[o.entries[i].id] = EntryBlock(o.entries[i])
Shows(s, o) == s.blocks[o.id] = o.page /\ ShowsEntries(s, o)

\* They stay there when nobody writes to them.
LEMMA ShowsKept ==
    ASSUME NEW s, NEW t, NEW o, Shows(s, o), t.blocks[o.id] = s.blocks[o.id],
           \A b \in Ids(o.entries) : t.blocks[b] = s.blocks[b]
    PROVE  Shows(t, o)
  BY DEF Shows, ShowsEntries, Ids

\* The Blocks of a Notebook, Page by Page.
LEMMA BlocksShown ==
    ASSUME NEW s, NEW A, NEW I, NEW U, Paged(A, I, U)
    PROVE  BlocksAre(s, A) <=> /\ DOMAIN s.blocks = DOMAIN A \cup EntriesOf(A)
                               /\ \A p \in DOMAIN A : Shows(s, A[p])
  <1>1. \A p \in DOMAIN A : A[p].id = p
    BY PagedIs, OutlinedIs
  <1> QED
    BY <1>1 DEF BlocksAre, Shows, ShowsEntries

\* The entries of one outline have been written, the other Blocks left alone.
EntriesWritten(t, s, o) ==
    /\ IsStore(t) /\ SameButBlocks(s, t) /\ ShowsEntries(t, o)
    /\ DOMAIN t.blocks = DOMAIN s.blocks \cup Ids(o.entries)
    /\ \A b \in DOMAIN s.blocks \ Ids(o.entries) : t.blocks[b] = s.blocks[b]

\* Its entry at each position is written as that entry.
LEMMA WritingEntries ==
    ASSUME NEW s, IsStore(s), NEW o, NEW I, NEW U, Outlined(o, o.id, I, U)
    PROVE  EntriesWritten(WriteEntries(s, o), s, o)
  <1> DEFINE t == WriteEntries(s, o)
             es == o.entries
  <1>1. DOMAIN es = 1 .. Len(es) /\ Named(es) /\ Ids(es) = {es[i].id : i \in 1 .. Len(es)}
    BY OutlinedIs
  <1>2. IsStore(t) /\ SameButBlocks(s, t) /\ t.blocks = Over(EntryBlocks(o), s.blocks)
    <2>1. IsBlocked(t, s, Over(EntryBlocks(o), s.blocks))
      BY WritingBlocks
    <2> QED
      BY <2>1 DEF IsBlocked
  <1>3. IsOver(t.blocks, EntryBlocks(o), s.blocks)
    BY <1>2, OverIs
  <1> HIDE DEF t
  <1>4. DOMAIN EntryBlocks(o) = Ids(es)
    BY DEF EntryBlocks
  <1>5. ASSUME NEW i \in 1 .. Len(es)
        PROVE  t.blocks[es[i].id] = EntryBlock(es[i])
    <2>1. PositionOf(es, es[i].id) = i
      BY <1>1, FoundAt
    <2>2. es[i].id \in Ids(es)
      BY <1>1
    <2>3. EntryBlocks(o)[es[i].id] = EntryBlock(es[i])
      BY <2>1, <2>2 DEF EntryBlocks
    <2> QED
      BY <1>3, <1>4, <2>2, <2>3 DEF IsOver
  <1>6. ShowsEntries(t, o)
    BY <1>1, <1>5 DEF ShowsEntries
  <1> QED
    BY <1>2, <1>3, <1>4, <1>6 DEF EntriesWritten, IsOver, t

\* The Block of a Page, and its entries.
PageWritten(t, s, o) ==
    /\ IsStore(t) /\ SameButBlocks(s, t) /\ t.blocks[o.id] = o.page
    /\ DOMAIN t.blocks = DOMAIN s.blocks \cup {o.id}
    /\ \A b \in DOMAIN s.blocks \ {o.id} : t.blocks[b] = s.blocks[b]

\* Writing the Block of a Page writes no other.
LEMMA WritingPage ==
    ASSUME NEW s, IsStore(s), NEW o
    PROVE  PageWritten(WritePage(s, o), s, o)
  <1> DEFINE t == WritePage(s, o)
             f == [b \in {o.id} |-> o.page]
  <1>1. IsStore(t) /\ SameButBlocks(s, t) /\ t.blocks = Over(f, s.blocks)
    <2>1. IsBlocked(t, s, Over(f, s.blocks))
      BY WritingBlocks
    <2> QED
      BY <2>1 DEF IsBlocked
  <1>2. IsOver(t.blocks, f, s.blocks)
    BY <1>1, OverIs
  <1> HIDE DEF t
  <1>3. DOMAIN f = {o.id} /\ f[o.id] = o.page
    OBVIOUS
  <1> HIDE DEF f
  <1>4. PageWritten(t, s, o)
    BY <1>1, <1>2, <1>3 DEF PageWritten, IsOver
  <1> QED
    BY <1>4 DEF t

\* The Blocks that are left when some are deleted.
LEMMA DeletingBlocks ==
    ASSUME NEW s, IsStore(s), NEW ids
    PROVE  /\ IsStore(DeleteBlocks(s, ids)) /\ SameButBlocks(s, DeleteBlocks(s, ids))
           /\ IsCut(DeleteBlocks(s, ids).blocks, s.blocks, DOMAIN s.blocks \ ids)
  <1>1. IsBlocked(DeleteBlocks(s, ids), s, Restrict(s.blocks, DOMAIN s.blocks \ ids))
    BY WritingBlocks
  <1> QED
    BY <1>1, CutIs DEF IsBlocked

\* The ordering is the one of the same Pages while its databases are the same.
LEMMA PlacesKept ==
    ASSUME NEW s, NEW t, SameOrder(s, t), NEW A, PlacesAre(s, A)
    PROVE  PlacesAre(t, A)
  BY DEF SameOrder, PlacesAre

\* The index with one Page more, with one Page less, and when no key changed.
LEMMA KeysPut ==
    ASSUME NEW s, NEW A, KeysAre(s, A), NEW o, Fits(A, o),
           NEW t, t.pages = Over([k \in {PageKey(o.page)} |-> o.id], s.pages)
    PROVE  KeysAre(t, Put(A, o))
  <1> DEFINE B == Put(A, o)
             f == [k \in {PageKey(o.page)} |-> o.id]
  <1>1. IsOver(t.pages, f, s.pages)
    BY OverIs
  <1>2. DOMAIN f = {PageKey(o.page)} /\ f[PageKey(o.page)] = o.id
    OBVIOUS
  <1> HIDE DEF f
  <1>3. DOMAIN B = DOMAIN A \cup {o.id} /\ B[o.id] = o /\ \A q \in DOMAIN A : B[q] = A[q]
    <2>1. Joins(B, A, o)
      BY PutIs DEF Fits
    <2> QED
      BY <2>1 DEF Joins
  <1>4. \A q \in DOMAIN A : PageKey(A[q].page) # PageKey(o.page)
    BY DEF Fits
  <1> HIDE DEF B
  <1>5. /\ DOMAIN s.pages = {PageKey(A[p].page) : p \in DOMAIN A}
        /\ \A p \in DOMAIN A : s.pages[PageKey(A[p].page)] = p
    BY DEF KeysAre
  <1>6. DOMAIN t.pages = {PageKey(B[p].page) : p \in DOMAIN B}
    <2>1. DOMAIN t.pages = {PageKey(o.page)} \cup {PageKey(A[p].page) : p \in DOMAIN A}
      BY <1>1, <1>2, <1>5 DEF IsOver
    <2>2. \A k : k \in DOMAIN t.pages <=> \E p \in DOMAIN B : k = PageKey(B[p].page)
      BY <1>3, <2>1
    <2> QED
      BY <2>2
  <1>7. ASSUME NEW p \in DOMAIN B
        PROVE  t.pages[PageKey(B[p].page)] = p
    <2>1. CASE p = o.id
      BY <1>1, <1>2, <1>3, <2>1 DEF IsOver
    <2>2. CASE p \in DOMAIN A
      <3>1. PageKey(A[p].page) \in DOMAIN s.pages /\ PageKey(A[p].page) # PageKey(o.page)
        BY <1>4, <1>5, <2>2
      <3> QED
        BY <1>1, <1>2, <1>3, <1>5, <2>2, <3>1 DEF IsOver
    <2> QED
      BY <1>3, <2>1, <2>2
  <1>8. KeysAre(t, B)
    BY <1>6, <1>7 DEF KeysAre
  <1> QED
    BY <1>8 DEF B

\* The key of a Page that goes is taken out.
LEMMA KeysDropped ==
    ASSUME NEW s, NEW A, NEW I, NEW U, Paged(A, I, U), KeysAre(s, A), NEW p \in DOMAIN A,
           NEW t, t.pages = Restrict(s.pages, DOMAIN s.pages \ {PageKey(A[p].page)})
    PROVE  KeysAre(t, Drop(A, {p}))
  <1> DEFINE R == Drop(A, {p})
             x == PageKey(A[p].page)
  <1>1. IsCut(t.pages, s.pages, DOMAIN s.pages \ {x})
    BY CutIs
  <1>2. DOMAIN R = DOMAIN A \ {p} /\ \A q \in DOMAIN A \ {p} : R[q] = A[q]
    BY DEF Drop
  <1>3. \A q \in DOMAIN A \ {p} : PageKey(A[q].page) # x
    BY DEF Paged, Separate
  <1> HIDE DEF R
  <1>4. /\ DOMAIN s.pages = {PageKey(A[q].page) : q \in DOMAIN A}
        /\ \A q \in DOMAIN A : s.pages[PageKey(A[q].page)] = q
    BY DEF KeysAre
  <1>5. DOMAIN t.pages = {PageKey(R[q].page) : q \in DOMAIN R}
    <2>1. DOMAIN t.pages = {PageKey(A[q].page) : q \in DOMAIN A} \ {x}
      BY <1>1, <1>4 DEF IsCut
    <2>2. \A k : k \in DOMAIN t.pages <=> \E q \in DOMAIN A \ {p} : k = PageKey(A[q].page)
      BY <1>3, <2>1
    <2>3. \A k : k \in DOMAIN t.pages <=> \E q \in DOMAIN R : k = PageKey(R[q].page)
      BY <1>2, <2>2
    <2> QED
      BY <2>3
  <1>6. \A q \in DOMAIN R : t.pages[PageKey(R[q].page)] = q
    BY <1>1, <1>2, <1>3, <1>4 DEF IsCut
  <1>7. KeysAre(t, R)
    BY <1>5, <1>6 DEF KeysAre
  <1> QED
    BY <1>7 DEF R

\* Pages with the same keys are found in the same way.
LEMMA KeysKept ==
    ASSUME NEW s, NEW A, KeysAre(s, A), NEW B, DOMAIN B = DOMAIN A,
           \A p \in DOMAIN A : PageKey(B[p].page) = PageKey(A[p].page),
           NEW t, t.pages = s.pages
    PROVE  KeysAre(t, B)
  BY DEF KeysAre

\* A transaction that leads from s to a store with the Pages of B; the revision is
\* the commit's.
Brings(t, s, B) == Holds(t, B) /\ t.revision = s.revision

\* The ordering of one Page is erased.
LEMMA PageErased ==
    ASSUME NEW s, IsStore(s), NEW A, NEW I, NEW U, Paged(A, I, U), PlacesAre(s, A),
           NEW p \in DOMAIN A
    PROVE  /\ CanEraseContainment(s, Ids(A[p].entries))
           /\ PlacesAre(EraseContainment(s, Ids(A[p].entries)), Drop(A, {p}))
  <1>1. {p} \in SUBSET DOMAIN A /\ Ids(A[p].entries) = UNION {Ids(A[q].entries) : q \in {p}}
    OBVIOUS
  <1> QED
    BY <1>1, PlacesErased

\* A Page that is taken out of the store is gone with its entries.
LEMMA RemovedPage ==
    ASSUME NEW s, NEW A, NEW I, NEW U, Paged(A, I, U), Holds(s, A), NEW p \in DOMAIN A
    PROVE  Brings(RemovePage(s, A[p]), s, Drop(A, {p}))
  <1> DEFINE o == A[p]
             R == Drop(A, {p})
             ids == Ids(o.entries)
             u == EraseContainment(s, ids)
             v == DeleteBlocks(u, ids \cup {o.id})
             t == UnindexPage(v, o)
  <1>1. IsStore(s) /\ BlocksAre(s, A) /\ PlacesAre(s, A) /\ KeysAre(s, A)
    BY DEF Holds
  <1>2. o.id = p
    BY PagedIs, OutlinedIs
  <1>3. Leaves(R, A, {p}) /\ Paged(R, I, U)
    BY DropIs
  <1>4. IsStore(u) /\ SameRest(s, u)
    <2>1. IsErased(u, s, ids)
      BY <1>1, Erasing
    <2> QED
      BY <2>1 DEF IsErased
  <1>5. PlacesAre(u, R)
    BY <1>1, PageErased
  <1> HIDE DEF u
  <1>6. /\ IsStore(v) /\ SameButBlocks(u, v)
        /\ IsCut(v.blocks, u.blocks, DOMAIN u.blocks \ (ids \cup {p}))
    BY <1>2, <1>4, DeletingBlocks
  <1> HIDE DEF v
  <1>7. IsIndexed(t, v, Restrict(v.pages, DOMAIN v.pages \ {PageKey(o.page)}))
    BY <1>6, Indexing
  <1> HIDE DEF t
  <1>8. IsStore(t) /\ t.revision = s.revision
    BY <1>4, <1>6, <1>7 DEF IsIndexed, SameButBlocks, SameRest
  <1>9. PlacesAre(t, R)
    <2>1. PlacesAre(v, R)
      BY <1>5, <1>6, PlacesKept DEF SameButBlocks
    <2> QED
      BY <1>7, <2>1, PlacesKept DEF IsIndexed
  <1>10. KeysAre(t, R)
    <2>1. t.pages = Restrict(s.pages, DOMAIN s.pages \ {PageKey(A[p].page)})
      BY <1>4, <1>6, <1>7 DEF IsIndexed, SameButBlocks, SameRest
    <2> QED
      BY <1>1, <2>1, KeysDropped
  <1>11. IsCut(t.blocks, s.blocks, DOMAIN s.blocks \ (ids \cup {p}))
    BY <1>4, <1>6, <1>7 DEF IsIndexed, SameRest
  <1>12. /\ DOMAIN R = DOMAIN A \ {p} /\ \A q \in DOMAIN A \ {p} : R[q] = A[q]
         /\ EntriesOf(R) \subseteq EntriesOf(A)
         /\ ids \cap EntriesOf(R) = {}
         /\ \A b \in EntriesOf(A) : b \in EntriesOf(R) \/ b \in ids
    BY <1>3 DEF Leaves
  <1>13. /\ DOMAIN s.blocks = DOMAIN A \cup EntriesOf(A)
         /\ \A q \in DOMAIN A : Shows(s, A[q])
    BY <1>1, BlocksShown
  <1>14. DOMAIN A \cap EntriesOf(A) = {} /\ ids \subseteq EntriesOf(A)
    BY DEF Paged, EntriesOf
  <1>15. DOMAIN t.blocks = DOMAIN R \cup EntriesOf(R)
    BY <1>11, <1>12, <1>13, <1>14 DEF IsCut
  <1>16. ASSUME NEW q \in DOMAIN R
         PROVE  Shows(t, R[q])
    <2>0. q \in DOMAIN A /\ q # p /\ R[q] = A[q]
      BY <1>12
    <2>1. A[q].id = q
      BY <2>0, PagedIs, OutlinedIs
    <2>2. Ids(R[q].entries) \subseteq EntriesOf(R)
      BY DEF EntriesOf
    <2>3. \A b \in {q} \cup Ids(A[q].entries) : t.blocks[b] = s.blocks[b]
      BY <1>11, <1>12, <1>13, <1>14, <2>0, <2>2 DEF IsCut
    <2> QED
      BY <1>13, <2>0, <2>1, <2>3, ShowsKept
  <1>17. BlocksAre(t, R)
    BY <1>3, <1>15, <1>16, BlocksShown
  <1>18. Brings(t, s, R)
    BY <1>8, <1>9, <1>10, <1>17 DEF Brings, Holds
  <1> QED
    BY <1>18 DEF RemovePage, t, v, u

\* A store that has the Blocks of A and some of o has those of both once o is written.
LEMMA BlocksPut ==
    ASSUME NEW s, NEW t, NEW A, NEW I, NEW U, NEW o, o.id \notin DOMAIN A, IsMap(A),
           Paged(Put(A, o), I, U),
           \A q \in DOMAIN A : Shows(s, A[q]),
           DOMAIN A \cup EntriesOf(A) \subseteq DOMAIN s.blocks,
           DOMAIN s.blocks \subseteq DOMAIN A \cup EntriesOf(A) \cup {o.id} \cup Ids(o.entries),
           Shows(t, o), DOMAIN t.blocks = DOMAIN s.blocks \cup {o.id} \cup Ids(o.entries),
           \A b \in DOMAIN s.blocks \ ({o.id} \cup Ids(o.entries)) : t.blocks[b] = s.blocks[b]
    PROVE  BlocksAre(t, Put(A, o))
  <1> DEFINE B == Put(A, o)
  <1>1. /\ DOMAIN B = DOMAIN A \cup {o.id} /\ B[o.id] = o /\ \A q \in DOMAIN A : B[q] = A[q]
        /\ EntriesOf(B) = EntriesOf(A) \cup Ids(o.entries)
    <2>1. Joins(B, A, o)
      BY PutIs
    <2> QED
      BY <2>1 DEF Joins
  <1>2. Paged(A, I, U) /\ Fits(A, o)
    BY FitsPut
  <1>3. DOMAIN t.blocks = DOMAIN B \cup EntriesOf(B)
    BY <1>1
  <1>4. ASSUME NEW q \in DOMAIN A
        PROVE  Shows(t, A[q])
    <2>1. A[q].id = q
      BY <1>2, PagedIs, OutlinedIs
    <2>2. Ids(A[q].entries) \subseteq EntriesOf(A)
      BY DEF EntriesOf
    <2>3. \A b \in {q} \cup Ids(A[q].entries) : t.blocks[b] = s.blocks[b]
      BY <1>2, <2>2 DEF Fits
    <2> QED
      BY <2>1, <2>3, ShowsKept
  <1>5. \A q \in DOMAIN B : Shows(t, B[q])
    BY <1>1, <1>4
  <1> QED
    BY <1>3, <1>5, BlocksShown

\* The Page written with its entries, the Blocks of the others as they were.
LEMMA OutlineWritten ==
    ASSUME NEW s, IsStore(s), NEW o, NEW I, NEW U, Outlined(o, o.id, I, U), o.id \notin Ids(o.entries)
    PROVE  LET t == WriteEntries(WritePage(s, o), o)
           IN  /\ IsStore(t) /\ SameButBlocks(s, t) /\ Shows(t, o)
               /\ DOMAIN t.blocks = DOMAIN s.blocks \cup {o.id} \cup Ids(o.entries)
               /\ \A b \in DOMAIN s.blocks \ ({o.id} \cup Ids(o.entries)) :
                     t.blocks[b] = s.blocks[b]
  <1> DEFINE u == WritePage(s, o)
             t == WriteEntries(u, o)
  <1>1. PageWritten(u, s, o)
    BY WritingPage
  <1>2. IsStore(u)
    BY <1>1 DEF PageWritten
  <1> HIDE DEF u
  <1>3. EntriesWritten(t, u, o)
    BY <1>2, WritingEntries
  <1> HIDE DEF t
  <1>4. /\ u.blocks[o.id] = o.page /\ DOMAIN u.blocks = DOMAIN s.blocks \cup {o.id}
        /\ \A b \in DOMAIN s.blocks \ {o.id} : u.blocks[b] = s.blocks[b]
        /\ SameButBlocks(s, u)
    BY <1>1 DEF PageWritten
  <1>5. /\ IsStore(t) /\ SameButBlocks(u, t) /\ ShowsEntries(t, o)
        /\ DOMAIN t.blocks = DOMAIN u.blocks \cup Ids(o.entries)
        /\ \A b \in DOMAIN u.blocks \ Ids(o.entries) : t.blocks[b] = u.blocks[b]
    BY <1>3 DEF EntriesWritten
  <1>6. t.blocks[o.id] = o.page
    BY <1>4, <1>5
  <1>7. SameButBlocks(s, t)
    BY <1>4, <1>5 DEF SameButBlocks, SameOrder
  <1> QED
    BY <1>4, <1>5, <1>6, <1>7 DEF Shows, t, u

\* The last write of a Page's outline: its ordering.
LEMMA OrderWritten ==
    ASSUME NEW s, NEW w, IsStore(w), SameOrder(s, w), NEW A, IsMap(A), PlacesAre(s, A),
           NEW o, o.id \notin DOMAIN A, NEW I, NEW U, Paged(Put(A, o), I, U)
    PROVE  LET t == WriteContainment(w, o)
           IN  /\ CanWriteContainment(w, o) /\ IsStore(t) /\ SameRest(w, t)
               /\ PlacesAre(t, Put(A, o))
  <1>1. PlacesAre(w, A)
    BY PlacesKept
  <1>2. CanWriteContainment(w, o) /\ PlacesAre(WriteContainment(w, o), Put(A, o))
    BY <1>1, PlacesWritten
  <1>3. IsWritten(WriteContainment(w, o), w, Placements(o))
    BY Writing
  <1> QED
    BY <1>2, <1>3 DEF IsWritten

\* A Page is inserted where there is none with its identifier or its key.
LEMMA InsertedOutline ==
    ASSUME NEW s, NEW A, IsMap(A), Holds(s, A), NEW o, o.id \notin DOMAIN A,
           NEW I, NEW U, Paged(Put(A, o), I, U)
    PROVE  CanInsertPage(s, o) /\ Brings(InsertPage(s, o), s, Put(A, o))
  <1> DEFINE u == WritePage(s, o)
             v == IndexPage(u, o)
             w == WriteEntries(v, o)
             t == WriteContainment(w, o)
             B == Put(A, o)
  <1>1. IsStore(s) /\ BlocksAre(s, A) /\ PlacesAre(s, A) /\ KeysAre(s, A)
    BY DEF Holds
  <1>2. Paged(A, I, U) /\ Outlined(o, o.id, I, U) /\ Fits(A, o)
    BY FitsPut
  <1>3. PageKey(o.page) \notin DOMAIN s.pages
    BY <1>1, <1>2 DEF KeysAre, Fits
  <1>4. CanInsertPage(s, o)
    BY <1>1, <1>3, PlacesWritten DEF CanInsertPage
  <1>5. PageWritten(u, s, o)
    BY <1>1, WritingPage
  <1> HIDE DEF u
  <1>6. /\ IsStore(u) /\ SameOrder(s, u) /\ u.pages = s.pages /\ u.revision = s.revision
        /\ u.blocks[o.id] = o.page /\ DOMAIN u.blocks = DOMAIN s.blocks \cup {o.id}
        /\ \A b \in DOMAIN s.blocks \ {o.id} : u.blocks[b] = s.blocks[b]
    BY <1>5 DEF PageWritten, SameButBlocks
  <1>7. IsIndexed(v, u, Over([k \in {PageKey(o.page)} |-> o.id], u.pages))
    BY <1>6, Indexing
  <1> HIDE DEF v
  <1>8. /\ IsStore(v) /\ SameOrder(u, v) /\ v.blocks = u.blocks /\ v.revision = u.revision
        /\ v.pages = Over([k \in {PageKey(o.page)} |-> o.id], s.pages)
    BY <1>6, <1>7 DEF IsIndexed
  <1>9. EntriesWritten(w, v, o)
    BY <1>2, <1>8, WritingEntries
  <1> HIDE DEF w
  <1>10. /\ IsStore(w) /\ SameOrder(v, w) /\ w.pages = v.pages /\ w.revision = v.revision
         /\ ShowsEntries(w, o) /\ DOMAIN w.blocks = DOMAIN v.blocks \cup Ids(o.entries)
         /\ \A b \in DOMAIN v.blocks \ Ids(o.entries) : w.blocks[b] = v.blocks[b]
    BY <1>9 DEF EntriesWritten, SameButBlocks
  <1>11. SameOrder(s, w)
    BY <1>6, <1>8, <1>10 DEF SameOrder
  <1>12. IsStore(t) /\ SameRest(w, t) /\ PlacesAre(t, B)
    BY <1>1, <1>10, <1>11, OrderWritten
  <1> HIDE DEF t
  <1>13. t.blocks = w.blocks /\ t.pages = w.pages /\ t.revision = s.revision
    BY <1>6, <1>8, <1>10, <1>12 DEF SameRest
  <1>14. KeysAre(t, B)
    <2>1. t.pages = Over([k \in {PageKey(o.page)} |-> o.id], s.pages)
      BY <1>8, <1>10, <1>13
    <2> QED
      BY <1>1, <1>2, <2>1, KeysPut
  <1>15. BlocksAre(t, B)
    <2>1. o.id \notin Ids(o.entries)
      BY <1>2 DEF Fits
    <2>2. t.blocks[o.id] = o.page /\ ShowsEntries(t, o)
      BY <1>6, <1>8, <1>10, <1>13, <2>1 DEF ShowsEntries
    <2>3. Shows(t, o)
      BY <2>2 DEF Shows
    <2>4. DOMAIN t.blocks = DOMAIN s.blocks \cup {o.id} \cup Ids(o.entries)
      BY <1>6, <1>8, <1>10, <1>13
    <2>5. \A b \in DOMAIN s.blocks \ ({o.id} \cup Ids(o.entries)) : t.blocks[b] = s.blocks[b]
      BY <1>6, <1>8, <1>10, <1>13
    <2>6. DOMAIN s.blocks = DOMAIN A \cup EntriesOf(A) /\ \A q \in DOMAIN A : Shows(s, A[q])
      BY <1>1, <1>2, BlocksShown
    <2> QED
      BY <2>3, <2>4, <2>5, <2>6, BlocksPut
  <1>16. Brings(t, s, B)
    BY <1>12, <1>13, <1>14, <1>15 DEF Brings, Holds
  <1> QED
    BY <1>4, <1>16 DEF InsertPage, t, w, v, u

\* What the writes of replaceOutline come to: the ordering of the old entries is erased,
\* the Blocks of those that vanished are deleted and the new outline is written.
LEMMA ReplacedOutline ==
    ASSUME NEW s, IsStore(s), NEW before, NEW o, NEW A, IsMap(A), o.id \notin DOMAIN A,
           NEW I, NEW U, Paged(Put(A, o), I, U),
           PlacesAre(EraseContainment(s, Ids(before.entries)), A),
           CanEraseContainment(s, Ids(before.entries)),
           \A q \in DOMAIN A : Shows(s, A[q]),
           DOMAIN A \cup EntriesOf(A) \subseteq DOMAIN s.blocks,
           DOMAIN s.blocks \subseteq DOMAIN A \cup EntriesOf(A) \cup {o.id} \cup Ids(before.entries),
           Ids(before.entries) \cap (DOMAIN A \cup EntriesOf(A)) = {}
    PROVE  LET t == Replace(s, before, o)
           IN  /\ CanReplace(s, before, o) /\ IsStore(t) /\ BlocksAre(t, Put(A, o))
               /\ PlacesAre(t, Put(A, o)) /\ t.pages = s.pages /\ t.revision = s.revision
  <1> DEFINE old == Ids(before.entries)
             gone == old \ Ids(o.entries)
             e == EraseContainment(s, old)
             u == DeleteBlocks(e, gone)
             w == WriteEntries(WritePage(u, o), o)
             t == WriteContainment(w, o)
             B == Put(A, o)
  <1>1. Paged(A, I, U) /\ Outlined(o, o.id, I, U) /\ Fits(A, o)
    BY FitsPut
  <1>2. IsStore(e) /\ SameRest(s, e)
    <2>1. IsErased(e, s, old)
      BY Erasing
    <2> QED
      BY <2>1 DEF IsErased
  <1>3. PlacesAre(e, A) /\ CanEraseContainment(s, old)
    OBVIOUS
  <1> HIDE DEF e
  <1>4. CanWriteContainment(e, o)
    BY <1>2, <1>3, PlacesWritten
  <1>5. /\ IsStore(u) /\ SameButBlocks(e, u)
        /\ IsCut(u.blocks, e.blocks, DOMAIN e.blocks \ gone)
    BY <1>2, DeletingBlocks
  <1> HIDE DEF u
  <1>6. o.id \notin Ids(o.entries)
    BY <1>1 DEF Fits
  <1>7. /\ IsStore(w) /\ SameButBlocks(u, w) /\ Shows(w, o)
        /\ DOMAIN w.blocks = DOMAIN u.blocks \cup {o.id} \cup Ids(o.entries)
        /\ \A b \in DOMAIN u.blocks \ ({o.id} \cup Ids(o.entries)) : w.blocks[b] = u.blocks[b]
    BY <1>1, <1>5, <1>6, OutlineWritten
  <1> HIDE DEF w
  <1>8. SameOrder(e, w) /\ w.pages = s.pages /\ w.revision = s.revision
    BY <1>2, <1>5, <1>7 DEF SameButBlocks, SameOrder, SameRest
  <1>9. IsStore(t) /\ SameRest(w, t) /\ PlacesAre(t, B)
    BY <1>3, <1>7, <1>8, OrderWritten
  <1> HIDE DEF t
  <1>10. t.blocks = w.blocks /\ t.pages = s.pages /\ t.revision = s.revision
    BY <1>8, <1>9 DEF SameRest
  <1>11. \A q \in DOMAIN A : Shows(u, A[q])
    <2> SUFFICES ASSUME NEW q \in DOMAIN A
                 PROVE  Shows(u, A[q])
      OBVIOUS
    <2>1. A[q].id = q
      BY <1>1, PagedIs, OutlinedIs
    <2>2. Ids(A[q].entries) \subseteq EntriesOf(A)
      BY DEF EntriesOf
    <2>3. \A b \in {q} \cup Ids(A[q].entries) : u.blocks[b] = s.blocks[b]
      BY <1>2, <1>5, <2>2 DEF IsCut, SameRest
    <2>4. Shows(s, A[q])
      OBVIOUS
    <2> QED
      BY <2>1, <2>3, <2>4, ShowsKept
  <1>12. BlocksAre(t, B)
    <2>1. Shows(t, o)
      BY <1>7, <1>10 DEF Shows, ShowsEntries
    <2>2. DOMAIN u.blocks = DOMAIN s.blocks \ gone
      BY <1>2, <1>5 DEF IsCut, SameRest
    <2>3. DOMAIN A \cup EntriesOf(A) \subseteq DOMAIN u.blocks
      BY <2>2
    <2>4. DOMAIN u.blocks \subseteq DOMAIN A \cup EntriesOf(A) \cup {o.id} \cup Ids(o.entries)
      BY <2>2
    <2>5. /\ DOMAIN t.blocks = DOMAIN u.blocks \cup {o.id} \cup Ids(o.entries)
          /\ \A b \in DOMAIN u.blocks \ ({o.id} \cup Ids(o.entries)) : t.blocks[b] = u.blocks[b]
      BY <1>7, <1>10
    <2> QED
      BY <1>11, <2>1, <2>3, <2>4, <2>5, BlocksPut
  <1>13. CanReplace(s, before, o)
    BY <1>3, <1>4 DEF CanReplace, e
  <1>14. /\ CanReplace(s, before, o) /\ IsStore(t) /\ BlocksAre(t, B)
         /\ PlacesAre(t, B) /\ t.pages = s.pages /\ t.revision = s.revision
    BY <1>9, <1>10, <1>12, <1>13
  <1> QED
    BY <1>14 DEF Replace, t, w, u, e

\* The Pages with another outline for one of them.
Edited(A, o) == Put(Drop(A, {o.id}), o)
IsEdited(B, A, o) ==
    /\ DOMAIN B = DOMAIN A /\ B[o.id] = o /\ IsMap(B)
    /\ \A q \in DOMAIN A : q # o.id => B[q] = A[q]

\* The other Pages are the ones they were.
LEMMA EditedIs ==
    ASSUME NEW A, NEW o, o.id \in DOMAIN A
    PROVE  IsEdited(Edited(A, o), A, o)
  <1> DEFINE R == Drop(A, {o.id})
             B == Put(R, o)
  <1>1. DOMAIN R = DOMAIN A \ {o.id} /\ \A q \in DOMAIN A \ {o.id} : R[q] = A[q]
    BY DEF Drop
  <1> HIDE DEF R
  <1>2. Joins(B, R, o)
    BY <1>1, PutIs
  <1> HIDE DEF B
  <1>3. IsEdited(B, A, o)
    BY <1>1, <1>2 DEF Joins, IsEdited
  <1> QED
    BY <1>3 DEF Edited, B, R

\* One Page gets a new outline, under its old key.
LEMMA ReplacedPage ==
    ASSUME NEW s, NEW A, NEW I, NEW U, Paged(A, I, U), Holds(s, A),
           NEW o, o.id \in DOMAIN A, PageKey(o.page) = PageKey(A[o.id].page),
           NEW J, NEW V, Paged(Edited(A, o), J, V)
    PROVE  /\ CanReplace(s, A[o.id], o)
           /\ Brings(Replace(s, A[o.id], o), s, Edited(A, o))
  <1> DEFINE p == o.id
             R == Drop(A, {p})
             B == Put(R, o)
             t == Replace(s, A[p], o)
             old == Ids(A[p].entries)
  <1>1. IsStore(s) /\ BlocksAre(s, A) /\ PlacesAre(s, A) /\ KeysAre(s, A)
    BY DEF Holds
  <1>2. Leaves(R, A, {p})
    BY DropIs
  <1>3. /\ DOMAIN R = DOMAIN A \ {p} /\ \A q \in DOMAIN A \ {p} : R[q] = A[q]
        /\ IsMap(R) /\ EntriesOf(R) \subseteq EntriesOf(A) /\ old \cap EntriesOf(R) = {}
        /\ \A b \in EntriesOf(A) : b \in EntriesOf(R) \/ b \in old
    BY <1>2 DEF Leaves
  <1>4. PlacesAre(EraseContainment(s, old), R) /\ CanEraseContainment(s, old)
    BY <1>1, PageErased
  <1>5. DOMAIN s.blocks = DOMAIN A \cup EntriesOf(A) /\ \A q \in DOMAIN A : Shows(s, A[q])
    BY <1>1, BlocksShown
  <1>6. Paged(B, J, V)
    BY DEF Edited
  <1>7. DOMAIN A \cap EntriesOf(A) = {} /\ old \subseteq EntriesOf(A)
    BY DEF Paged, EntriesOf
  <1> HIDE DEF R
  <1>8. \A q \in DOMAIN R : Shows(s, R[q])
    BY <1>3, <1>5
  <1>9. /\ p \notin DOMAIN R /\ DOMAIN R \cup EntriesOf(R) \subseteq DOMAIN s.blocks
        /\ DOMAIN s.blocks \subseteq DOMAIN R \cup EntriesOf(R) \cup {p} \cup old
        /\ old \cap (DOMAIN R \cup EntriesOf(R)) = {}
    BY <1>3, <1>5, <1>7
  <1>10. /\ CanReplace(s, A[p], o) /\ IsStore(t) /\ BlocksAre(t, B)
         /\ PlacesAre(t, B) /\ t.pages = s.pages /\ t.revision = s.revision
    BY <1>1, <1>3, <1>4, <1>6, <1>8, <1>9, ReplacedOutline
  <1> HIDE DEF t
  <1>11. KeysAre(t, B)
    <2>1. Joins(B, R, o)
      BY <1>9, PutIs
    <2>2. DOMAIN B = DOMAIN A /\ \A q \in DOMAIN A : PageKey(B[q].page) = PageKey(A[q].page)
      BY <1>3, <2>1 DEF Joins
    <2> HIDE DEF B
    <2> QED
      BY <1>1, <1>10, <2>2, KeysKept
  <1> QED
    BY <1>10, <1>11 DEF Brings, Holds, Edited, t, R

\* A Page comes to be in the transaction that gives it its first outline.
LEMMA ReplacedVirtual ==
    ASSUME NEW s, NEW A, IsMap(A), Holds(s, A), NEW o, o.id \notin DOMAIN A,
           NEW I, NEW U, Paged(Put(A, o), I, U),
           NEW page, page.id = o.id, page.entries = <<>>, PageKey(page.page) = PageKey(o.page)
    PROVE  /\ CanReplace(IndexPage(s, page), page, o)
           /\ Brings(Replace(IndexPage(s, page), page, o), s, Put(A, o))
  <1> DEFINE u == IndexPage(s, page)
             t == Replace(u, page, o)
             B == Put(A, o)
  <1>1. IsStore(s) /\ BlocksAre(s, A) /\ PlacesAre(s, A) /\ KeysAre(s, A)
    BY DEF Holds
  <1>2. Paged(A, I, U) /\ Fits(A, o)
    BY FitsPut
  <1>3. IsIndexed(u, s, Over([k \in {PageKey(page.page)} |-> page.id], s.pages))
    BY <1>1, Indexing
  <1> HIDE DEF u
  <1>4. /\ IsStore(u) /\ SameOrder(s, u) /\ u.blocks = s.blocks /\ u.revision = s.revision
        /\ u.pages = Over([k \in {PageKey(o.page)} |-> o.id], s.pages)
    BY <1>3 DEF IsIndexed
  <1>5. PlacesAre(u, A)
    BY <1>1, <1>4, PlacesKept
  <1>6. Ids(page.entries) = {}
    BY DEF Ids
  <1>7. Drop(A, {}) = A
    <2>1. DOMAIN A \ {} = DOMAIN A
      OBVIOUS
    <2> QED
      BY <2>1 DEF Drop, IsMap
  <1>8. /\ PlacesAre(EraseContainment(u, Ids(page.entries)), A)
        /\ CanEraseContainment(u, Ids(page.entries))
    <2>1. {} \in SUBSET DOMAIN A /\ Ids(page.entries) = UNION {Ids(A[q].entries) : q \in {}}
      BY <1>6
    <2>2. /\ PlacesAre(EraseContainment(u, Ids(page.entries)), Drop(A, {}))
          /\ CanEraseContainment(u, Ids(page.entries))
      BY <1>2, <1>4, <1>5, <2>1, PlacesErased
    <2> QED
      BY <1>7, <2>2
  <1>9. DOMAIN u.blocks = DOMAIN A \cup EntriesOf(A) /\ \A q \in DOMAIN A : Shows(u, A[q])
    <2>1. DOMAIN s.blocks = DOMAIN A \cup EntriesOf(A) /\ \A q \in DOMAIN A : Shows(s, A[q])
      BY <1>1, <1>2, BlocksShown
    <2> QED
      BY <1>4, <2>1 DEF Shows, ShowsEntries
  <1>10. /\ CanReplace(u, page, o) /\ IsStore(t) /\ BlocksAre(t, B)
         /\ PlacesAre(t, B) /\ t.pages = u.pages /\ t.revision = u.revision
    <2>1. /\ DOMAIN A \cup EntriesOf(A) \subseteq DOMAIN u.blocks
          /\ DOMAIN u.blocks \subseteq DOMAIN A \cup EntriesOf(A) \cup {o.id} \cup Ids(page.entries)
          /\ Ids(page.entries) \cap (DOMAIN A \cup EntriesOf(A)) = {}
      BY <1>6, <1>9
    <2> QED
      BY <1>4, <1>8, <1>9, <2>1, ReplacedOutline
  <1> HIDE DEF t
  <1>11. KeysAre(t, B)
    <2>1. t.pages = Over([k \in {PageKey(o.page)} |-> o.id], s.pages)
      BY <1>4, <1>10
    <2> QED
      BY <1>1, <1>2, <2>1, KeysPut
  <1>12. Brings(t, s, B)
    BY <1>4, <1>10, <1>11 DEF Brings, Holds
  <1> QED
    BY <1>10, <1>12 DEF t, u

\* Outlines with the same identifiers under the same parents are placed alike.
LEMMA SamePlacements ==
    ASSUME NEW o, NEW r, NEW I, NEW U, NEW J, NEW V, Outlined(o, o.id, I, U), Outlined(r, r.id, J, V),
           r.id = o.id, Len(r.entries) = Len(o.entries),
           \A i \in 1 .. Len(o.entries) : /\ r.entries[i].id = o.entries[i].id
                                          /\ r.entries[i].parent = o.entries[i].parent
    PROVE  Ids(r.entries) = Ids(o.entries) /\ \A b \in Ids(o.entries) : Placements(r)[b] = Placements(o)[b]
  <1> DEFINE es == o.entries
             fs == r.entries
             n == Len(es)
  <1>1. n \in Nat /\ DOMAIN es = 1 .. n /\ Named(es) /\ Ids(es) = {es[i].id : i \in 1 .. n}
    BY OutlinedIs
  <1>2. DOMAIN fs = 1 .. n /\ Named(fs) /\ Ids(fs) = {fs[i].id : i \in 1 .. n}
    BY OutlinedIs
  <1>3. \A i \in 1 .. n : Placements(o)[es[i].id] = <<Container(o.id, es, i), Rank(es, i)>>
    BY <1>1, PlacementIs
  <1>4. \A i \in 1 .. n : Placements(r)[fs[i].id] = <<Container(r.id, fs, i), Rank(fs, i)>>
    BY <1>2, PlacementIs
  <1>5. Ids(fs) = Ids(es)
    BY <1>1, <1>2
  <1> HIDE DEF es, fs, n
  <1>6. \A i \in 1 .. n : fs[i].id = es[i].id /\ fs[i].parent = es[i].parent
    BY DEF es, fs, n
  <1>7. ASSUME NEW i \in 1 .. n
        PROVE  Container(r.id, fs, i) = Container(o.id, es, i) /\ Rank(fs, i) = Rank(es, i)
    <2>1. Container(r.id, fs, i) = Container(o.id, es, i)
      BY <1>6 DEF Container
    <2>2. Siblings(fs, i) = Siblings(es, i)
      <3>1. \A k \in 1 .. i : k \in 1 .. n
        BY <1>1
      <3> QED
        BY <1>6, <3>1 DEF Siblings
    <2> QED
      BY <2>1, <2>2 DEF Rank
  <1>8. \A i \in 1 .. n : Placements(r)[es[i].id] = Placements(o)[es[i].id]
    BY <1>3, <1>4, <1>6, <1>7
  <1> QED
    BY <1>1, <1>5, <1>8 DEF es, fs

\* Texts are written without touching the ordering.
LEMMA UpdatedPage ==
    ASSUME NEW s, NEW A, NEW I, NEW U, Paged(A, I, U), Holds(s, A),
           NEW o, o.id \in DOMAIN A, o.page = A[o.id].page,
           NEW J, NEW V, Paged(Edited(A, o), J, V),
           Len(o.entries) = Len(A[o.id].entries),
           \A i \in 1 .. Len(o.entries) : /\ o.entries[i].id = A[o.id].entries[i].id
                                          /\ o.entries[i].parent = A[o.id].entries[i].parent
    PROVE  Brings(WriteEntries(s, o), s, Edited(A, o))
  <1> DEFINE p == o.id
             B == Edited(A, o)
             t == WriteEntries(s, o)
  <1>1. IsStore(s) /\ BlocksAre(s, A) /\ PlacesAre(s, A) /\ KeysAre(s, A)
    BY DEF Holds
  <1>2. /\ DOMAIN B = DOMAIN A /\ B[p] = o /\ IsMap(B)
        /\ \A q \in DOMAIN A : q # p => B[q] = A[q]
    <2>1. IsEdited(B, A, o)
      BY EditedIs
    <2> QED
      BY <2>1 DEF IsEdited
  <1>3. Paged(B, J, V)
    OBVIOUS
  <1> HIDE DEF B
  <1>4. Outlined(o, p, J, V) /\ Outlined(A[p], p, I, U) /\ A[p].id = p
    <2>1. Outlined(A[p], p, I, U)
      BY PagedIs
    <2>2. Outlined(B[p], p, J, V)
      BY <1>2, <1>3, PagedIs
    <2> QED
      BY <1>2, <2>1, <2>2, OutlinedIs
  <1>5. /\ Ids(o.entries) = Ids(A[p].entries)
        /\ \A b \in Ids(A[p].entries) : Placements(o)[b] = Placements(A[p])[b]
    <2> DEFINE q == A[p]
    <2>1. Outlined(q, q.id, I, U) /\ Outlined(o, o.id, J, V) /\ o.id = q.id
      BY <1>4
    <2>2. /\ Len(o.entries) = Len(q.entries)
          /\ \A i \in 1 .. Len(q.entries) : /\ o.entries[i].id = q.entries[i].id
                                             /\ o.entries[i].parent = q.entries[i].parent
      OBVIOUS
    <2> HIDE DEF q
    <2>3. /\ Ids(o.entries) = Ids(q.entries)
          /\ \A b \in Ids(q.entries) : Placements(o)[b] = Placements(q)[b]
      BY <2>1, <2>2, SamePlacements
    <2> QED
      BY <2>3 DEF q
  <1>6. EntriesOf(B) = EntriesOf(A)
    <2>1. \A q \in DOMAIN A : Ids(B[q].entries) = Ids(A[q].entries)
      BY <1>2, <1>5
    <2> QED
      BY <1>2, <2>1 DEF EntriesOf
  <1>7. EntriesWritten(t, s, o)
    BY <1>1, <1>4, WritingEntries
  <1> HIDE DEF t
  <1>8. /\ IsStore(t) /\ SameOrder(s, t) /\ t.pages = s.pages /\ t.revision = s.revision
        /\ ShowsEntries(t, o) /\ DOMAIN t.blocks = DOMAIN s.blocks \cup Ids(o.entries)
        /\ \A b \in DOMAIN s.blocks \ Ids(o.entries) : t.blocks[b] = s.blocks[b]
    BY <1>7 DEF EntriesWritten, SameButBlocks
  <1>9. PlacesAre(t, B)
    <2>1. PlacesAre(t, A)
      BY <1>1, <1>8, PlacesKept
    <2>2. \A q \in DOMAIN B : \A b \in Ids(B[q].entries) : t.byChild[b] = Placements(B[q])[b]
      BY <1>2, <1>5, <2>1 DEF PlacesAre
    <2> QED
      BY <1>6, <2>1, <2>2 DEF PlacesAre
  <1>10. KeysAre(t, B)
    <2>1. \A q \in DOMAIN A : PageKey(B[q].page) = PageKey(A[q].page)
      BY <1>2
    <2> QED
      BY <1>1, <1>2, <1>8, <2>1, KeysKept
  <1>11. DOMAIN s.blocks = DOMAIN A \cup EntriesOf(A) /\ \A q \in DOMAIN A : Shows(s, A[q])
    BY <1>1, BlocksShown
  <1>12. Ids(o.entries) \subseteq EntriesOf(A) /\ DOMAIN A \cap EntriesOf(A) = {}
    BY <1>5 DEF Paged, EntriesOf
  <1>13. ASSUME NEW q \in DOMAIN B
         PROVE  Shows(t, B[q])
    <2>1. CASE q = p
      <3>1. t.blocks[p] = s.blocks[p] /\ s.blocks[p] = o.page
        BY <1>4, <1>8, <1>11, <1>12 DEF Shows
      <3> QED
        BY <1>2, <1>8, <2>1, <3>1 DEF Shows
    <2>2. CASE q # p
      <3>1. q \in DOMAIN A /\ B[q] = A[q]
        BY <1>2, <2>2
      <3>2. A[q].id = q /\ \A b \in Ids(A[q].entries) : b \in EntriesOf(A) /\ b \notin Ids(o.entries)
        <4>1. A[q].id = q
          BY <3>1, PagedIs, OutlinedIs
        <4> QED
          BY <1>5, <2>2, <3>1, <4>1, PagedIs
      <3>3. \A b \in {q} \cup Ids(A[q].entries) : t.blocks[b] = s.blocks[b]
        BY <1>8, <1>11, <1>12, <3>1, <3>2
      <3> QED
        BY <1>11, <3>1, <3>2, <3>3, ShowsKept
    <2> QED
      BY <2>1, <2>2
  <1>14. BlocksAre(t, B)
    <2>1. DOMAIN t.blocks = DOMAIN B \cup EntriesOf(B)
      BY <1>2, <1>6, <1>8, <1>11, <1>12
    <2> QED
      BY <1>3, <1>13, <2>1, BlocksShown
  <1>15. Brings(t, s, B)
    BY <1>8, <1>9, <1>10, <1>14 DEF Brings, Holds
  <1> QED
    BY <1>15 DEF t, B

-----------------------------------------------------------------------------
\* The texts that a rename writes on other Pages.

\* Some entries with other texts; the Pages with them.
Retexted(es, texts, side) ==
    [i \in DOMAIN es |->
        IF es[i].id \in DOMAIN texts THEN [es[i] EXCEPT !.text = texts[es[i].id][side]]
        ELSE es[i]]
IsRetext(B, A, texts, side) ==
    /\ DOMAIN B = DOMAIN A
    /\ \A p \in DOMAIN A : /\ B[p].page = A[p].page
                           /\ B[p].entries = Retexted(A[p].entries, texts, side)

\* Only texts differ.
LEMMA RetextedIs ==
    ASSUME NEW I, NEW T, NEW U, NEW es \in Seq(Entry(I, T, U)), NEW texts, NEW side
    PROVE  LET r == Retexted(es, texts, side)
           IN  /\ DOMAIN r = 1 .. Len(es)
               /\ \A i \in 1 .. Len(es) :
                     /\ r[i].id = es[i].id /\ r[i].parent = es[i].parent
                     /\ r[i].updated = es[i].updated
                     /\ r[i].text = IF es[i].id \in DOMAIN texts THEN texts[es[i].id][side]
                                    ELSE es[i].text
  <1> DEFINE r == Retexted(es, texts, side)
  <1>1. DOMAIN es = 1 .. Len(es) /\ \A i \in 1 .. Len(es) : es[i] \in Entry(I, T, U)
    OBVIOUS
  <1>2. /\ DOMAIN r = 1 .. Len(es)
        /\ \A i \in 1 .. Len(es) :
              r[i] = IF es[i].id \in DOMAIN texts THEN [es[i] EXCEPT !.text = texts[es[i].id][side]]
                     ELSE es[i]
    BY <1>1 DEF Retexted
  <1> HIDE DEF r
  <1>3. ASSUME NEW i \in 1 .. Len(es)
        PROVE  /\ r[i].id = es[i].id /\ r[i].parent = es[i].parent
               /\ r[i].updated = es[i].updated
               /\ r[i].text = IF es[i].id \in DOMAIN texts THEN texts[es[i].id][side]
                              ELSE es[i].text
    <2>1. CASE es[i].id \in DOMAIN texts
      <3> DEFINE x == texts[es[i].id][side]
      <3>1. r[i] = [es[i] EXCEPT !.text = x]
        BY <1>2, <2>1
      <3> HIDE DEF x
      <3>2. es[i] \in Entry(I, T, U)
        BY <1>1
      <3>3. r[i].id = es[i].id /\ r[i].parent = es[i].parent
            /\ r[i].updated = es[i].updated /\ r[i].text = x
        BY <3>1, <3>2 DEF Entry
      <3> QED
        BY <2>1, <3>3 DEF x
    <2>2. CASE es[i].id \notin DOMAIN texts
      BY <1>2, <2>2
    <2> QED
      BY <2>1, <2>2
  <1> QED
    BY <1>2, <1>3 DEF r

\* No texts, no change.
LEMMA NoRetext ==
    ASSUME NEW A, NEW I, NEW U, Paged(A, I, U), NEW side
    PROVE  IsRetext(A, A, NoTexts, side)
  <1>1. ASSUME NEW p \in DOMAIN A
        PROVE  A[p].entries = Retexted(A[p].entries, NoTexts, side)
    <2> DEFINE es == A[p].entries
    <2>1. es \in Seq(Entry(I, Seq(STRING), U))
      BY PagedIs, OutlinedIs
    <2>2. es = [i \in DOMAIN es |-> es[i]]
      BY <2>1
    <2>3. DOMAIN NoTexts = {}
      BY DEF NoTexts
    <2> QED
      BY <2>2, <2>3 DEF Retexted
  <1> QED
    BY <1>1 DEF IsRetext

\* Where the entries of two Notebooks that differ in texts are.
SameTrees(B, A) ==
    /\ DOMAIN B = DOMAIN A /\ EntriesOf(B) = EntriesOf(A)
    /\ \A p \in DOMAIN A :
          /\ B[p].page = A[p].page
          /\ Len(B[p].entries) = Len(A[p].entries)
          /\ Ids(B[p].entries) = Ids(A[p].entries)
          /\ \A b \in Ids(A[p].entries) : Placements(B[p])[b] = Placements(A[p])[b]

\* Texts that change move no entry.
LEMMA RetextTrees ==
    ASSUME NEW A, NEW I, NEW U, Paged(A, I, U), NEW B, NEW J, NEW V, Paged(B, J, V),
           NEW texts, NEW side, IsRetext(B, A, texts, side)
    PROVE  SameTrees(B, A)
  <1>1. DOMAIN B = DOMAIN A
    BY DEF IsRetext
  <1>2. ASSUME NEW p \in DOMAIN A
        PROVE  /\ B[p].page = A[p].page
               /\ Len(B[p].entries) = Len(A[p].entries)
               /\ Ids(B[p].entries) = Ids(A[p].entries)
               /\ \A b \in Ids(A[p].entries) : Placements(B[p])[b] = Placements(A[p])[b]
    <2> DEFINE o == A[p]
               r == B[p]
    <2>1. Outlined(o, p, I, U) /\ Outlined(r, p, J, V)
      BY <1>1, PagedIs
    <2>2. o.id = p /\ r.id = p
      BY <2>1, OutlinedIs
    <2>3. r.page = o.page /\ r.entries = Retexted(o.entries, texts, side)
      BY DEF IsRetext
    <2> HIDE DEF o, r
    <2>4. o.entries \in Seq(Entry(I, Seq(STRING), U)) /\ Len(o.entries) \in Nat
      BY <2>1, OutlinedIs
    <2>5. DOMAIN r.entries = 1 .. Len(r.entries) /\ Len(r.entries) \in Nat
      BY <2>1, OutlinedIs
    <2>6. /\ DOMAIN r.entries = 1 .. Len(o.entries)
          /\ \A i \in 1 .. Len(o.entries) : /\ r.entries[i].id = o.entries[i].id
                                            /\ r.entries[i].parent = o.entries[i].parent
      BY <2>3, <2>4, RetextedIs
    <2>7. Len(r.entries) = Len(o.entries)
      BY <2>4, <2>5, <2>6
    <2>8. /\ Ids(r.entries) = Ids(o.entries)
          /\ \A b \in Ids(o.entries) : Placements(r)[b] = Placements(o)[b]
      BY <2>1, <2>2, <2>6, <2>7, SamePlacements
    <2> QED
      BY <2>3, <2>7, <2>8 DEF o, r
  <1>3. EntriesOf(B) = EntriesOf(A)
    BY <1>1, <1>2 DEF EntriesOf
  <1> QED
    BY <1>1, <1>2, <1>3 DEF SameTrees

\* What a rename writes on the Pages that mention the old name.
LEMMA WroteTexts ==
    ASSUME NEW s, NEW A, NEW I, NEW U, Paged(A, I, U), Holds(s, A),
           NEW B, NEW J, NEW V, Paged(B, J, V), NEW texts, NEW side,
           IsRetext(B, A, texts, side), DOMAIN texts \subseteq EntriesOf(A)
    PROVE  Brings(WriteTexts(s, texts, side), s, B)
  <1> DEFINE t == WriteTexts(s, texts, side)
             f == TextBlocks(s, texts, side)
  <1>1. IsStore(s) /\ BlocksAre(s, A) /\ PlacesAre(s, A) /\ KeysAre(s, A)
    BY DEF Holds
  <1>2. IsStore(t) /\ SameButBlocks(s, t) /\ t.blocks = Over(f, s.blocks)
    <2>1. IsBlocked(t, s, Over(f, s.blocks))
      BY <1>1, WritingBlocks
    <2> QED
      BY <2>1 DEF IsBlocked
  <1>3. IsOver(t.blocks, f, s.blocks)
    BY <1>2, OverIs
  <1>4. /\ DOMAIN f = DOMAIN texts
        /\ \A e \in DOMAIN texts : f[e] = [s.blocks[e] EXCEPT !.text = texts[e][side]]
    BY DEF TextBlocks
  <1> HIDE DEF t, f
  <1>5. /\ DOMAIN B = DOMAIN A /\ EntriesOf(B) = EntriesOf(A)
        /\ \A p \in DOMAIN A :
              /\ B[p].page = A[p].page
              /\ Len(B[p].entries) = Len(A[p].entries)
              /\ Ids(B[p].entries) = Ids(A[p].entries)
              /\ \A b \in Ids(A[p].entries) : Placements(B[p])[b] = Placements(A[p])[b]
    <2>1. SameTrees(B, A)
      BY RetextTrees
    <2> QED
      BY <2>1 DEF SameTrees
  <1>6. PlacesAre(t, B)
    <2>1. PlacesAre(t, A)
      BY <1>1, <1>2, PlacesKept DEF SameButBlocks
    <2>2. \A q \in DOMAIN B : \A b \in Ids(B[q].entries) : t.byChild[b] = Placements(B[q])[b]
      BY <1>5, <2>1 DEF PlacesAre
    <2> QED
      BY <1>5, <2>1, <2>2 DEF PlacesAre
  <1>7. KeysAre(t, B)
    <2>1. t.pages = s.pages
      BY <1>2 DEF SameButBlocks
    <2> QED
      BY <1>1, <1>5, <2>1, KeysKept
  <1>8. DOMAIN s.blocks = DOMAIN A \cup EntriesOf(A) /\ \A q \in DOMAIN A : Shows(s, A[q])
    BY <1>1, BlocksShown
  <1>9. DOMAIN A \cap EntriesOf(A) = {}
    BY DEF Paged
  <1>10. ASSUME NEW p \in DOMAIN B
         PROVE  Shows(t, B[p])
    <2>1. p \in DOMAIN A /\ A[p].id = p /\ B[p].id = p /\ B[p].page = A[p].page
      <3>1. p \in DOMAIN A /\ B[p].page = A[p].page
        BY <1>5
      <3>2. A[p].id = p
        BY <3>1, PagedIs, OutlinedIs
      <3>3. B[p].id = p
        BY PagedIs, OutlinedIs
      <3> QED
        BY <3>1, <3>2, <3>3
    <2>2. t.blocks[p] = B[p].page
      <3>1. p \notin DOMAIN texts /\ p \in DOMAIN s.blocks
        BY <1>8, <1>9, <2>1
      <3>2. s.blocks[p] = A[p].page
        BY <1>8, <2>1 DEF Shows
      <3> QED
        BY <1>3, <1>4, <2>1, <3>1, <3>2 DEF IsOver
    <2> DEFINE es == A[p].entries
               fs == B[p].entries
    <2>3. es \in Seq(Entry(I, Seq(STRING), U)) /\ Ids(es) = {es[i].id : i \in 1 .. Len(es)}
      <3>1. Outlined(A[p], p, I, U)
        BY <2>1, PagedIs
      <3> QED
        BY <3>1, OutlinedIs
    <2>4. fs = Retexted(es, texts, side)
      BY <2>1 DEF IsRetext
    <2>5. Shows(s, A[p]) /\ Ids(es) \subseteq EntriesOf(A)
      BY <1>8, <2>1 DEF EntriesOf
    <2>6. DOMAIN es = 1 .. Len(es) /\ \A i \in 1 .. Len(es) : s.blocks[es[i].id] = EntryBlock(es[i])
      BY <2>3, <2>5 DEF Shows, ShowsEntries
    <2> HIDE DEF es, fs
    <2>7. /\ DOMAIN fs = 1 .. Len(es)
          /\ \A i \in 1 .. Len(es) :
                /\ fs[i].id = es[i].id /\ fs[i].updated = es[i].updated
                /\ fs[i].text = IF es[i].id \in DOMAIN texts THEN texts[es[i].id][side]
                                ELSE es[i].text
      BY <2>3, <2>4, RetextedIs
    <2>8. ASSUME NEW i \in 1 .. Len(es)
          PROVE  t.blocks[fs[i].id] = EntryBlock(fs[i])
      <3>1. es[i].id \in DOMAIN s.blocks /\ s.blocks[es[i].id] = EntryBlock(es[i])
        BY <1>8, <2>3, <2>5, <2>6
      <3>2. CASE es[i].id \in DOMAIN texts
        <4> DEFINE x == texts[es[i].id][side]
        <4>1. t.blocks[es[i].id] = [EntryBlock(es[i]) EXCEPT !.text = x]
          BY <1>3, <1>4, <3>1, <3>2 DEF IsOver
        <4>2. fs[i].id = es[i].id /\ fs[i].updated = es[i].updated /\ fs[i].text = x
          BY <2>7, <3>2
        <4> HIDE DEF x
        <4> QED
          BY <4>1, <4>2 DEF EntryBlock
      <3>3. CASE es[i].id \notin DOMAIN texts
        <4>1. t.blocks[es[i].id] = EntryBlock(es[i])
          BY <1>3, <1>4, <3>1, <3>3 DEF IsOver
        <4>2. fs[i].id = es[i].id /\ fs[i].updated = es[i].updated /\ fs[i].text = es[i].text
          BY <2>7, <3>3
        <4> QED
          BY <4>1, <4>2 DEF EntryBlock
      <3> QED
        BY <3>2, <3>3
    <2>9. ShowsEntries(t, B[p])
      BY <2>7, <2>8 DEF ShowsEntries, fs
    <2> QED
      BY <2>1, <2>2, <2>9 DEF Shows
  <1>11. BlocksAre(t, B)
    <2>1. DOMAIN t.blocks = DOMAIN B \cup EntriesOf(B)
      BY <1>3, <1>4, <1>5, <1>8 DEF IsOver
    <2> QED
      BY <1>10, <2>1, BlocksShown
  <1>12. Brings(t, s, B)
    BY <1>2, <1>6, <1>7, <1>11 DEF Brings, Holds, SameButBlocks
  <1> QED
    BY <1>12 DEF t

-----------------------------------------------------------------------------
\* What an action remembers, and that applying it leads back.

\* The Pages as a Notebook may hold them at all.
World(A) == Paged(A, BlockIds, Nat)

\* One transaction after another.
LEMMA BringsOn ==
    ASSUME NEW s, NEW u, NEW t, NEW A, NEW B, Brings(u, s, A), Brings(t, u, B)
    PROVE  Brings(t, s, B)
  BY DEF Brings

\* The Pages with the one that an action remembers, or without it.
Side(R, o) == IF o = Absent THEN R ELSE Put(R, o)

\* restoreOutline brings the remembered outline of the date back, whatever is there.
LEMMA RestoredDate ==
    ASSUME NEW s, NEW R, IsMap(R), NEW d, NEW o, NEW target,
           o = Absent \/ (o.id \notin DOMAIN R /\ PageKey(o.page) = <<"journal", d>>),
           target = Absent \/ target.id \notin DOMAIN R,
           \A p \in DOMAIN R : PageKey(R[p].page) # <<"journal", d>>,
           World(Side(R, o)), World(Side(R, target)), Holds(s, Side(R, o))
    PROVE  /\ CanRestoreOutline(s, d, target)
           /\ Brings(RestoreOutline(s, d, target), s, Side(R, target))
  <1> DEFINE u == WithoutDate(s, d)
  <1>1. Brings(u, s, R)
    <2>1. CASE o = Absent
      <3>1. World(R) /\ Holds(s, R)
        BY <2>1 DEF Side
      <3>2. Paged(R, BlockIds, Nat)
            /\ \A p \in DOMAIN R : PageKey(R[p].page) # <<"journal", d>>
        BY <3>1 DEF World
      <3>5. (\A p \in DOMAIN R : PageKey(R[p].page) # <<"journal", d>>) =>
               LoadOutlineForDate(s, d) = Absent
        BY ONLY <3>1, <3>2, LoadedForDate
      <3>4. LoadOutlineForDate(s, d) = Absent
        BY ONLY <3>2, <3>5
      <3>3. u = s
        BY <3>4 DEF WithoutDate
      <3> QED
        BY <3>1, <3>3 DEF Brings
    <2>2. CASE o # Absent
      <3> DEFINE Y == Put(R, o)
      <3>1. Paged(Y, BlockIds, Nat) /\ Holds(s, Y) /\ o.id \notin DOMAIN R
            /\ PageKey(o.page) = <<"journal", d>>
        BY <2>2 DEF Side, World
      <3>2. o.id \in DOMAIN Y /\ Y[o.id] = o /\ Drop(Y, {o.id}) = R
        <4>1. Joins(Y, R, o)
          BY <3>1, PutIs
        <4> QED
          BY <3>1, <4>1, DropPut DEF Joins
      <3> HIDE DEF Y
      <3>3. LoadOutlineForDate(s, d) = o
        <4>1. o.id \in DOMAIN Y /\ PageKey(Y[o.id].page) = <<"journal", d>>
          BY <3>1, <3>2
        <4>2. LoadOutlineForDate(s, d) = Y[o.id]
          BY <3>1, <4>1, LoadedForDate
        <4> QED
          BY <3>2, <4>2
      <3>4. u = RemovePage(s, Y[o.id])
        BY <2>2, <3>2, <3>3 DEF WithoutDate
      <3>5. Brings(RemovePage(s, Y[o.id]), s, Drop(Y, {o.id}))
        BY <3>1, <3>2, RemovedPage
      <3> QED
        BY <3>2, <3>4, <3>5
    <2> QED
      BY <2>1, <2>2
  <1> HIDE DEF u
  <1>2. CASE target = Absent
    <2>1. CanRestoreOutline(s, d, target) /\ RestoreOutline(s, d, target) = u
      BY <1>2 DEF CanRestoreOutline, RestoreOutline, u
    <2> QED
      BY <1>1, <1>2, <2>1 DEF Side
  <1>3. CASE target # Absent
    <2>1. Paged(Put(R, target), BlockIds, Nat) /\ target.id \notin DOMAIN R /\ Holds(u, R)
      BY <1>1, <1>3 DEF Side, World, Brings
    <2>2. CanInsertPage(u, target) /\ Brings(InsertPage(u, target), u, Put(R, target))
      BY <2>1, InsertedOutline
    <2>3. CanRestoreOutline(s, d, target) /\ RestoreOutline(s, d, target) = InsertPage(u, target)
      BY <1>3, <2>2 DEF CanRestoreOutline, RestoreOutline, u
    <2> QED
      BY <1>1, <1>3, <2>2, <2>3, BringsOn DEF Side
  <1> QED
    BY <1>2, <1>3

\* restorePageState brings the remembered state of the Page back, and the texts on
\* the other Pages.
LEMMA RestoredPage ==
    ASSUME NEW s, NEW Y, World(Y), Holds(s, Y), NEW p, p \in DOMAIN Y \/ p \notin EntriesOf(Y),
           NEW target, target = Absent \/ target.id = p,
           NEW M, M = Side(Drop(Y, {p}), target), World(M),
           NEW X, World(X), NEW texts, NEW side, IsRetext(X, M, texts, side),
           DOMAIN texts \subseteq EntriesOf(M)
    PROVE  /\ CanRestorePage(s, p, target, texts)
           /\ Brings(RestorePage(s, p, target, texts, side), s, X)
  <1> DEFINE R == Drop(Y, {p})
             u == WithoutPage(s, p)
             v == PageRestored(s, p, target)
  <1>1. IsMap(R) /\ p \notin DOMAIN R
    BY DEF IsMap, Drop
  <1>2. DOMAIN s.blocks = DOMAIN Y \cup EntriesOf(Y)
    BY BlocksShown DEF Holds, World
  <1>3. Brings(u, s, R)
    <2>1. CASE p \in DOMAIN Y
      <3>1. LoadOutline(s, p) = Y[p]
        BY <2>1, LoadedIs DEF World
      <3>2. u = RemovePage(s, Y[p])
        BY <1>2, <2>1, <3>1 DEF WithoutPage
      <3>3. Brings(RemovePage(s, Y[p]), s, R)
        BY <2>1, RemovedPage DEF World
      <3> QED
        BY <3>2, <3>3
    <2>2. CASE p \notin DOMAIN Y
      <3>1. u = s
        BY <1>2, <2>2 DEF WithoutPage
      <3>2. R = Y
        <4>1. DOMAIN Y \ {p} = DOMAIN Y
          BY <2>2
        <4> QED
          BY <4>1 DEF Drop, IsMap, World, Paged
      <3> QED
        BY <3>1, <3>2 DEF Brings
    <2> QED
      BY <2>1, <2>2
  <1> HIDE DEF u, R
  <1>4. /\ target = Absent \/ CanInsertPage(u, target)
        /\ Brings(v, s, M)
    <2>1. CASE target = Absent
      <3>1. v = u /\ M = R
        BY <2>1 DEF PageRestored, u, Side, R
      <3> QED
        BY <1>3, <2>1, <3>1
    <2>2. CASE target # Absent
      <3>1. M = Put(R, target) /\ target.id \notin DOMAIN R /\ Holds(u, R)
        BY <1>1, <1>3, <2>2 DEF Side, R, Brings
      <3>2. Paged(Put(R, target), BlockIds, Nat)
        BY <3>1 DEF World
      <3>3. CanInsertPage(u, target) /\ Brings(InsertPage(u, target), u, Put(R, target))
        BY <1>1, <3>1, <3>2, InsertedOutline
      <3>4. v = InsertPage(u, target)
        BY <2>2 DEF PageRestored, u
      <3> QED
        BY <1>3, <3>1, <3>3, <3>4, BringsOn
    <2> QED
      BY <2>1, <2>2
  <1>5. Holds(v, M)
    BY <1>4 DEF Brings
  <1> HIDE DEF v
  <1>6. DOMAIN texts \subseteq DOMAIN v.blocks
    <2>1. DOMAIN v.blocks = DOMAIN M \cup EntriesOf(M)
      BY <1>5, BlocksShown DEF Holds, World
    <2> QED
      BY <2>1
  <1>7. CanRestorePage(s, p, target, texts)
    BY <1>4, <1>6 DEF CanRestorePage, u, v
  <1>8. Brings(WriteTexts(v, texts, side), v, X)
    BY <1>5, WroteTexts DEF World
  <1>9. Brings(WriteTexts(v, texts, side), s, X)
    BY <1>4, <1>8, BringsOn
  <1> QED
    BY <1>7, <1>9 DEF RestorePage, v

\* What it takes to take an action back, and to take it again: from any store with the
\* Pages of the one side the action leads to one with those of the other side.
Carries(t, what, Y, X, redo) ==
    \A s : Holds(s, Y) => /\ CanApply(s, t, what, redo)
                          /\ Brings(Apply(s, t, what, redo), s, X)
Links(t, what, X, Y) == Carries(t, what, Y, X, FALSE) /\ Carries(t, what, X, Y, TRUE)

\* An edit of a Journal Page.
LEMMA JournalLinks ==
    ASSUME NEW d, NEW R, IsMap(R), \A p \in DOMAIN R : PageKey(R[p].page) # <<"journal", d>>,
           NEW before,
           before = Absent \/ (before.id \notin DOMAIN R /\ PageKey(before.page) = <<"journal", d>>),
           NEW after,
           after = Absent \/ (after.id \notin DOMAIN R /\ PageKey(after.page) = <<"journal", d>>),
           World(Side(R, before)), World(Side(R, after))
    PROVE  Links(<<"journal", d>>, JournalAction(before, after), Side(R, before), Side(R, after))
  <1> DEFINE t == <<"journal", d>>
             what == JournalAction(before, after)
  <1>1. t[1] = "journal" /\ t[2] = d /\ what.before = before /\ what.after = after
    BY DEF JournalAction
  <1> HIDE DEF t, what
  <1>2. ASSUME NEW s, Holds(s, Side(R, after))
        PROVE  CanApply(s, t, what, FALSE) /\ Brings(Apply(s, t, what, FALSE), s, Side(R, before))
    <2>1. /\ CanRestoreOutline(s, d, before)
          /\ Brings(RestoreOutline(s, d, before), s, Side(R, before))
      BY <1>2, RestoredDate
    <2>2. Apply(s, t, what, FALSE) = RestoreOutline(s, d, before)
      BY <1>1 DEF Apply
    <2> QED
      BY <1>1, <2>1, <2>2 DEF CanApply
  <1>3. ASSUME NEW s, Holds(s, Side(R, before))
        PROVE  CanApply(s, t, what, TRUE) /\ Brings(Apply(s, t, what, TRUE), s, Side(R, after))
    <2>1. /\ CanRestoreOutline(s, d, after)
          /\ Brings(RestoreOutline(s, d, after), s, Side(R, after))
      BY <1>3, RestoredDate
    <2>2. Apply(s, t, what, TRUE) = RestoreOutline(s, d, after)
      BY <1>1 DEF Apply
    <2> QED
      BY <1>1, <2>1, <2>2 DEF CanApply
  <1>4. Links(t, what, Side(R, before), Side(R, after))
    BY <1>2, <1>3 DEF Links, Carries
  <1> QED
    BY <1>4 DEF t, what

\* The Pages as restorePageState leaves them before it writes the texts.
Reached(Y, p, target, texts, side, X) ==
    /\ p \in DOMAIN Y \/ p \notin EntriesOf(Y)
    /\ target = Absent \/ target.id = p
    /\ World(Side(Drop(Y, {p}), target))
    /\ IsRetext(X, Side(Drop(Y, {p}), target), texts, side)
    /\ DOMAIN texts \subseteq EntriesOf(Side(Drop(Y, {p}), target))

\* An edit of a Named Page.
LEMMA NamedLinks ==
    ASSUME NEW p, NEW X, NEW Y, World(X), World(Y), NEW before, NEW after, NEW texts,
           Reached(Y, p, before, texts, "before", X), Reached(X, p, after, texts, "after", Y)
    PROVE  Links(<<"named", p>>, PageAction(before, after, texts), X, Y)
  <1> DEFINE t == <<"named", p>>
             what == PageAction(before, after, texts)
  <1>1. /\ t[1] = "named" /\ t[2] = p /\ what.before = before /\ what.after = after
        /\ what.texts = texts
    BY DEF PageAction
  <1> HIDE DEF t, what
  <1>2. ASSUME NEW s, Holds(s, Y)
        PROVE  CanApply(s, t, what, FALSE) /\ Brings(Apply(s, t, what, FALSE), s, X)
    <2> DEFINE M == Side(Drop(Y, {p}), before)
    <2>1. /\ World(M) /\ IsRetext(X, M, texts, "before") /\ DOMAIN texts \subseteq EntriesOf(M)
          /\ p \in DOMAIN Y \/ p \notin EntriesOf(Y)
          /\ before = Absent \/ before.id = p
      BY DEF Reached
    <2>2. M = Side(Drop(Y, {p}), before)
      OBVIOUS
    <2> HIDE DEF M
    <2>3. /\ CanRestorePage(s, p, before, texts)
          /\ Brings(RestorePage(s, p, before, texts, "before"), s, X)
      BY <1>2, <2>1, <2>2, RestoredPage
    <2>4. Apply(s, t, what, FALSE) = RestorePage(s, p, before, texts, "before")
      BY <1>1 DEF Apply
    <2> QED
      BY <1>1, <2>3, <2>4 DEF CanApply
  <1>3. ASSUME NEW s, Holds(s, X)
        PROVE  CanApply(s, t, what, TRUE) /\ Brings(Apply(s, t, what, TRUE), s, Y)
    <2> DEFINE M == Side(Drop(X, {p}), after)
    <2>1. /\ World(M) /\ IsRetext(Y, M, texts, "after") /\ DOMAIN texts \subseteq EntriesOf(M)
          /\ p \in DOMAIN X \/ p \notin EntriesOf(X)
          /\ after = Absent \/ after.id = p
      BY DEF Reached
    <2>2. M = Side(Drop(X, {p}), after)
      OBVIOUS
    <2> HIDE DEF M
    <2>3. /\ CanRestorePage(s, p, after, texts)
          /\ Brings(RestorePage(s, p, after, texts, "after"), s, Y)
      BY <1>3, <2>1, <2>2, RestoredPage
    <2>4. Apply(s, t, what, TRUE) = RestorePage(s, p, after, texts, "after")
      BY <1>1 DEF Apply
    <2> QED
      BY <1>1, <2>3, <2>4 DEF CanApply
  <1>4. Links(t, what, X, Y)
    BY <1>2, <1>3 DEF Links, Carries
  <1> QED
    BY <1>4 DEF t, what

-----------------------------------------------------------------------------
\* The inductive invariant: the store holds Pages as they can be, and the deques tell
\* between which Pages each of their actions leads.

\* The Pages of a smaller Notebook can be those of a larger one.
LEMMA PagedMore ==
    ASSUME NEW A, NEW I, NEW U, Paged(A, I, U), NEW J, NEW V, I \subseteq J, U \subseteq V,
           TopLevel \notin J
    PROVE  Paged(A, J, V)
  <1>1. ASSUME NEW p \in DOMAIN A
        PROVE  Outlined(A[p], p, J, V)
    <2> DEFINE o == A[p]
    <2>1. Outlined(o, p, I, U)
      BY DEF Paged
    <2> HIDE DEF o
    <2>2. Entry(I, Seq(STRING), U) \subseteq Entry(J, Seq(STRING), V)
      BY DEF Entry
    <2>3. o.entries \in Seq(Entry(J, Seq(STRING), V))
      <3>1. o.entries \in Seq(Entry(I, Seq(STRING), U))
        BY <2>1, OutlinedIs
      <3> QED
        BY <2>2, <3>1
    <2>4. Page(J, Seq(STRING), V, o.entries)
      BY <2>1, <2>3, OutlinedIs DEF Page
    <2>5. Outlined(o, p, J, V)
      BY <2>1, <2>4 DEF Outlined
    <2> QED
      BY <2>5 DEF o
  <1> QED
    BY <1>1 DEF Paged

\* The actions of some deques lead from Pages as they can be to Pages as they can be.
Backed(P, B, F, I, U) ==
    \A y \in P : /\ Paged(B[No(y)], I, U) /\ Paged(F[No(y)], I, U)
                 /\ Links(y[1], y[2].what, B[No(y)], F[No(y)])

\* What the deques remember stays possible when identifiers are issued and time goes on.
LEMMA BackedMore ==
    ASSUME NEW P, NEW B, NEW F, NEW I, NEW U, Backed(P, B, F, I, U),
           NEW J, NEW V, I \subseteq J, U \subseteq V, TopLevel \notin J
    PROVE  Backed(P, B, F, J, V)
  <1>1. ASSUME NEW y \in P
        PROVE  Paged(B[No(y)], J, V) /\ Paged(F[No(y)], J, V)
    <2>1. Paged(B[No(y)], I, U) /\ Paged(F[No(y)], I, U)
      BY DEF Backed
    <2> QED
      BY <2>1, PagedMore
  <1> QED
    BY <1>1 DEF Backed

\* The session caches the revision of the last commit.
Cached(st, se) ==
    /\ se = [open |-> se.open, revision |-> se.revision]
    /\ se.open => se.revision = st.revision

\* The store st holds the Pages of A, with identifiers up to n and times up to c, and the
\* history h tells, in B and F, between which Pages each of its actions leads.
Tells(st, h, c, n, se, A, B, F, W) ==
    /\ n \in 0 .. MaxIds /\ c \in Nat /\ Cached(st, se)
    /\ Paged(A, 1 .. n, 0 .. c) /\ Holds(st, A)
    /\ StacksTyped(h, W) /\ Chronological(h)
    /\ Line(On(h.undo), On(h.redo), A, B, F)
    /\ Backed(On(h.undo), B, F, 1 .. n, 0 .. c) /\ Backed(On(h.redo), B, F, 1 .. n, 0 .. c)
Coherent(st, h, c, n, se) == \E A, B, F, W : Tells(st, h, c, n, se, A, B, F, W)

\* The identifiers and the times.
LEMMA BoundsIs ==
    ASSUME NEW n \in 0 .. MaxIds, NEW c \in Nat
    PROVE  /\ 1 .. n \subseteq BlockIds /\ 0 .. c \subseteq Nat
           /\ TopLevel \notin 1 .. n /\ TopLevel \notin BlockIds
           /\ \A m \in n .. MaxIds : 1 .. n \subseteq 1 .. m /\ m \in 0 .. MaxIds
           /\ \A d \in Nat : c <= d => 0 .. c \subseteq 0 .. d
  BY MaxIdsAssumption DEF BlockIds, TopLevel

\* The Pages of a reachable Notebook are Pages as they may be at all.
LEMMA WorldIs ==
    ASSUME NEW n \in 0 .. MaxIds, NEW c \in Nat, NEW A, Paged(A, 1 .. n, 0 .. c)
    PROVE  World(A)
  BY BoundsIs, PagedMore DEF World

\* A transaction commits.
LEMMA CommitKeeps ==
    ASSUME NEW st, NEW se, Cached(st, se), se.open, NEW s, NEW A, Brings(s, st, A)
    PROVE  Holds(Committed(s), A) /\ Cached(Committed(s), [se EXCEPT !.revision = @ + 1])
  <1> DEFINE t == Committed(s)
             o == se.open
             r == se.revision
             se1 == [se EXCEPT !.revision = @ + 1]
  <1>1. IsStore(s) /\ BlocksAre(s, A) /\ PlacesAre(s, A) /\ KeysAre(s, A)
        /\ s.revision = st.revision
    BY DEF Brings, Holds
  <1>2. /\ IsStore(t) /\ SameOrder(s, t) /\ t.blocks = s.blocks /\ t.pages = s.pages
        /\ t.revision = s.revision + 1
    BY <1>1, Committing
  <1>3. r = st.revision /\ se = [open |-> o, revision |-> r]
    BY DEF Cached
  <1>9. se1 = [se EXCEPT !.revision = @ + 1] /\ o
    OBVIOUS
  <1> HIDE DEF t, r, o, se1
  <1>4. se1 = [open |-> o, revision |-> r + 1]
    BY <1>3, <1>9
  <1>5. BlocksAre(t, A)
    BY <1>1, <1>2 DEF BlocksAre
  <1>6. PlacesAre(t, A)
    BY <1>1, <1>2 DEF PlacesAre, SameOrder
  <1>7. KeysAre(t, A)
    BY <1>1, <1>2 DEF KeysAre
  <1>8. Cached(t, se1)
    <2>1. se1.open = o /\ se1.revision = r + 1
      BY <1>4
    <2>2. se1 = [open |-> se1.open, revision |-> se1.revision]
      BY <1>4, <2>1
    <2> QED
      BY <1>1, <1>2, <1>3, <2>1, <2>2 DEF Cached
  <1> QED
    BY <1>2, <1>5, <1>6, <1>7, <1>8 DEF Holds, t, se1

\* The deques after a command: it has the next number and began with A; behind it are
\* the newest of those that could be undone.
Grown(h, h1, A, B, B1) ==
    /\ Numbers(h1.redo) = {} /\ h.next \in Nat /\ h.next \in Numbers(h1.undo)
    /\ B1[h.next] = A /\ Numbers(h1.undo) \subseteq Numbers(h.undo) \cup {h.next}
    /\ \A k \in Numbers(h.undo) : k \in Nat /\ k < h.next /\ B1[k] = B[k]
    /\ \A k \in Numbers(h1.undo), z \in Numbers(h.undo) : k <= z => z \in Numbers(h1.undo)

\* A recorded command leads to Pages from which its action leads back.
LEMMA RecordTells ==
    ASSUME NEW st, NEW h, NEW c, NEW n, NEW se, NEW A, NEW B, NEW F, NEW W,
           Tells(st, h, c, n, se, A, B, F, W), se.open,
           NEW t \in HistoryTracks, NEW what, NEW s, NEW A1, Brings(s, st, A1),
           Links(t, what, A, A1),
           NEW m \in n .. MaxIds, NEW d \in Nat, c <= d, Paged(A1, 1 .. m, 0 .. d)
    PROVE  \E B1, F1, W1 :
              /\ Tells(Committed(s), Recorded(h, t, 1, what), d, m,
                       [se EXCEPT !.revision = @ + 1], A1, B1, F1, W1)
              /\ Grown(h, Recorded(h, t, 1, what), A, B, B1)
  <1> DEFINE st1 == Committed(s)
             h1 == Recorded(h, t, 1, what)
             se1 == [se EXCEPT !.revision = @ + 1]
             P == On(h.undo)
             Q == On(h.redo)
             P1 == On(h1.undo)
             a == NewAction(h, 1, what)
             x == <<t, a>>
             W1 == W \cup {what}
  <1>1. /\ n \in 0 .. MaxIds /\ c \in Nat /\ Cached(st, se) /\ Paged(A, 1 .. n, 0 .. c)
        /\ StacksTyped(h, W) /\ Chronological(h)
        /\ Line(P, Q, A, B, F) /\ Backed(P, B, F, 1 .. n, 0 .. c)
    BY DEF Tells
  <1>2. Holds(st1, A1) /\ Cached(st1, se1)
    BY <1>1, CommitKeeps
  <1>3. StacksTyped(h, W1) /\ what \in W1 /\ t \in Tracks /\ 1 \in Nat
    BY <1>1, MoreActions, HistoryTracksAssumption
  <1>4. StacksTyped(h1, W1) /\ Chronological(h1)
    BY <1>1, <1>3, RecordedChronological
  <1>5. /\ On(h1.redo) = {} /\ x \in P1 /\ P1 \subseteq P \cup {x}
        /\ \A y \in P : y[2].sequence < x[2].sequence
        /\ \A y \in P1, z \in P : y[2].sequence <= z[2].sequence => z \in P1
    BY <1>1, <1>3, RecordedOn
  <1>6. a.sequence = h.next /\ a.what = what /\ h.next \in Nat /\ x[1] = t /\ x[2] = a
    BY <1>1 DEF NewAction, StacksTyped
  <1>7. Numbered(P)
    BY <1>1, OnNumbered DEF StacksTyped
  <1>8. 1 .. n \subseteq 1 .. m /\ 0 .. c \subseteq 0 .. d /\ TopLevel \notin 1 .. m
        /\ m \in 0 .. MaxIds
    BY <1>1, BoundsIs
  <1> HIDE DEF st1, h1, se1, P, Q, P1, a, x, W1
  <1> DEFINE k == No(x)
             B1 == [y \in Nat |-> IF y = k THEN A ELSE B[y]]
             F1 == [y \in Nat |-> IF y = k THEN A1 ELSE F[y]]
  <1>9. k \in Nat /\ \A y \in P : No(y) < k
    BY <1>5, <1>6 DEF No
  <1>10. /\ B1[k] = A /\ F1[k] = A1
         /\ \A y \in P : B1[No(y)] = B[No(y)] /\ F1[No(y)] = F[No(y)]
    BY <1>7, <1>9 DEF Numbered
  <1> HIDE DEF k, B1, F1
  <1>11. Line(P1, {}, A1, B1, F1)
    <2>1. No(x) \in Nat /\ (\A y \in P : No(y) < No(x))
          /\ B1[No(x)] = A /\ F1[No(x)] = A1
      BY <1>9, <1>10 DEF k
    <2>2. \A y \in P1, z \in P : No(y) <= No(z) => z \in P1
      BY <1>5 DEF No
    <2> QED
      BY <1>1, <1>5, <1>7, <1>10, <2>1, <2>2, RecordLine
  <1>12. Backed(P1, B1, F1, 1 .. m, 0 .. d)
    <2>1. ASSUME NEW y \in P1
          PROVE  /\ Paged(B1[No(y)], 1 .. m, 0 .. d) /\ Paged(F1[No(y)], 1 .. m, 0 .. d)
                 /\ Links(y[1], y[2].what, B1[No(y)], F1[No(y)])
      <3>1. CASE y = x
        <4>1. Paged(A, 1 .. m, 0 .. d)
          BY <1>1, <1>8, PagedMore
        <4>2. y[1] = t /\ y[2].what = what /\ B1[No(y)] = A /\ F1[No(y)] = A1
          BY <1>6, <1>10, <3>1 DEF k
        <4> QED
          BY <4>1, <4>2
      <3>2. CASE y # x
        <4>1. y \in P
          BY <1>5, <3>2
        <4>2. Backed(P, B, F, 1 .. m, 0 .. d)
          BY <1>1, <1>8, BackedMore
        <4> QED
          BY <1>10, <4>1, <4>2 DEF Backed
      <3> QED
        BY <3>1, <3>2
    <2> QED
      BY <2>1 DEF Backed
  <1>13. Tells(st1, h1, d, m, se1, A1, B1, F1, W1)
    <2>1. Backed({}, B1, F1, 1 .. m, 0 .. d)
      BY DEF Backed
    <2> QED
      BY <1>2, <1>4, <1>5, <1>8, <1>11, <1>12, <2>1 DEF Tells, P1
  <1>14. Grown(h, h1, A, B, B1)
    <2>1. \A y \in P : No(y) \in Nat /\ No(y) < h.next /\ B1[No(y)] = B[No(y)]
      BY <1>6, <1>7, <1>9, <1>10 DEF Numbered, k, No
    <2>2. k = h.next /\ No(x) = k
      BY <1>6 DEF k, No
    <2>3. Numbers(h1.undo) = {No(y) : y \in P1} /\ Numbers(h.undo) = {No(y) : y \in P}
      BY DEF Numbers, P1, P
    <2>4. Numbers(h1.redo) = {}
      BY <1>5 DEF Numbers
    <2>5. ASSUME NEW u \in P1, NEW y \in P, No(u) <= No(y)
          PROVE  y \in P1
      BY <1>5, <2>5 DEF No
    <2>6. h.next \in Numbers(h1.undo) /\ B1[h.next] = A
      BY <1>5, <1>10, <2>2, <2>3
    <2>7. Numbers(h1.undo) \subseteq Numbers(h.undo) \cup {h.next}
      BY <1>5, <2>2, <2>3
    <2>8. \A j \in Numbers(h.undo) : j \in Nat /\ j < h.next /\ B1[j] = B[j]
      BY <2>1, <2>3
    <2>9. \A j \in Numbers(h1.undo), z \in Numbers(h.undo) : j <= z => z \in Numbers(h1.undo)
      BY <2>3, <2>5
    <2> QED
      BY <1>6, <2>4, <2>6, <2>7, <2>8, <2>9 DEF Grown
  <1> QED
    BY <1>13, <1>14 DEF st1, h1, se1

\* A store that holds the Pages of A goes with the history h.
Foretold(h, c, n, A, B, F, W) ==
    \A st, se : Holds(st, A) /\ Cached(st, se) => Tells(st, h, c, n, se, A, B, F, W)

\* What undoing the newest action leads to, and what redoing the oldest.
Unwinds(st, h, t, c, n, A, B, F, W) ==
    \E what, k :
        /\ what = Last(h.undo[t]).what /\ k = Last(h.undo[t]).sequence /\ F[k] = A
        /\ CanApply(st, t, what, FALSE) /\ Brings(Apply(st, t, what, FALSE), st, B[k])
        /\ Foretold(Undone(h, t), c, n, B[k], B, F, W)
Rewinds(st, h, t, c, n, A, B, F, W) ==
    \E what, k :
        /\ what = Last(h.redo[t]).what /\ k = Last(h.redo[t]).sequence /\ B[k] = A
        /\ CanApply(st, t, what, TRUE) /\ Brings(Apply(st, t, what, TRUE), st, F[k])
        /\ Foretold(Redone(h, t), c, n, F[k], B, F, W)

\* Undoing leads back to where the action began.
LEMMA UndoTells ==
    ASSUME NEW st, NEW h, NEW c, NEW n, NEW se, NEW A, NEW B, NEW F, NEW W,
           Tells(st, h, c, n, se, A, B, F, W), NEW t \in HistoryTracks, NewestUndo(h, t)
    PROVE  Unwinds(st, h, t, c, n, A, B, F, W)
  <1> DEFINE x == <<t, Last(h.undo[t])>>
             what == Last(h.undo[t]).what
             m == Undone(h, t)
             P == On(h.undo)
             Q == On(h.redo)
             k == No(x)
             s == Apply(st, t, what, FALSE)
  <1>1. /\ n \in 0 .. MaxIds /\ c \in Nat /\ Cached(st, se) /\ Holds(st, A)
        /\ StacksTyped(h, W) /\ Chronological(h)
        /\ Line(P, Q, A, B, F)
        /\ Backed(P, B, F, 1 .. n, 0 .. c) /\ Backed(Q, B, F, 1 .. n, 0 .. c)
    BY DEF Tells
  <1>2. t \in Tracks
    BY HistoryTracksAssumption
  <1>3. /\ Moves(P, Q, x, On(m.undo), On(m.redo))
        /\ \A y \in P : y = x \/ y[2].sequence < x[2].sequence
        /\ \A y \in Q : x[2].sequence < y[2].sequence
    BY <1>1, <1>2, UndoneOn
  <1>4. StacksTyped(m, W) /\ Chronological(m)
    BY <1>1, <1>2, UndoneChronological
  <1>5. Numbered(P) /\ Numbered(Q)
    BY <1>1, OnNumbered DEF StacksTyped
  <1>6. x[1] = t /\ x[2].what = what
    OBVIOUS
  <1> HIDE DEF x, what, m, P, Q, k, s
  <1>7. F[k] = A /\ Line(On(m.undo), On(m.redo), B[k], B, F)
    <2>1. (\A y \in P : y = x \/ No(y) < No(x)) /\ (\A y \in Q : No(x) < No(y))
      BY <1>3 DEF No
    <2> QED
      BY <1>1, <1>3, <1>5, <2>1, UndoLine DEF k
  <1>8. x \in P /\ On(m.undo) \subseteq P /\ On(m.redo) \subseteq P \cup Q
    BY <1>3 DEF Moves
  <1>9. Paged(B[k], 1 .. n, 0 .. c) /\ Links(t, what, B[k], F[k])
    BY <1>1, <1>6, <1>8 DEF Backed, k
  <1>10. CanApply(st, t, what, FALSE) /\ Brings(s, st, B[k])
    BY <1>1, <1>7, <1>9 DEF Links, Carries, s
  <1>11. Backed(On(m.undo), B, F, 1 .. n, 0 .. c) /\ Backed(On(m.redo), B, F, 1 .. n, 0 .. c)
    BY <1>1, <1>8 DEF Backed
  <1>12. Foretold(m, c, n, B[k], B, F, W)
    BY <1>1, <1>4, <1>7, <1>9, <1>11 DEF Foretold, Tells
  <1>13. k = Last(h.undo[t]).sequence /\ what = Last(h.undo[t]).what
    BY DEF k, No, x, what
  <1> HIDE DEF k
  <1> QED
    BY <1>7, <1>10, <1>12, <1>13 DEF Unwinds, m, s

\* Redoing leads to where it ended.
LEMMA RedoTells ==
    ASSUME NEW st, NEW h, NEW c, NEW n, NEW se, NEW A, NEW B, NEW F, NEW W,
           Tells(st, h, c, n, se, A, B, F, W), NEW t \in HistoryTracks, OldestRedo(h, t)
    PROVE  Rewinds(st, h, t, c, n, A, B, F, W)
  <1> DEFINE x == <<t, Last(h.redo[t])>>
             what == Last(h.redo[t]).what
             m == Redone(h, t)
             P == On(h.undo)
             Q == On(h.redo)
             k == No(x)
             s == Apply(st, t, what, TRUE)
  <1>1. /\ n \in 0 .. MaxIds /\ c \in Nat /\ Cached(st, se) /\ Holds(st, A)
        /\ StacksTyped(h, W) /\ Chronological(h)
        /\ Line(P, Q, A, B, F)
        /\ Backed(P, B, F, 1 .. n, 0 .. c) /\ Backed(Q, B, F, 1 .. n, 0 .. c)
    BY DEF Tells
  <1>2. t \in Tracks
    BY HistoryTracksAssumption
  <1>3. /\ Moves(Q, P, x, On(m.redo), On(m.undo))
        /\ \A y \in Q : y = x \/ x[2].sequence < y[2].sequence
        /\ \A y \in P : y[2].sequence < x[2].sequence
    BY <1>1, <1>2, RedoneOn
  <1>4. StacksTyped(m, W) /\ Chronological(m)
    BY <1>1, <1>2, RedoneChronological
  <1>5. Numbered(P) /\ Numbered(Q)
    BY <1>1, OnNumbered DEF StacksTyped
  <1>6. x[1] = t /\ x[2].what = what
    OBVIOUS
  <1> HIDE DEF x, what, m, P, Q, k, s
  <1>7. B[k] = A /\ Line(On(m.undo), On(m.redo), F[k], B, F)
    <2>1. (\A y \in Q : y = x \/ No(x) < No(y)) /\ (\A y \in P : No(y) < No(x))
      BY <1>3 DEF No
    <2> QED
      BY <1>1, <1>3, <1>5, <2>1, RedoLine DEF k
  <1>8. x \in Q /\ On(m.redo) \subseteq Q /\ On(m.undo) \subseteq P \cup Q
    BY <1>3 DEF Moves
  <1>9. Paged(F[k], 1 .. n, 0 .. c) /\ Links(t, what, B[k], F[k])
    BY <1>1, <1>6, <1>8 DEF Backed, k
  <1>10. CanApply(st, t, what, TRUE) /\ Brings(s, st, F[k])
    BY <1>1, <1>7, <1>9 DEF Links, Carries, s
  <1>11. Backed(On(m.undo), B, F, 1 .. n, 0 .. c) /\ Backed(On(m.redo), B, F, 1 .. n, 0 .. c)
    BY <1>1, <1>8 DEF Backed
  <1>12. Foretold(m, c, n, F[k], B, F, W)
    BY <1>1, <1>4, <1>7, <1>9, <1>11 DEF Foretold, Tells
  <1>13. k = Last(h.redo[t]).sequence /\ what = Last(h.redo[t]).what
    BY DEF k, No, x, what
  <1> HIDE DEF k
  <1> QED
    BY <1>7, <1>10, <1>12, <1>13 DEF Rewinds, m, s

\* A finite set of natural numbers has a greatest one.
LEMMA GreatestOf ==
    ASSUME NEW S \in SUBSET Nat, IsFiniteSet(S), S # {}
    PROVE  Max(S) \in S /\ \A y \in S : y <= Max(S)
  <1> DEFINE I == {T \in SUBSET S : T = {} \/ \E x \in T : \A y \in T : y <= x}
  <1>1. ASSUME NEW T \in SUBSET S, \A x \in T : T \ {x} \in I
        PROVE  T \in I
    <2>1. CASE T = {}
      BY <2>1
    <2>2. CASE T # {}
      <3>1. PICK x \in T : TRUE
        BY <2>2
      <3>2. T \ {x} \in I
        BY <1>1, <3>1
      <3>3. CASE T \ {x} = {}
        <4>1. \A y \in T : y = x
          BY <3>3
        <4> QED
          BY <3>1, <4>1
      <3>4. CASE T \ {x} # {}
        <4>1. PICK z \in T \ {x} : \A y \in T \ {x} : y <= z
          BY <3>2, <3>4
        <4>2. x \in Nat /\ z \in Nat /\ z \in T
          BY <3>1, <4>1
        <4>3. CASE x <= z
          <5>1. \A y \in T : y <= z
            BY <4>1, <4>3
          <5> QED
            BY <4>2, <5>1
        <4>4. CASE ~(x <= z)
          <5>1. \A y \in T : y \in Nat /\ y <= x
            BY <4>1, <4>2, <4>4
          <5> QED
            BY <3>1, <5>1
        <4> QED
          BY <4>3, <4>4
      <3> QED
        BY <3>3, <3>4
    <2> QED
      BY <2>1, <2>2
  <1>2. S \in I
    <2> HIDE DEF I
    <2>1. \A T \in SUBSET S : (\A x \in T : T \ {x} \in I) => T \in I
      BY <1>1
    <2>2. SUBSET S \subseteq I
      BY <2>1, SubsetInduction
    <2> QED
      BY <2>2
  <1>3. \E x \in S : \A y \in S : x >= y
    BY <1>2
  <1>4. Max(S) \in S /\ \A y \in S : Max(S) >= y
    BY <1>3 DEF Max
  <1> QED
    BY <1>4

\* What is found on disk: no identifier is above the greatest, no time after the latest.
LEMMA FoundBounds ==
    ASSUME Init
    PROVE  /\ DOMAIN store.blocks \subseteq 1 .. issued /\ issued \in 0 .. MaxIds
           /\ clock \in Nat
           /\ \A b \in DOMAIN store.blocks : store.blocks[b].updated \in 0 .. clock
  <1> DEFINE A == PagesOn(store)
             K == DOMAIN store.blocks
             T == {store.blocks[b].updated : b \in K}
  <1>1. WellFormed(A) /\ BlocksAre(store, A)
    BY StoresAssumption DEF Init, Holds
  <1>2. issued = Max(K \cup {0}) /\ clock = Max(T \cup {0})
    BY DEF Init
  <1>3. K = DOMAIN A \cup EntriesOf(A)
    BY <1>1 DEF BlocksAre
  <1> HIDE DEF A
  <1>4. ASSUME NEW p \in DOMAIN A, NEW i \in DOMAIN A[p].entries
        PROVE  A[p].entries[i].id \in BlockIds /\ A[p].entries[i].updated \in Nat
    <2>1. A[p].entries \in Seq(Entries)
      BY <1>1 DEF WellFormed
    <2>2. A[p].entries[i] \in Entries
      BY <1>4, <2>1
    <2> QED
      BY <2>2 DEF Entries
  <1>5. K \subseteq BlockIds
    <2>1. \A b \in EntriesOf(A) : b \in BlockIds
      BY <1>4 DEF EntriesOf, Ids
    <2> QED
      BY <1>1, <1>3, <2>1 DEF WellFormed
  <1>6. \A b \in K : store.blocks[b].updated \in Nat
    <2> SUFFICES ASSUME NEW b \in K
                 PROVE  store.blocks[b].updated \in Nat
      OBVIOUS
    <2>1. CASE b \in DOMAIN A
      <3>1. store.blocks[b] = A[b].page /\ A[b].page \in PageBlocks
        BY <1>1, <2>1 DEF BlocksAre, WellFormed
      <3> QED
        BY <3>1 DEF PageBlocks
    <2>2. CASE b \in EntriesOf(A)
      <3>1. PICK p \in DOMAIN A : b \in Ids(A[p].entries)
        BY <2>2 DEF EntriesOf
      <3>2. PICK i \in DOMAIN A[p].entries : A[p].entries[i].id = b
        BY <3>1 DEF Ids
      <3>3. store.blocks[b] = EntryBlock(A[p].entries[i])
        BY <1>1, <3>1, <3>2 DEF BlocksAre
      <3> QED
        BY <1>4, <3>1, <3>2, <3>3 DEF EntryBlock
    <2> QED
      BY <1>3, <2>1, <2>2
  <1> HIDE DEF K
  <1>7. IsFiniteSet(K) /\ IsFiniteSet(T)
    <2>1. IsFiniteSet(BlockIds)
      BY MaxIdsAssumption, FS_Interval DEF BlockIds
    <2>2. IsFiniteSet(K)
      BY <1>5, <2>1, FS_Subset
    <2> DEFINE f == [b \in K |-> store.blocks[b].updated]
    <2>3. f \in Surjection(K, T)
      BY DEF Surjection
    <2> HIDE DEF f, T
    <2>5. IsFiniteSet(T)
      BY <2>2, <2>3, FS_Surjection
    <2> QED
      BY <2>2, <2>5
  <1>8. T \in SUBSET Nat
    BY <1>6
  <1> HIDE DEF T
  <1>9. IsFiniteSet(K \cup {0}) /\ IsFiniteSet(T \cup {0})
    BY <1>7, FS_AddElement
  <1>10. K \cup {0} \in SUBSET Nat /\ T \cup {0} \in SUBSET Nat
    BY <1>5, <1>8, MaxIdsAssumption DEF BlockIds
  <1>11. /\ issued \in K \cup {0} /\ \A y \in K \cup {0} : y <= issued
         /\ clock \in T \cup {0} /\ \A y \in T \cup {0} : y <= clock
    BY <1>2, <1>9, <1>10, GreatestOf
  <1>12. issued \in 0 .. MaxIds /\ clock \in Nat
    BY <1>5, <1>10, <1>11, MaxIdsAssumption DEF BlockIds
  <1>13. K \subseteq 1 .. issued
    BY <1>5, <1>11, <1>12 DEF BlockIds
  <1>14. \A b \in K : store.blocks[b].updated \in T
    BY DEF T
  <1>15. \A b \in K : store.blocks[b].updated \in 0 .. clock
    BY <1>6, <1>11, <1>12, <1>14
  <1> QED
    BY <1>12, <1>13, <1>15 DEF K

\* A Page found on disk.
LEMMA FoundPage ==
    ASSUME Init, NEW p \in DOMAIN PagesOn(store)
    PROVE  Outlined(PagesOn(store)[p], p, 1 .. issued, 0 .. clock)
  <1> DEFINE A == PagesOn(store)
             o == A[p]
             es == o.entries
             J == Entry(1 .. issued, Seq(STRING), 0 .. clock)
  <1>1. WellFormed(A) /\ BlocksAre(store, A)
    BY StoresAssumption DEF Init, Holds
  <1>2. /\ DOMAIN store.blocks \subseteq 1 .. issued /\ issued \in 0 .. MaxIds /\ clock \in Nat
        /\ \A b \in DOMAIN store.blocks : store.blocks[b].updated \in 0 .. clock
    BY FoundBounds
  <1> HIDE DEF A
  <1>3. /\ o = [id |-> p, page |-> o.page, entries |-> es] /\ o.page \in PageBlocks
        /\ es \in Seq(Entries) /\ InPreorder(es)
    BY <1>1 DEF WellFormed, A
  <1>4. DOMAIN store.blocks = DOMAIN A \cup EntriesOf(A) /\ store.blocks[p] = o.page
        /\ \A i \in DOMAIN es : store.blocks[es[i].id] = EntryBlock(es[i])
    BY <1>1 DEF BlocksAre, A
  <1>5. o.page.updated \in 0 .. clock
    BY <1>2, <1>4 DEF A
  <1>6. \A i \in DOMAIN es : es[i].id \in EntriesOf(A)
    BY DEF EntriesOf, Ids, A
  <1> HIDE DEF o, es
  <1>7. Len(es) \in Nat /\ DOMAIN es = 1 .. Len(es) /\ \A i \in 1 .. Len(es) : es[i] \in Entries
    BY <1>3
  <1>8. PICK D : Tree(es, D)
    BY <1>3, <1>7, PreorderIsTree
  <1>9. ASSUME NEW i \in 1 .. Len(es)
        PROVE  es[i] \in J
    <2>1. es[i].id \in 1 .. issued
      BY <1>2, <1>4, <1>6, <1>7
    <2>2. EntryBlock(es[i]).updated \in 0 .. clock
      BY <1>2, <1>4, <1>6, <1>7
    <2>3. es[i].updated \in 0 .. clock
      BY <2>2 DEF EntryBlock
    <2>4. es[i].parent \in (1 .. issued) \cup {TopLevel}
      <3>1. D[i] \in 0 .. (i - 1) /\ es[i].parent = IF D[i] = 0 THEN TopLevel ELSE es[D[i]].id
        BY <1>7, <1>8, ParentIs
      <3>2. CASE D[i] = 0
        BY <3>1, <3>2
      <3>3. CASE D[i] # 0
        <4>1. D[i] \in 1 .. Len(es)
          BY <1>7, <3>1, <3>3
        <4>2. es[D[i]].id \in 1 .. issued
          BY <1>2, <1>4, <1>6, <1>7, <4>1
        <4> QED
          BY <3>1, <3>3, <4>2
      <3> QED
        BY <3>2, <3>3
    <2>5. es[i] \in Entries
      BY <1>7
    <2> QED
      BY <2>1, <2>3, <2>4, <2>5 DEF Entries, Entry
  <1>10. es \in Seq(J)
    <2>1. es \in [1 .. Len(es) -> J]
      <3>1. es \in [1 .. Len(es) -> Entries]
        BY <1>3
      <3> QED
        BY <1>9, <3>1
    <2> QED
      BY <1>7, <2>1
  <1>11. TopLevel \notin 1 .. issued
    BY <1>2 DEF TopLevel
  <1>12. Page(1 .. issued, Seq(STRING), 0 .. clock, es)
    BY <1>8, <1>10, <1>11 DEF Page
  <1>13. Outlined(o, p, 1 .. issued, 0 .. clock)
    BY <1>3, <1>5, <1>12 DEF Outlined, es
  <1> QED
    BY <1>13 DEF o, A

\* The state the session keeps coherent.
Inv == Coherent(store, history, clock, issued, session)

\* A Notebook that has just been opened.
LEMMA InitCoherent ==
    ASSUME Init
    PROVE  Inv
  <1> DEFINE A == PagesOn(store)
  <1>1. WellFormed(A) /\ Holds(store, A)
    BY StoresAssumption DEF Init
  <1>2. issued \in 0 .. MaxIds /\ clock \in Nat /\ DOMAIN store.blocks \subseteq 1 .. issued
    BY FoundBounds
  <1>3. \A p \in DOMAIN A : Outlined(A[p], p, 1 .. issued, 0 .. clock)
    BY FoundPage
  <1>4. A = [p \in DOMAIN A |-> A[p]]
    BY DEF PagesOn
  <1>5. history = EmptyHistory /\ session = [open |-> TRUE, revision |-> store.revision]
    BY DEF Init
  <1> HIDE DEF A
  <1>6. Paged(A, 1 .. issued, 0 .. clock)
    <2>1. DOMAIN A \subseteq 1 .. issued
      BY <1>1, <1>2 DEF Holds, BlocksAre
    <2>2. \A p, q \in DOMAIN A : p # q => Separate(A[p], A[q])
      BY <1>1 DEF WellFormed, Separate
    <2> QED
      BY <1>1, <1>3, <1>4, <2>1, <2>2 DEF Paged, WellFormed
  <1>7. Cached(store, session)
    BY <1>5 DEF Cached
  <1>8. StacksTyped(EmptyHistory, {}) /\ Chronological(EmptyHistory)
    BY EmptyChronological
  <1>9. On(history.undo) = {} /\ On(history.redo) = {}
    BY <1>5, OnNone DEF EmptyHistory
  <1>10. Line({}, {}, A, <<>>, <<>>)
    BY EmptyLine
  <1>11. Backed({}, <<>>, <<>>, 1 .. issued, 0 .. clock)
    BY DEF Backed
  <1>12. Tells(store, history, clock, issued, session, A, <<>>, <<>>, {})
    BY <1>1, <1>2, <1>5, <1>6, <1>7, <1>8, <1>9, <1>10, <1>11 DEF Tells
  <1> QED
    BY <1>12 DEF Inv, Coherent

\* What a coherent state promises.
LEMMA CoherentPromises ==
    ASSUME Inv
    PROVE  TypeOK /\ PageRootedContainment /\ PageIndexesAgree /\ HistoryNeverStuck
  <1>1. PICK A, B, F, W : Tells(store, history, clock, issued, session, A, B, F, W)
    BY DEF Inv, Coherent
  <1>2. /\ issued \in 0 .. MaxIds /\ clock \in Nat /\ Cached(store, session)
        /\ Paged(A, 1 .. issued, 0 .. clock) /\ Holds(store, A) /\ StacksTyped(history, W)
    BY <1>1 DEF Tells
  <1>3. PageRooted(store) /\ PagesIndexed(store)
    BY <1>2, WorldIs, HeldIsRooted DEF World
  <1>4. HistoryNeverStuck
    <2>1. ASSUME NEW t \in HistoryTracks, NewestUndo(history, t)
          PROVE  CanApply(store, t, Last(history.undo[t]).what, FALSE)
      <3>1. Unwinds(store, history, t, clock, issued, A, B, F, W)
        BY <1>1, <2>1, UndoTells
      <3> QED
        BY <3>1 DEF Unwinds
    <2>2. ASSUME NEW t \in HistoryTracks, OldestRedo(history, t)
          PROVE  CanApply(store, t, Last(history.redo[t]).what, TRUE)
      <3>1. Rewinds(store, history, t, clock, issued, A, B, F, W)
        BY <1>1, <2>2, RedoTells
      <3> QED
        BY <3>1 DEF Rewinds
    <2> QED
      BY <2>1, <2>2 DEF HistoryNeverStuck
  <1>5. ASSUME NEW b \in DOMAIN store.blocks
        PROVE  b <= issued /\ store.blocks[b].updated <= clock
    <2>1. BlocksAre(store, A)
      BY <1>2 DEF Holds
    <2>2. DOMAIN store.blocks = DOMAIN A \cup EntriesOf(A)
      BY <2>1 DEF BlocksAre
    <2>3. \A p \in DOMAIN A : p \in 1 .. issued /\ Outlined(A[p], p, 1 .. issued, 0 .. clock)
      BY <1>2, PagedIs
    <2>4. CASE b \in DOMAIN A
      <3>1. store.blocks[b] = A[b].page
        BY <2>1, <2>4 DEF BlocksAre
      <3>2. A[b].page.updated \in 0 .. clock /\ b \in 1 .. issued
        BY <2>3, <2>4 DEF Outlined
      <3> QED
        BY <1>2, <3>1, <3>2
    <2>5. CASE b \in EntriesOf(A)
      <3>1. PICK p \in DOMAIN A : b \in Ids(A[p].entries)
        BY <2>5 DEF EntriesOf
      <3>2. PICK i \in DOMAIN A[p].entries : A[p].entries[i].id = b
        BY <3>1 DEF Ids
      <3>3. store.blocks[b] = EntryBlock(A[p].entries[i])
        BY <2>1, <3>1, <3>2 DEF BlocksAre
      <3>4. A[p].entries[i] \in Entry(1 .. issued, Seq(STRING), 0 .. clock)
        BY <2>3, <3>1, <3>2, OutlinedIs
      <3>5. A[p].entries[i].id \in 1 .. issued /\ A[p].entries[i].updated \in 0 .. clock
        BY <3>4 DEF Entry
      <3> QED
        BY <1>2, <3>2, <3>3, <3>5 DEF EntryBlock
    <2> QED
      BY <2>2, <2>4, <2>5
  <1>6. session.open => session.revision = store.revision
    BY <1>2 DEF Cached
  <1>7. HistoryRecord(history)
    BY <1>2 DEF StacksTyped
  <1> QED
    BY <1>3, <1>4, <1>5, <1>6, <1>7 DEF TypeOK, PageRootedContainment, PageIndexesAgree

\* What a command leaves of a Page: a Block whose children change gets the time of the
\* command, and of the others that stay in their place none but e gets another time.
PageKept(o, r, now, e) ==
    LET es == o.entries
        rs == r.entries
    IN  /\ ~Keeps(es, rs, TopLevel) => r.page.updated = now
        /\ Keeps(es, rs, TopLevel) /\ PageKey(r.page) = PageKey(o.page) /\ o.id # e =>
               r.page.updated = o.page.updated
        /\ \A i \in 1 .. Len(es), k \in 1 .. Len(rs) : es[i].id = rs[k].id =>
              /\ ~Keeps(es, rs, es[i].id) => rs[k].updated = now
              /\ Keeps(es, rs, es[i].id) /\ es[i].parent = rs[k].parent /\ es[i].id # e =>
                     rs[k].updated = es[i].updated

\* What it leaves of all of them: what goes to another Page arrives whole.
Remade(A, A1, now) ==
    /\ DOMAIN A \cap EntriesOf(A1) = {} /\ DOMAIN A1 \cap EntriesOf(A) = {}
    /\ \E e : \A p \in DOMAIN A \cap DOMAIN A1 : PageKept(A[p], A1[p], now, e)
    /\ \A p \in DOMAIN A, q \in DOMAIN A1 : p # q => Whole(A[p].entries, A1[q].entries, now)

\* A Page nothing happens to.
LEMMA PageKeptSame ==
    ASSUME NEW o, Named(o.entries), NEW now, NEW e
    PROVE  PageKept(o, o, now, e)
  <1> DEFINE es == o.entries
  <1>1. \A i, k \in 1 .. Len(es) : es[i].id = es[k].id => i = k
    BY DEF Named
  <1> HIDE DEF es
  <1>2. \A x : Keeps(es, es, x)
    BY <1>1 DEF Keeps, ChildAt
  <1>3. \A i, k \in 1 .. Len(es) : es[i].id = es[k].id => es[k].updated = es[i].updated
    BY <1>1
  <1> QED
    BY <1>2, <1>3 DEF PageKept, es

\* Entries of other Pages have nothing in common.
LEMMA WholeApart ==
    ASSUME NEW es, NEW rs, NEW now, Ids(es) \cap Ids(rs) = {},
           DOMAIN es = 1 .. Len(es), DOMAIN rs = 1 .. Len(rs)
    PROVE  Whole(es, rs, now)
  BY DEF Whole, Ids

\* A command that changes one Page, brings it or takes it away.
LEMMA OnePageRemade ==
    ASSUME NEW A, NEW I, NEW U, Paged(A, I, U), NEW A1, NEW J, NEW V, Paged(A1, J, V), NEW p,
           DOMAIN A \ {p} = DOMAIN A1 \ {p}, \A q \in DOMAIN A \ {p} : A1[q] = A[q],
           p \notin EntriesOf(A), p \notin EntriesOf(A1), NEW now, NEW e,
           p \in DOMAIN A \cap DOMAIN A1 => PageKept(A[p], A1[p], now, e)
    PROVE  Remade(A, A1, now)
  <1>1. /\ \A q \in DOMAIN A : DOMAIN A[q].entries = 1 .. Len(A[q].entries) /\ Named(A[q].entries)
        /\ \A q \in DOMAIN A1 : DOMAIN A1[q].entries = 1 .. Len(A1[q].entries)
    <2>1. ASSUME NEW q \in DOMAIN A
          PROVE  DOMAIN A[q].entries = 1 .. Len(A[q].entries) /\ Named(A[q].entries)
      <3>1. Outlined(A[q], q, I, U)
        BY PagedIs
      <3> QED
        BY <3>1, OutlinedIs
    <2>2. ASSUME NEW q \in DOMAIN A1
          PROVE  DOMAIN A1[q].entries = 1 .. Len(A1[q].entries)
      <3>1. Outlined(A1[q], q, J, V)
        BY PagedIs
      <3> QED
        BY <3>1, OutlinedIs
    <2> QED
      BY <2>1, <2>2
  <1>2. /\ DOMAIN A \cap EntriesOf(A) = {} /\ DOMAIN A1 \cap EntriesOf(A1) = {}
        /\ \A q, r \in DOMAIN A : q # r => Ids(A[q].entries) \cap Ids(A[r].entries) = {}
        /\ \A q, r \in DOMAIN A1 : q # r => Ids(A1[q].entries) \cap Ids(A1[r].entries) = {}
    BY DEF Paged, Separate
  <1>3. DOMAIN A \cap EntriesOf(A1) = {} /\ DOMAIN A1 \cap EntriesOf(A) = {}
    BY <1>2
  <1>4. ASSUME NEW q \in DOMAIN A \cap DOMAIN A1
        PROVE  PageKept(A[q], A1[q], now, e)
    <2>1. CASE q # p
      <3>1. A1[q] = A[q] /\ Named(A[q].entries)
        BY <1>1, <2>1
      <3> QED
        BY <3>1, PageKeptSame
    <2> QED
      BY <2>1
  <1>5. ASSUME NEW q \in DOMAIN A, NEW r \in DOMAIN A1, q # r
        PROVE  Whole(A[q].entries, A1[r].entries, now)
    <2>1. Ids(A[q].entries) \cap Ids(A1[r].entries) = {}
      <3>1. CASE r # p
        BY <1>2, <1>5, <3>1
      <3>2. CASE r = p
        BY <1>2, <1>5, <3>2
      <3> QED
        BY <3>1, <3>2
    <2> QED
      BY <1>1, <2>1, WholeApart
  <1> QED
    BY <1>3, <1>4, <1>5 DEF Remade

\* A Page whose entries stay where they are.
LEMMA InPlacesKept ==
    ASSUME NEW o, NEW r, InPlaces(o.entries, r.entries), Named(o.entries), NEW e,
           Timed(o.entries, r.entries, e), o.id # e => r.page.updated = o.page.updated, NEW now
    PROVE  PageKept(o, r, now, e)
  <1> DEFINE es == o.entries
             rs == r.entries
  <1>1. /\ Len(rs) = Len(es) /\ \A i \in 1 .. Len(es) : rs[i].id = es[i].id /\ rs[i].parent = es[i].parent
        /\ \A i \in 1 .. Len(es) : es[i].id # e => rs[i].updated = es[i].updated
        /\ \A i, k \in 1 .. Len(es) : es[i].id = es[k].id => i = k
    BY DEF InPlaces, Timed, Named
  <1>2. \A x : Keeps(es, rs, x)
    <2>1. \A x : Keeps(es, es, x)
      BY <1>1 DEF Keeps, ChildAt
    <2> QED
      BY <2>1, InPlacesKeep
  <1> HIDE DEF es, rs
  <1>3. ASSUME NEW i \in 1 .. Len(es), NEW k \in 1 .. Len(rs), es[i].id = rs[k].id, es[i].id # e
        PROVE  rs[k].updated = es[i].updated
    BY <1>1, <1>3
  <1> QED
    BY <1>2, <1>3 DEF PageKept, es, rs

\* A command that leaves every entry of every Page where it is.
LEMMA InPlacesRemade ==
    ASSUME NEW A, NEW I, NEW U, Paged(A, I, U), NEW B, DOMAIN B = DOMAIN A, NEW e, NEW now,
           \A q \in DOMAIN A : /\ InPlaces(A[q].entries, B[q].entries)
                               /\ Timed(A[q].entries, B[q].entries, e)
                               /\ DOMAIN B[q].entries = 1 .. Len(B[q].entries)
                               /\ q # e => B[q].page = A[q].page
    PROVE  Remade(A, B, now)
  <1>1. ASSUME NEW q \in DOMAIN A
        PROVE  /\ A[q].id = q /\ DOMAIN A[q].entries = 1 .. Len(A[q].entries) /\ Named(A[q].entries)
               /\ Ids(B[q].entries) = Ids(A[q].entries)
    <2>1. Outlined(A[q], q, I, U)
      BY PagedIs
    <2>2. A[q].id = q /\ DOMAIN A[q].entries = 1 .. Len(A[q].entries) /\ Named(A[q].entries)
      BY <2>1, OutlinedIs
    <2> QED
      BY <2>2, InPlacesIds
  <1>2. EntriesOf(B) = EntriesOf(A)
    BY <1>1 DEF EntriesOf
  <1>3. DOMAIN A \cap EntriesOf(A) = {}
    BY DEF Paged
  <1>4. ASSUME NEW q \in DOMAIN A
        PROVE  PageKept(A[q], B[q], now, e)
    BY <1>1, InPlacesKept
  <1>5. ASSUME NEW q \in DOMAIN A, NEW r \in DOMAIN A, q # r
        PROVE  Whole(A[q].entries, B[r].entries, now)
    <2>1. Ids(A[q].entries) \cap Ids(A[r].entries) = {}
      BY <1>5 DEF Paged, Separate
    <2> QED
      BY <1>1, <2>1, WholeApart
  <1> QED
    BY <1>2, <1>3, <1>4, <1>5 DEF Remade

\* The store holds the Pages of A.
Held(A) ==
    /\ issued \in 0 .. MaxIds /\ clock \in Nat
    /\ Paged(A, 1 .. issued, 0 .. clock) /\ Holds(store, A)

\* A transaction commits that leads to other Pages; what it did is recorded and leads back.
Recording(A) ==
    \E s, what, A1 : \E t \in HistoryTracks :
        /\ CommitAndRecord(s, t, what)
        /\ Brings(s, store, A1) /\ Links(t, what, A, A1)
        /\ issued' \in issued .. MaxIds /\ clock' \in Nat /\ clock <= clock'
        /\ Paged(A1, 1 .. issued', 0 .. clock') /\ Remade(A, A1, clock')

\* One commits that changes no Page, and nothing is recorded.
Repeating(A) ==
    \E s : /\ Commit(s) /\ UNCHANGED history /\ Brings(s, store, A)
           /\ issued' = issued /\ clock' \in Nat /\ clock <= clock'

\* What the deques tell, of the state as it is.
Told(A, B, F, W) == Tells(store, history, clock, issued, session, A, B, F, W)

\* A command that is recorded begins with the Pages it finds.
LEMMA RecordingTells ==
    ASSUME NEW A, NEW B, NEW F, NEW W, Told(A, B, F, W), Recording(A)
    PROVE  \E A1, B1, F1, W1 : Told(A1, B1, F1, W1)' /\ Grown(history, history', A, B, B1)
  <1>1. PICK s, what, A1 : \E t \in HistoryTracks :
            /\ CommitAndRecord(s, t, what)
            /\ Brings(s, store, A1) /\ Links(t, what, A, A1)
            /\ issued' \in issued .. MaxIds /\ clock' \in Nat /\ clock <= clock'
            /\ Paged(A1, 1 .. issued', 0 .. clock')
    BY DEF Recording
  <1>2. PICK t \in HistoryTracks :
            /\ CommitAndRecord(s, t, what)
            /\ Brings(s, store, A1) /\ Links(t, what, A, A1)
            /\ issued' \in issued .. MaxIds /\ clock' \in Nat /\ clock <= clock'
            /\ Paged(A1, 1 .. issued', 0 .. clock')
    BY <1>1
  <1>3. /\ session.open /\ store' = Committed(s)
        /\ session' = [session EXCEPT !.revision = @ + 1]
        /\ history' = Recorded(history, t, 1, what)
    BY <1>2 DEF CommitAndRecord, Commit
  <1>4. Tells(store, history, clock, issued, session, A, B, F, W)
    BY DEF Told
  <1>5. PICK B1, F1, W1 :
              /\ Tells(Committed(s), Recorded(history, t, 1, what), clock', issued',
                       [session EXCEPT !.revision = @ + 1], A1, B1, F1, W1)
              /\ Grown(history, Recorded(history, t, 1, what), A, B, B1)
    BY <1>2, <1>3, <1>4, RecordTells
  <1>6. Tells(store', history', clock', issued', session', A1, B1, F1, W1)
        /\ Grown(history, history', A, B, B1)
    BY <1>3, <1>5
  <1> QED
    BY <1>6 DEF Told

\* One that is not recorded leaves the Pages and the deques as they are.
LEMMA RepeatingTells ==
    ASSUME NEW A, NEW B, NEW F, NEW W, Told(A, B, F, W), Repeating(A)
    PROVE  Told(A, B, F, W)' /\ history' = history
  <1>1. PICK s : /\ Commit(s) /\ UNCHANGED history /\ Brings(s, store, A)
                 /\ issued' = issued /\ clock' \in Nat /\ clock <= clock'
    BY DEF Repeating
  <1>2. session.open /\ store' = Committed(s)
        /\ session' = [session EXCEPT !.revision = @ + 1]
    BY <1>1 DEF Commit
  <1>3. /\ issued \in 0 .. MaxIds /\ clock \in Nat /\ Cached(store, session)
        /\ Paged(A, 1 .. issued, 0 .. clock)
        /\ StacksTyped(history, W) /\ Chronological(history)
        /\ Line(On(history.undo), On(history.redo), A, B, F)
        /\ Backed(On(history.undo), B, F, 1 .. issued, 0 .. clock)
        /\ Backed(On(history.redo), B, F, 1 .. issued, 0 .. clock)
    BY DEF Told, Tells
  <1>4. Holds(Committed(s), A) /\ Cached(Committed(s), [session EXCEPT !.revision = @ + 1])
    BY <1>1, <1>2, <1>3, CommitKeeps
  <1>5. Holds(store', A) /\ Cached(store', session')
    BY <1>2, <1>4
  <1>6. 0 .. clock \subseteq 0 .. clock' /\ TopLevel \notin 1 .. issued
        /\ 1 .. issued \subseteq 1 .. issued
    BY <1>1, <1>3, BoundsIs
  <1>7. Paged(A, 1 .. issued, 0 .. clock')
    BY <1>3, <1>6, PagedMore
  <1>8. /\ Backed(On(history.undo), B, F, 1 .. issued, 0 .. clock')
        /\ Backed(On(history.redo), B, F, 1 .. issued, 0 .. clock')
    BY <1>3, <1>6, BackedMore
  <1>9. Tells(store', history', clock', issued', session', A, B, F, W)
    BY <1>1, <1>3, <1>5, <1>7, <1>8 DEF Tells
  <1> QED
    BY <1>1, <1>9 DEF Told

\* What a command does keeps the state coherent.
LEMMA CommandCoherent ==
    ASSUME Inv, \A A : Held(A) => Recording(A) \/ Repeating(A)
    PROVE  Inv'
  <1>1. PICK A, B, F, W : Told(A, B, F, W)
    BY DEF Inv, Coherent, Told
  <1>2. Held(A)
    BY <1>1 DEF Told, Tells, Held
  <1>3. Recording(A) \/ Repeating(A)
    BY <1>2
  <1>4. \E A1, B1, F1, W1 : Told(A1, B1, F1, W1)'
    BY <1>1, <1>3, RecordingTells, RepeatingTells
  <1> QED
    BY <1>4 DEF Inv, Coherent, Told

\* Undo takes back the newest action, and leads to where it began.
LEMMA UndoStepTells ==
    ASSUME NEW A, NEW B, NEW F, NEW W, Told(A, B, F, W), NEW t \in HistoryTracks, UndoEdit(t)
    PROVE  \E k : /\ k = Last(history.undo[t]).sequence
                  /\ NewestUndo(history, t) /\ history' = Undone(history, t)
                  /\ F[k] = A /\ Told(B[k], B, F, W)'
  <1> DEFINE s == Apply(store, t, Last(history.undo[t]).what, FALSE)
  <1>1. /\ NewestUndo(history, t) /\ session.open /\ store' = Committed(s)
        /\ session' = [session EXCEPT !.revision = @ + 1]
        /\ history' = Undone(history, t) /\ clock' = clock /\ issued' = issued
    BY DEF UndoEdit, Commit
  <1>2. Tells(store, history, clock, issued, session, A, B, F, W)
    BY DEF Told
  <1>9. Unwinds(store, history, t, clock, issued, A, B, F, W)
    BY <1>1, <1>2, UndoTells
  <1>3. PICK k : /\ k = Last(history.undo[t]).sequence /\ F[k] = A
                 /\ Brings(s, store, B[k])
                 /\ Foretold(Undone(history, t), clock, issued, B[k], B, F, W)
    BY <1>9 DEF Unwinds
  <1> HIDE DEF s
  <1>4. Holds(Committed(s), B[k]) /\ Cached(Committed(s), [session EXCEPT !.revision = @ + 1])
    BY <1>1, <1>2, <1>3, CommitKeeps DEF Tells
  <1>5. Tells(store', history', clock', issued', session', B[k], B, F, W)
    BY <1>1, <1>3, <1>4 DEF Foretold
  <1>6. Told(B[k], B, F, W)'
    BY <1>5 DEF Told
  <1> QED
    BY <1>1, <1>3, <1>6

\* Redo takes the oldest action again, and leads to where it ended.
LEMMA RedoStepTells ==
    ASSUME NEW A, NEW B, NEW F, NEW W, Told(A, B, F, W), NEW t \in HistoryTracks, RedoEdit(t)
    PROVE  \E k : /\ k = Last(history.redo[t]).sequence
                  /\ OldestRedo(history, t) /\ history' = Redone(history, t)
                  /\ B[k] = A /\ Told(F[k], B, F, W)'
  <1> DEFINE s == Apply(store, t, Last(history.redo[t]).what, TRUE)
  <1>1. /\ OldestRedo(history, t) /\ session.open /\ store' = Committed(s)
        /\ session' = [session EXCEPT !.revision = @ + 1]
        /\ history' = Redone(history, t) /\ clock' = clock /\ issued' = issued
    BY DEF RedoEdit, Commit
  <1>2. Tells(store, history, clock, issued, session, A, B, F, W)
    BY DEF Told
  <1>9. Rewinds(store, history, t, clock, issued, A, B, F, W)
    BY <1>1, <1>2, RedoTells
  <1>3. PICK k : /\ k = Last(history.redo[t]).sequence /\ B[k] = A
                 /\ Brings(s, store, F[k])
                 /\ Foretold(Redone(history, t), clock, issued, F[k], B, F, W)
    BY <1>9 DEF Rewinds
  <1> HIDE DEF s
  <1>4. Holds(Committed(s), F[k]) /\ Cached(Committed(s), [session EXCEPT !.revision = @ + 1])
    BY <1>1, <1>2, <1>3, CommitKeeps DEF Tells
  <1>5. Tells(store', history', clock', issued', session', F[k], B, F, W)
    BY <1>1, <1>3, <1>4 DEF Foretold
  <1>6. Told(F[k], B, F, W)'
    BY <1>5 DEF Told
  <1> QED
    BY <1>1, <1>3, <1>6

\* Undo and redo keep the state coherent.
LEMMA HistoryCoherent ==
    ASSUME Inv, NEW t \in HistoryTracks, UndoEdit(t) \/ RedoEdit(t)
    PROVE  Inv'
  <1>1. PICK A, B, F, W : Told(A, B, F, W)
    BY DEF Inv, Coherent, Told
  <1>2. \E A1 : Told(A1, B, F, W)'
    BY <1>1, UndoStepTells, RedoStepTells
  <1> QED
    BY <1>2 DEF Inv, Coherent, Told

\* Opening reads the revision again ...
LEMMA OpenTells ==
    ASSUME NEW A, NEW B, NEW F, NEW W, Told(A, B, F, W), Open
    PROVE  Told(A, B, F, W)' /\ history' = history
  <1>1. /\ session' = [open |-> TRUE, revision |-> store.revision]
        /\ store' = store /\ history' = history /\ clock' = clock /\ issued' = issued
    BY DEF Open
  <1>2. Cached(store', session')
    BY <1>1 DEF Cached
  <1>3. Tells(store, history, clock, issued, session, A, B, F, W)
    BY DEF Told
  <1>4. Tells(store', history', clock', issued', session', A, B, F, W)
    BY <1>1, <1>2, <1>3 DEF Tells
  <1> QED
    BY <1>1, <1>4 DEF Told

\* ... and closing forgets what could be undone.
LEMMA CloseTells ==
    ASSUME NEW A, NEW B, NEW F, NEW W, Told(A, B, F, W), Close
    PROVE  Told(A, B, F, W)'
  <1>1. /\ session' = [open |-> FALSE, revision |-> 0] /\ history' = EmptyHistory
        /\ store' = store /\ clock' = clock /\ issued' = issued
    BY DEF Close
  <1>2. Cached(store', session')
    BY <1>1 DEF Cached
  <1>3. StacksTyped(EmptyHistory, W) /\ Chronological(EmptyHistory)
    BY EmptyChronological
  <1>4. On(EmptyHistory.undo) = {} /\ On(EmptyHistory.redo) = {}
    BY OnNone DEF EmptyHistory
  <1>5. Line({}, {}, A, B, F) /\ Backed({}, B, F, 1 .. issued, 0 .. clock)
    BY EmptyLine DEF Backed
  <1>6. Tells(store, history, clock, issued, session, A, B, F, W)
    BY DEF Told
  <1>7. Tells(store', history', clock', issued', session', A, B, F, W)
    BY <1>1, <1>2, <1>3, <1>4, <1>5, <1>6 DEF Tells
  <1> QED
    BY <1>7 DEF Told

\* Both keep the state coherent.
LEMMA OpenCloseCoherent ==
    ASSUME Inv, Open \/ Close
    PROVE  Inv'
  <1>1. PICK A, B, F, W : Told(A, B, F, W)
    BY DEF Inv, Coherent, Told
  <1>2. Told(A, B, F, W)'
    BY <1>1, OpenTells, CloseTells
  <1> QED
    BY <1>2 DEF Inv, Coherent, Told

\* An edit of one Named Page that rewrites no text elsewhere.
LEMMA NamedEdit ==
    ASSUME NEW R, IsMap(R), NEW p, p \notin DOMAIN R, p \notin EntriesOf(R),
           NEW before, before = Absent \/ before.id = p,
           NEW after, after = Absent \/ after.id = p,
           World(Side(R, before)), World(Side(R, after))
    PROVE  Links(<<"named", p>>, PageAction(before, after, NoTexts),
                 Side(R, before), Side(R, after))
  <1> DEFINE X == Side(R, before)
             Y == Side(R, after)
  <1>1. Drop(R, {p}) = R
    <2>1. DOMAIN R \ {p} = DOMAIN R
      OBVIOUS
    <2> QED
      BY <2>1 DEF Drop, IsMap
  <1>2. /\ Drop(X, {p}) = R /\ (p \in DOMAIN X \/ p \notin EntriesOf(X))
    <2>1. CASE before = Absent
      BY <1>1, <2>1 DEF Side
    <2>2. CASE before # Absent
      BY <2>2, DropPut DEF Side, Put
    <2> QED
      BY <2>1, <2>2
  <1>3. /\ Drop(Y, {p}) = R /\ (p \in DOMAIN Y \/ p \notin EntriesOf(Y))
    <2>1. CASE after = Absent
      BY <1>1, <2>1 DEF Side
    <2>2. CASE after # Absent
      BY <2>2, DropPut DEF Side, Put
    <2> QED
      BY <2>1, <2>2
  <1>4. World(X) /\ World(Y) /\ X = Side(R, before) /\ Y = Side(R, after)
    OBVIOUS
  <1>5. IsRetext(X, X, NoTexts, "before") /\ IsRetext(Y, Y, NoTexts, "after")
    BY <1>4, NoRetext DEF World
  <1>6. DOMAIN NoTexts = {}
    BY DEF NoTexts
  <1> HIDE DEF X, Y
  <1>7. Reached(Y, p, before, NoTexts, "before", X)
    BY <1>3, <1>4, <1>5, <1>6 DEF Reached
  <1>8. Reached(X, p, after, NoTexts, "after", Y)
    BY <1>2, <1>4, <1>5, <1>6 DEF Reached
  <1>9. Links(<<"named", p>>, PageAction(before, after, NoTexts), X, Y)
    BY <1>4, <1>7, <1>8, NamedLinks
  <1> QED
    BY <1>9 DEF X, Y

-----------------------------------------------------------------------------
\* The commands on the entries of one Page.

\* A Page's entries are entries of any larger supply of identifiers and times ...
LEMMA PageMore ==
    ASSUME NEW I, NEW T, NEW U, NEW es, Page(I, T, U, es), NEW J, I \subseteq J,
           TopLevel \notin J, NEW V, U \subseteq V
    PROVE  Page(J, T, V, es)
  <1>1. Entry(I, T, U) \subseteq Entry(J, T, V)
    BY DEF Entry
  <1>2. es \in Seq(Entry(I, T, U)) /\ \E D : Tree(es, D)
    BY DEF Page
  <1>3. es \in Seq(Entry(J, T, V))
    BY <1>1, <1>2
  <1> QED
    BY <1>2, <1>3 DEF Page

\* ... and of their own.
LEMMA PageFit ==
    ASSUME NEW I, NEW T, NEW U, NEW es, Page(I, T, U, es)
    PROVE  Page(Ids(es), T, U, es) /\ Ids(es) \subseteq I
  <1>1. /\ TopLevel \notin I /\ es \in Seq(Entry(I, T, U)) /\ Len(es) \in Nat
        /\ DOMAIN es = 1 .. Len(es)
        /\ \A i \in 1 .. Len(es) : es[i] \in Entry(I, T, U) /\ es[i].id \in I
    BY PageIs
  <1>2. PICK D : Tree(es, D)
    BY DEF Page
  <1>3. Ids(es) \subseteq I
    BY <1>1 DEF Ids
  <1>4. \A i \in 1 .. Len(es) : es[i].id \in Ids(es)
    BY <1>1 DEF Ids
  <1>5. ASSUME NEW i \in 1 .. Len(es)
        PROVE  es[i] \in Entry(Ids(es), T, U)
    <2>1. D[i] \in 0 .. (i - 1) /\ es[i].parent = IF D[i] = 0 THEN TopLevel ELSE es[D[i]].id
      BY <1>1, <1>2, ParentIs
    <2>2. es[i].parent \in Ids(es) \cup {TopLevel}
      <3>1. CASE D[i] = 0
        BY <2>1, <3>1
      <3>2. CASE D[i] # 0
        <4>1. D[i] \in 1 .. Len(es)
          BY <1>1, <2>1, <3>2
        <4> QED
          BY <1>4, <2>1, <3>2, <4>1
      <3> QED
        BY <3>1, <3>2
    <2>3. es[i] \in Entry(I, T, U)
      BY <1>1
    <2> QED
      BY <1>4, <2>2, <2>3 DEF Entry
  <1>6. es \in Seq(Entry(Ids(es), T, U))
    <2>1. es \in [1 .. Len(es) -> Entry(Ids(es), T, U)]
      <3>1. es \in [1 .. Len(es) -> Entry(I, T, U)]
        BY <1>1
      <3> QED
        BY <1>5, <3>1
    <2> QED
      BY <1>1, <2>1
  <1> QED
    BY <1>1, <1>2, <1>3, <1>6 DEF Page

\* Touching changes times only.
IsTouched(after, o, es, K, U) ==
    /\ after = [id |-> o.id, page |-> after.page, entries |-> after.entries]
    /\ after.page \in PageBlocks /\ after.page.updated \in U
    /\ PageKey(after.page) = PageKey(o.page)
    /\ Page(K, Seq(STRING), U, after.entries)
    /\ Len(after.entries) = Len(es)
    /\ \A i \in 1 .. Len(es) : /\ after.entries[i].id = es[i].id
                               /\ after.entries[i].parent = es[i].parent

\* The entries and the Page of a touched outline.
TouchedEntries(es, containers, now) ==
    [i \in DOMAIN es |-> IF es[i].id \in containers THEN [es[i] EXCEPT !.updated = now] ELSE es[i]]
TouchedPage(page, containers, now) ==
    IF TopLevel \in containers THEN [page EXCEPT !.updated = now] ELSE page

\* touchContainer stamps the Page or the entry an edit took place in.
LEMMA TouchParts ==
    ASSUME NEW p, NEW page, NEW es, NEW o, o = [id |-> p, page |-> page, entries |-> es],
           page = [kind |-> page.kind, key |-> page.key, updated |-> page.updated],
           NEW containers, NEW now
    PROVE  Touch(o, containers, now)
              = [id |-> p, page |-> TouchedPage(page, containers, now),
                 entries |-> TouchedEntries(es, containers, now)]
  <1> DEFINE k == page.kind
             y == page.key
             u == page.updated
             x == IF TopLevel \in containers THEN now ELSE u
  <1>1. page = [kind |-> k, key |-> y, updated |-> u]
    OBVIOUS
  <1>2. Touch(o, containers, now)
          = [id |-> p, page |-> [page EXCEPT !.updated = x],
             entries |-> TouchedEntries(es, containers, now)]
    <2> DEFINE e == TouchedEntries(es, containers, now)
    <2>1. Touch(o, containers, now)
            = [o EXCEPT !.page.updated = IF TopLevel \in containers THEN now ELSE o.page.updated,
                        !.entries = TouchedEntries(o.entries, containers, now)]
      BY DEF Touch, TouchedEntries
    <2>2. o.page = page /\ o.entries = es /\ o.page.updated = u
      OBVIOUS
    <2>3. x = IF TopLevel \in containers THEN now ELSE o.page.updated
      BY <2>2
    <2>4. Touch(o, containers, now) = [o EXCEPT !.page.updated = x, !.entries = e]
      BY <2>1, <2>2, <2>3
    <2> HIDE DEF x, e, u
    <2>5. [o EXCEPT !.page.updated = x, !.entries = e]
             = [id |-> p, page |-> [page EXCEPT !.updated = x], entries |-> e]
      <3> DEFINE q == [page EXCEPT !.updated = x]
      <3>1. [o EXCEPT !.page.updated = x, !.entries = e] = [o EXCEPT !.page = q, !.entries = e]
        BY <2>2
      <3> DEFINE z == [o EXCEPT !.page = q, !.entries = e]
      <3>2. z = [o EXCEPT !.page = q, !.entries = e]
        OBVIOUS
      <3> HIDE DEF q, z
      <3>3. z = [id |-> p, page |-> q, entries |-> e]
        BY <3>2
      <3> QED
        BY <3>1, <3>2, <3>3 DEF q
    <2> QED
      BY <2>4, <2>5 DEF e
  <1> HIDE DEF k, y, u
  <1>3. [page EXCEPT !.updated = x] = TouchedPage(page, containers, now)
    <2>1. CASE TopLevel \in containers
      BY <2>1 DEF TouchedPage
    <2>2. CASE TopLevel \notin containers
      <3>1. x = u
        BY <2>2
      <3>2. [page EXCEPT !.updated = u] = page
        BY <1>1
      <3> QED
        BY <2>2, <3>1, <3>2 DEF TouchedPage
    <2> QED
      BY <2>1, <2>2
  <1> QED
    BY <1>2, <1>3

\* It changes times only, and to the time of the command.
LEMMA TouchIs ==
    ASSUME NEW p, NEW page \in PageBlocks, NEW es, NEW o, o = [id |-> p, page |-> page, entries |-> es],
           NEW K, NEW U, U \subseteq Nat, Page(K, Seq(STRING), U, es), page.updated \in U,
           NEW containers, NEW now \in U
    PROVE  IsTouched(Touch(o, containers, now), o, es, K, U)
  <1> DEFINE after == Touch(o, containers, now)
             r == TouchedEntries(es, containers, now)
             q == TouchedPage(page, containers, now)
             J == Entry(K, Seq(STRING), U)
  <1>1. page = [kind |-> page.kind, key |-> page.key, updated |-> page.updated]
    BY DEF PageBlocks
  <1>2. after = [id |-> p, page |-> q, entries |-> r]
    BY <1>1, TouchParts
  <1>3. /\ TopLevel \notin K /\ es \in Seq(J) /\ Len(es) \in Nat /\ DOMAIN es = 1 .. Len(es)
        /\ \A i \in 1 .. Len(es) : es[i] \in J
    BY PageIs
  <1>4. PICK D : Tree(es, D)
    BY DEF Page
  <1>5. ASSUME NEW i \in 1 .. Len(es)
        PROVE  r[i] \in J /\ r[i].id = es[i].id /\ r[i].parent = es[i].parent
    <2>1. es[i] \in J
      BY <1>3
    <2>2. r[i] = IF es[i].id \in containers THEN [es[i] EXCEPT !.updated = now] ELSE es[i]
      BY <1>3 DEF TouchedEntries
    <2> HIDE DEF r
    <2> QED
      BY <2>1, <2>2 DEF Entry
  <1>6. DOMAIN r = 1 .. Len(es) /\ r = [i \in 1 .. Len(es) |-> r[i]]
    BY <1>3 DEF TouchedEntries
  <1>7. q \in PageBlocks /\ q.updated \in U /\ PageKey(q) = PageKey(page)
    <2>1. CASE TopLevel \in containers
      <3>1. q = [page EXCEPT !.updated = now]
        BY <2>1 DEF TouchedPage
      <3>2. now \in Nat
        OBVIOUS
      <3> QED
        BY <3>1, <3>2 DEF PageBlocks, PageKey
    <2>2. CASE TopLevel \notin containers
      BY <2>2 DEF TouchedPage
    <2> QED
      BY <2>1, <2>2
  <1> HIDE DEF r, q, J, after
  <1>8. r \in Seq(J) /\ Len(r) = Len(es)
    <2>1. r \in [1 .. Len(es) -> J]
      BY <1>5, <1>6
    <2> QED
      BY <1>3, <1>6, <2>1
  <1>9. Tree(r, D)
    BY <1>3, <1>4, <1>5, <1>8, SameTree
  <1>10. Page(K, Seq(STRING), U, r)
    BY <1>3, <1>8, <1>9 DEF Page, J
  <1>11. /\ after = [id |-> o.id, page |-> after.page, entries |-> after.entries]
         /\ after.page = q /\ after.entries = r /\ o.page = page
    BY <1>2
  <1> QED
    BY <1>5, <1>7, <1>8, <1>10, <1>11 DEF IsTouched, after

\* Touching leaves the entries in their places; those of the containers get another time.
LEMMA TouchedInPlaces ==
    ASSUME NEW I, NEW T, NEW U, NEW es, Page(I, T, U, es), NEW containers, NEW now,
           NEW rs, rs = TouchedEntries(es, containers, now)
    PROVE  /\ InPlaces(es, rs)
           /\ \A k \in 1 .. Len(es) :
                 /\ rs[k].text = es[k].text
                 /\ rs[k].updated = IF es[k].id \in containers THEN now ELSE es[k].updated
  <1> DEFINE E == Entry(I, T, U)
  <1>1. Len(es) \in Nat /\ DOMAIN es = 1 .. Len(es) /\ \A k \in 1 .. Len(es) : es[k] \in E
    BY PageIs
  <1>2. /\ DOMAIN rs = 1 .. Len(es) /\ rs = [k \in 1 .. Len(es) |-> rs[k]]
        /\ \A k \in 1 .. Len(es) :
              rs[k] = IF es[k].id \in containers THEN [es[k] EXCEPT !.updated = now] ELSE es[k]
    BY <1>1 DEF TouchedEntries
  <1>3. ASSUME NEW k \in 1 .. Len(es)
        PROVE  /\ rs[k].id = es[k].id /\ rs[k].parent = es[k].parent /\ rs[k].text = es[k].text
               /\ rs[k].updated = IF es[k].id \in containers THEN now ELSE es[k].updated
    <2>1. es[k] \in E
      BY <1>1
    <2>2. rs[k] = IF es[k].id \in containers THEN [es[k] EXCEPT !.updated = now] ELSE es[k]
      BY <1>2
    <2> QED
      BY <2>1, <2>2 DEF Entry
  <1>4. Len(rs) = Len(es)
    <2> DEFINE S == {rs[k] : k \in 1 .. Len(es)}
    <2>1. rs \in [1 .. Len(es) -> S]
      BY <1>2
    <2> HIDE DEF S
    <2>2. rs \in Seq(S)
      BY <1>1, <2>1, SeqDef
    <2> QED
      BY <1>1, <1>2, <2>2, LenProperties
  <1> QED
    BY <1>3, <1>4 DEF InPlaces

\* Touching the containers of an edit gives them, and no others, the time of the command.
LEMMA TouchedKept ==
    ASSUME NEW I, NEW T, NEW U, NEW o, Page(I, T, U, o.entries), NEW es, Page(I, T, U, es),
           o.page = [kind |-> o.page.kind, key |-> o.page.key, updated |-> o.page.updated],
           NEW s, s = [id |-> o.id, page |-> o.page, entries |-> es],
           NEW containers, NEW now, NEW e, Traced(o.entries, es, containers, e),
           NEW r, r = Touch(s, containers, now)
    PROVE  PageKept(o, r, now, e) /\ r.entries = TouchedEntries(es, containers, now)
  <1> DEFINE xs == o.entries
             rs == TouchedEntries(es, containers, now)
             page == o.page
  <1>1. r = [id |-> o.id, page |-> TouchedPage(page, containers, now), entries |-> rs]
    <2> DEFINE p == o.id
    <2>1. /\ s = [id |-> p, page |-> page, entries |-> es]
          /\ page = [kind |-> page.kind, key |-> page.key, updated |-> page.updated]
      OBVIOUS
    <2> HIDE DEF p, page
    <2> QED
      BY <2>1, TouchParts DEF p
  <1>2. DOMAIN es = 1 .. Len(es) /\ DOMAIN xs = 1 .. Len(xs)
    BY PageIs
  <1>3. r.entries = rs /\ r.page = TouchedPage(page, containers, now)
    BY <1>1
  <1>4. /\ InPlaces(es, rs)
        /\ \A k \in 1 .. Len(es) :
              rs[k].updated = IF es[k].id \in containers THEN now ELSE es[k].updated
    BY TouchedInPlaces
  <1> HIDE DEF xs, rs, page
  <1>5. \A x : Keeps(xs, rs, x) <=> Keeps(xs, es, x)
    BY <1>4, InPlacesKeep
  <1>6. /\ \A b \in {TopLevel} \cup (Ids(xs) \cap Ids(es)) : Keeps(xs, rs, b) <=> b \notin containers
        /\ \A i \in 1 .. Len(xs), k \in 1 .. Len(es) :
              xs[i].id = es[k].id /\ xs[i].id # e /\ xs[i].parent = es[k].parent =>
                  es[k].updated = xs[i].updated
    BY <1>5 DEF Traced, xs
  <1>7. /\ ~Keeps(xs, rs, TopLevel) => r.page.updated = now
        /\ Keeps(xs, rs, TopLevel) => r.page.updated = page.updated
    <2>1. CASE TopLevel \in containers
      <3>1. /\ r.page = [page EXCEPT !.updated = now]
            /\ page = [kind |-> page.kind, key |-> page.key, updated |-> page.updated]
        BY <1>3, <2>1 DEF TouchedPage, page
      <3>2. r.page.updated = now
        BY <3>1
      <3> QED
        BY <1>6, <2>1, <3>2
    <2>2. CASE TopLevel \notin containers
      <3>1. r.page = page
        BY <1>3, <2>2 DEF TouchedPage
      <3> QED
        BY <1>6, <2>2, <3>1
    <2> QED
      BY <2>1, <2>2
  <1>8. ASSUME NEW i \in 1 .. Len(xs), NEW k \in 1 .. Len(rs), xs[i].id = rs[k].id
        PROVE  /\ ~Keeps(xs, rs, xs[i].id) => rs[k].updated = now
               /\ Keeps(xs, rs, xs[i].id) /\ xs[i].parent = rs[k].parent /\ xs[i].id # e =>
                      rs[k].updated = xs[i].updated
    <2>1. /\ k \in 1 .. Len(es) /\ rs[k].id = es[k].id /\ rs[k].parent = es[k].parent
          /\ rs[k].updated = IF es[k].id \in containers THEN now ELSE es[k].updated
      BY <1>4 DEF InPlaces
    <2>2. xs[i].id \in Ids(xs) \cap Ids(es)
      BY <1>2, <1>8, <2>1 DEF Ids
    <2>3. Keeps(xs, rs, xs[i].id) <=> xs[i].id \notin containers
      BY <1>6, <2>2
    <2> QED
      BY <1>6, <1>8, <2>1, <2>3
  <1> QED
    BY <1>3, <1>7, <1>8 DEF PageKept, xs, page, rs

\* A subtree that arrived whole is not among the containers that are touched.
LEMMA WholeTouched ==
    ASSUME NEW I, NEW T, NEW U, NEW src, NEW es, Page(I, T, U, es), NEW containers, NEW now,
           Whole(src, es, now), \A i \in 1 .. Len(src) : src[i].id \notin containers
    PROVE  Whole(src, TouchedEntries(es, containers, now), now)
  <1> DEFINE rs == TouchedEntries(es, containers, now)
  <1>1. /\ InPlaces(es, rs)
        /\ \A k \in 1 .. Len(es) :
              /\ rs[k].text = es[k].text
              /\ rs[k].updated = IF es[k].id \in containers THEN now ELSE es[k].updated
    BY TouchedInPlaces
  <1> HIDE DEF rs
  <1>2. \A x : Keeps(src, rs, x) <=> Keeps(src, es, x)
    BY <1>1, InPlacesKeep
  <1>3. ASSUME NEW i \in 1 .. Len(src), NEW k \in 1 .. Len(rs), src[i].id = rs[k].id
        PROVE  /\ k \in 1 .. Len(es) /\ src[i].id = es[k].id /\ rs[k].text = es[k].text
               /\ rs[k].parent = es[k].parent /\ rs[k].updated = es[k].updated
    BY <1>1, <1>3 DEF InPlaces
  <1>4. Whole(src, rs, now)
    BY <1>2, <1>3 DEF Whole
  <1> QED
    BY <1>4 DEF rs

\* A new outline for the Page p: its entries are those it had, or new ones.
Revised(A, p, r, m, now) ==
    /\ Outlined(r, p, 1 .. m, 0 .. now) /\ PageKey(r.page) = PageKey(A[p].page)
    /\ Ids(r.entries) \subseteq Ids(A[p].entries) \cup ((issued + 1) .. m)

\* A new outline for one Page stands in nobody's way: its entries were its own, or are new.
LEMMA RevisedFits ==
    ASSUME NEW A, Held(A), NEW p \in DOMAIN A, NEW now \in Nat, clock <= now,
           NEW m \in issued .. MaxIds, NEW r, Revised(A, p, r, m, now)
    PROVE  /\ Paged(Edited(A, r), 1 .. m, 0 .. now)
           /\ Leaves(Drop(A, {p}), A, {p}) /\ Fits(Drop(A, {p}), r)
           /\ Paged(Drop(A, {p}), 1 .. m, 0 .. now)
  <1> DEFINE R == Drop(A, {p})
             o == A[p]
  <1>1. issued \in 0 .. MaxIds /\ clock \in Nat /\ Paged(A, 1 .. issued, 0 .. clock)
    BY DEF Held
  <1>2. /\ 1 .. issued \subseteq 1 .. m /\ 0 .. clock \subseteq 0 .. now
        /\ TopLevel \notin 1 .. m
    BY <1>1, BoundsIs
  <1>3. Leaves(R, A, {p}) /\ Paged(R, 1 .. issued, 0 .. clock)
    BY <1>1, DropIs
  <1>4. Paged(R, 1 .. m, 0 .. now)
    BY <1>2, <1>3, PagedMore
  <1>5. /\ Outlined(r, p, 1 .. m, 0 .. now) /\ PageKey(r.page) = PageKey(o.page)
        /\ Ids(r.entries) \subseteq Ids(o.entries) \cup ((issued + 1) .. m)
    BY DEF Revised
  <1>6. r.id = p
    BY <1>5 DEF Outlined
  <1>7. /\ \A q \in DOMAIN A : q \in 1 .. issued
        /\ \A q \in DOMAIN A : \A b \in Ids(o.entries) : b # q
        /\ \A b \in Ids(o.entries) : b \in EntriesOf(A)
        /\ DOMAIN A \cap EntriesOf(A) = {}
        /\ \A q \in DOMAIN A : q # p => PageKey(A[q].page) # PageKey(o.page)
    <2>1. /\ \A q \in DOMAIN A : q \in 1 .. issued
          /\ \A q \in DOMAIN A : \A b \in Ids(o.entries) : b # q
          /\ \A b \in Ids(o.entries) : b \in EntriesOf(A)
      BY <1>1, PagedIs
    <2>2. DOMAIN A \cap EntriesOf(A) = {} /\ \A q \in DOMAIN A : q # p => Separate(A[q], o)
      BY <1>1 DEF Paged
    <2> QED
      BY <2>1, <2>2 DEF Separate
  <1>8. \A b \in EntriesOf(A) : b \in 1 .. issued
    <2>1. ASSUME NEW q \in DOMAIN A
          PROVE  Ids(A[q].entries) \subseteq 1 .. issued
      <3>1. Outlined(A[q], q, 1 .. issued, 0 .. clock)
        BY <1>1 DEF Paged
      <3> QED
        BY <3>1, OutlinedIs
    <2> QED
      BY <2>1 DEF EntriesOf
  <1>9. \A b \in (issued + 1) .. m : b \notin 1 .. issued
    BY <1>1
  <1>10. /\ DOMAIN R = DOMAIN A \ {p} /\ \A q \in DOMAIN R : R[q] = A[q]
         /\ EntriesOf(R) \subseteq EntriesOf(A)
         /\ Ids(o.entries) \cap EntriesOf(R) = {}
    BY <1>3 DEF Leaves
  <1> HIDE DEF R, o
  <1>11. Fits(R, r)
    <2>1. p \notin DOMAIN R /\ p \notin EntriesOf(R)
      BY <1>7, <1>10
    <2>2. p \notin Ids(r.entries)
      BY <1>5, <1>7, <1>9
    <2>3. Ids(r.entries) \cap DOMAIN R = {}
      BY <1>5, <1>7, <1>9, <1>10
    <2>4. Ids(r.entries) \cap EntriesOf(R) = {}
      BY <1>5, <1>8, <1>9, <1>10
    <2>5. \A q \in DOMAIN R : PageKey(R[q].page) # PageKey(r.page)
      BY <1>5, <1>7, <1>10
    <2> QED
      BY <1>6, <2>1, <2>2, <2>3, <2>4, <2>5 DEF Fits
  <1>12. p \in 1 .. m
    BY <1>2, <1>7
  <1>13. Paged(Put(R, r), 1 .. m, 0 .. now)
    BY <1>4, <1>5, <1>6, <1>11, <1>12, PutFits
  <1>14. Edited(A, r) = Put(R, r)
    BY <1>6 DEF Edited, R
  <1> QED
    BY <1>3, <1>4, <1>11, <1>13, <1>14 DEF R

\* No Page is taken for one that is absent.
LEMMA PageIsPresent ==
    ASSUME NEW o, NEW p \in BlockIds, o.id = p
    PROVE  o # Absent
  BY MaxIdsAssumption DEF Absent, BlockIds

\* The commands on one Page record the outlines before and after.
LEMMA OutlineRecords ==
    ASSUME NEW A, Held(A), NEW p \in DOMAIN A, NEW now \in Nat, clock <= now,
           NEW m \in issued .. MaxIds, NEW r, Revised(A, p, r, m, now),
           NEW s, Brings(s, store, Edited(A, r)), NEW e, PageKept(A[p], r, now, e),
           CommitOutline(A[p].page.kind, s, A[p], r), issued' = m, clock' = now
    PROVE  Recording(A)
  <1> DEFINE R == Drop(A, {p})
             o == A[p]
             Y == Edited(A, r)
  <1>1. issued \in 0 .. MaxIds /\ clock \in Nat /\ Paged(A, 1 .. issued, 0 .. clock)
    BY DEF Held
  <1>2. /\ Paged(Y, 1 .. m, 0 .. now) /\ Leaves(R, A, {p}) /\ Fits(R, r)
        /\ Paged(R, 1 .. m, 0 .. now)
    BY RevisedFits
  <1>3. m \in 0 .. MaxIds
    BY <1>1, BoundsIs
  <1>4. World(A) /\ World(Y)
    BY <1>1, <1>2, <1>3, WorldIs
  <1>5. r.id = p /\ Outlined(o, p, 1 .. issued, 0 .. clock) /\ o.id = p /\ p \in BlockIds
        /\ PageKey(r.page) = PageKey(o.page)
    BY <1>1, <1>4, PagedIs, OutlinedIs DEF Revised, World
  <1>6. o # Absent /\ r # Absent
    BY <1>5, PageIsPresent
  <1>7. Put(R, o) = A
    BY <1>1, PutBack
  <1>8. Side(R, o) = A /\ Side(R, r) = Y
    BY <1>5, <1>6, <1>7 DEF Side, Edited, R
  <1>9. p \notin DOMAIN R /\ p \notin EntriesOf(R) /\ IsMap(R)
        /\ \A q \in DOMAIN R : PageKey(R[q].page) # PageKey(o.page)
    BY <1>2, <1>5 DEF Fits, Leaves
  <1>10. o.page \in PageBlocks
    BY <1>5 DEF Outlined
  <1>15. IsEdited(Y, A, r)
    BY <1>5, EditedIs
  <1> HIDE DEF R, o, Y
  <1>16. Remade(A, Y, now)
    <2>1. /\ DOMAIN Y = DOMAIN A /\ Y[p] = r /\ \A q \in DOMAIN A \ {p} : Y[q] = A[q]
      BY <1>5, <1>15 DEF IsEdited
    <2>2. p \notin EntriesOf(A) /\ p \notin EntriesOf(Y)
      BY <1>1, <1>2, <2>1 DEF Paged
    <2> QED
      BY <1>1, <1>2, <2>1, <2>2, OnePageRemade
  <1>11. ASSUME NEW t \in HistoryTracks, NEW what, CommitAndRecord(s, t, what), Links(t, what, A, Y)
         PROVE  Recording(A)
    <2>1. Brings(s, store, Y)
      BY DEF Y
    <2>2. /\ issued' \in issued .. MaxIds /\ clock' \in Nat /\ clock <= clock'
          /\ Paged(Y, 1 .. issued', 0 .. clock') /\ Remade(A, Y, clock')
      BY <1>2, <1>16
    <2> QED
      BY <1>11, <2>1, <2>2 DEF Recording
  <1>12. CASE o.page.kind = "named"
    <2>1. CommitAndRecord(s, <<"named", p>>, PageAction(o, r, NoTexts))
      BY <1>5, <1>12 DEF CommitOutline, o
    <2>2. <<"named", p>> \in HistoryTracks
      BY <1>5 DEF HistoryTracks
    <2>3. Links(<<"named", p>>, PageAction(o, r, NoTexts), Side(R, o), Side(R, r))
      BY <1>4, <1>5, <1>8, <1>9, NamedEdit
    <2> QED
      BY <1>8, <1>11, <2>1, <2>2, <2>3
  <1>13. CASE o.page.kind = "journal"
    <2> DEFINE d == o.page.key
    <2>1. CommitAndRecord(s, <<"journal", d>>, JournalAction(o, r))
      <3>1. A[p].page.kind = "journal"
        BY <1>13 DEF o
      <3> QED
        BY <3>1 DEF CommitOutline, o
    <2>2. d \in Dates
      BY <1>10, <1>13 DEF PageBlocks
    <2>3. <<"journal", d>> \in HistoryTracks
      BY <2>2 DEF HistoryTracks
    <2>4. PageKey(o.page) = <<"journal", d>>
      BY <1>13 DEF PageKey
    <2> HIDE DEF d
    <2>5. Links(<<"journal", d>>, JournalAction(o, r), Side(R, o), Side(R, r))
      BY <1>4, <1>5, <1>8, <1>9, <2>4, JournalLinks
    <2> QED
      BY <1>8, <1>11, <2>1, <2>3, <2>5
  <1>14. o.page.kind = "named" \/ o.page.kind = "journal"
    BY <1>10 DEF PageBlocks
  <1> QED
    BY <1>12, <1>13, <1>14

\* What a structural edit of one Page may make of its entries.
EditedEntries(A, p, es, m, now) ==
    Page(Ids(A[p].entries) \cup ((issued + 1) .. m), Seq(STRING), 0 .. now, es)

\* A structural edit of one Page is recorded.
LEMMA EditRecords ==
    ASSUME NEW A, Held(A), NEW p \in DOMAIN A, NEW now \in Nat, clock <= now,
           NEW m \in issued .. MaxIds, NEW es, EditedEntries(A, p, es, m, now),
           NEW containers, EditOutline(A[p].page.kind, A[p], es, containers, now),
           NEW e, Traced(A[p].entries, es, containers, e), issued' = m, clock' = now
    PROVE  Recording(A)
  <1> DEFINE o == A[p]
             r0 == [o EXCEPT !.entries = es]
             after == Touch(r0, containers, now)
             K == Ids(o.entries) \cup ((issued + 1) .. m)
  <1>1. issued \in 0 .. MaxIds /\ clock \in Nat /\ Paged(A, 1 .. issued, 0 .. clock)
        /\ Holds(store, A)
    BY DEF Held
  <1>2. Outlined(o, p, 1 .. issued, 0 .. clock)
    BY <1>1 DEF Paged
  <1>3. Page(K, Seq(STRING), 0 .. now, es)
    BY DEF EditedEntries
  <1>4. /\ CanReplace(store, o, after)
        /\ CommitOutline(o.page.kind, Replace(store, o, after), o, after)
    BY DEF EditOutline
  <1>5. /\ 1 .. issued \subseteq 1 .. m /\ 0 .. clock \subseteq 0 .. now /\ 0 .. now \subseteq Nat
        /\ TopLevel \notin 1 .. m /\ m \in 0 .. MaxIds /\ now \in 0 .. now
    BY <1>1, BoundsIs
  <1>6. K \subseteq 1 .. m
    <2>1. Ids(o.entries) \subseteq 1 .. issued
      BY <1>2, OutlinedIs
    <2>2. (issued + 1) .. m \subseteq 1 .. m
      BY <1>1
    <2> QED
      BY <1>5, <2>1, <2>2
  <1>7. o = [id |-> p, page |-> o.page, entries |-> o.entries] /\ o.page \in PageBlocks
        /\ o.page.updated \in 0 .. clock
    BY <1>2 DEF Outlined
  <1>8. r0 = [o EXCEPT !.entries = es]
    OBVIOUS
  <1>20. o = A[p] /\ after = Touch(r0, containers, now)
    OBVIOUS
  <1> HIDE DEF r0, after, K, o
  <1>9. r0 = [id |-> p, page |-> o.page, entries |-> es]
    <2> DEFINE g == o.page
               x == o.entries
    <2>1. o = [id |-> p, page |-> g, entries |-> x]
      BY <1>7
    <2> HIDE DEF g, x
    <2>2. r0 = [id |-> p, page |-> g, entries |-> es]
      BY <1>8, <2>1
    <2> QED
      BY <2>2 DEF g
  <1>10. o.page.updated \in 0 .. now
    BY <1>5, <1>7
  <1>11. IsTouched(after, r0, es, K, 0 .. now)
    <2> DEFINE g == o.page
    <2>1. g \in PageBlocks /\ g.updated \in 0 .. now /\ r0 = [id |-> p, page |-> g, entries |-> es]
      BY <1>7, <1>9, <1>10
    <2> HIDE DEF g
    <2>2. IsTouched(Touch(r0, containers, now), r0, es, K, 0 .. now)
      BY <1>3, <1>5, <2>1, TouchIs
    <2> QED
      BY <1>20, <2>2
  <1>12. Revised(A, p, after, m, now)
    <2>1. /\ after = [id |-> p, page |-> after.page, entries |-> after.entries]
          /\ after.page \in PageBlocks /\ after.page.updated \in 0 .. now
          /\ PageKey(after.page) = PageKey(o.page)
          /\ Page(K, Seq(STRING), 0 .. now, after.entries)
      <3>1. r0.id = p /\ r0.page = o.page
        BY <1>9
      <3> QED
        BY <1>11, <3>1 DEF IsTouched
    <2>2. Ids(after.entries) \subseteq K
      BY <2>1, PageFit
    <2>3. Page(1 .. m, Seq(STRING), 0 .. now, after.entries)
      BY <1>5, <1>6, <2>1, PageMore
    <2>4. Outlined(after, p, 1 .. m, 0 .. now)
      BY <2>1, <2>3 DEF Outlined
    <2> QED
      BY <1>20, <2>1, <2>2, <2>4 DEF Revised, K
  <1>13. Paged(Edited(A, after), 1 .. m, 0 .. now)
    BY <1>12, RevisedFits
  <1>14. Brings(Replace(store, o, after), store, Edited(A, after))
    <2>1. after.id = p /\ PageKey(after.page) = PageKey(A[after.id].page)
      BY <1>12 DEF Revised, Outlined
    <2>2. Brings(Replace(store, A[after.id], after), store, Edited(A, after))
      BY <1>1, <1>13, <2>1, ReplacedPage
    <2> QED
      BY <1>20, <2>1, <2>2
  <1>15. CommitOutline(A[p].page.kind, Replace(store, o, after), A[p], after)
    BY <1>4, <1>20
  <1>16. PageKept(o, after, now, e)
    <2>1. Page(1 .. issued, Seq(STRING), 0 .. clock, o.entries) /\ Page(K, Seq(STRING), 0 .. now, es)
      BY <1>2, <1>3 DEF Outlined
    <2>2. Page(BlockIds, Seq(STRING), Nat, o.entries) /\ Page(BlockIds, Seq(STRING), Nat, es)
      <3>1. /\ TopLevel \notin BlockIds /\ 1 .. issued \subseteq BlockIds /\ K \subseteq BlockIds
            /\ 0 .. clock \subseteq Nat /\ 0 .. now \subseteq Nat
        BY <1>1, <1>5, <1>6, BoundsIs
      <3> QED
        BY <2>1, <3>1, PageMore
    <2>3. o.page = [kind |-> o.page.kind, key |-> o.page.key, updated |-> o.page.updated]
      BY <1>7 DEF PageBlocks
    <2>4. r0 = [id |-> o.id, page |-> o.page, entries |-> es]
      BY <1>7, <1>9
    <2>5. Traced(o.entries, es, containers, e)
      BY <1>20
    <2> QED
      BY <1>20, <2>2, <2>3, <2>4, <2>5, TouchedKept
  <1> QED
    BY <1>12, <1>14, <1>15, <1>16, <1>20, OutlineRecords

\* The Page of an entry, and where the entry stands on it.
EntryOn(A, e, p, i) ==
    /\ p \in DOMAIN A /\ i \in 1 .. Len(A[p].entries) /\ A[p].entries[i].id = e
    /\ LoadOutline(store, PageOf(store, e)) = A[p] /\ PositionOf(A[p].entries, e) = i
    /\ PageKind(e) = A[p].page.kind

\* Every entry is on some Page, where the look-ups of the commands find it.
LEMMA EntryIsOn ==
    ASSUME NEW A, Held(A), NEW e \in EntryIds(store)
    PROVE  \E p, i : EntryOn(A, e, p, i)
  <1>1. issued \in 0 .. MaxIds /\ clock \in Nat /\ Paged(A, 1 .. issued, 0 .. clock)
        /\ Holds(store, A)
    BY DEF Held
  <1>2. World(A)
    BY <1>1, WorldIs
  <1>3. EntryIds(store) = EntriesOf(A) /\ \A p \in DOMAIN A : store.blocks[p] = A[p].page
    BY <1>1, HeldKinds DEF Holds
  <1>4. PICK p \in DOMAIN A : e \in Ids(A[p].entries)
    BY <1>3 DEF EntriesOf
  <1>5. PageOf(store, e) = p
    BY <1>1, <1>4, PageOfIs
  <1>6. LoadOutline(store, p) = A[p]
    BY <1>1, <1>2, LoadedIs DEF World
  <1>7. DOMAIN A[p].entries = 1 .. Len(A[p].entries)
    <2>1. Outlined(A[p], p, 1 .. issued, 0 .. clock)
      BY <1>1 DEF Paged
    <2> QED
      BY <2>1, OutlinedIs
  <1>8. /\ PositionOf(A[p].entries, e) \in 1 .. Len(A[p].entries)
        /\ A[p].entries[PositionOf(A[p].entries, e)].id = e
    BY <1>4, <1>7, PositionIs
  <1>9. PageKind(e) = A[p].page.kind
    BY <1>3, <1>5 DEF PageKind
  <1>10. EntryOn(A, e, p, PositionOf(A[p].entries, e))
    BY <1>5, <1>6, <1>8, <1>9 DEF EntryOn
  <1> QED
    BY <1>10

\* The entries of a Page before an edit, and who may come in.
LEMMA OwnEntries ==
    ASSUME NEW A, Held(A), NEW p \in DOMAIN A, NEW now \in Nat, clock <= now,
           NEW m \in issued .. MaxIds
    PROVE  /\ EditedEntries(A, p, A[p].entries, m, now)
           /\ Ids(A[p].entries) \subseteq 1 .. issued /\ Len(A[p].entries) \in Nat
           /\ DOMAIN A[p].entries = 1 .. Len(A[p].entries)
           /\ Outlined(A[p], p, 1 .. issued, 0 .. clock)
  <1> DEFINE es == A[p].entries
             K == Ids(es) \cup ((issued + 1) .. m)
  <1>1. issued \in 0 .. MaxIds /\ clock \in Nat /\ Paged(A, 1 .. issued, 0 .. clock)
    BY DEF Held
  <1>2. Outlined(A[p], p, 1 .. issued, 0 .. clock)
    BY <1>1 DEF Paged
  <1>3. Page(1 .. issued, Seq(STRING), 0 .. clock, es)
    BY <1>2 DEF Outlined
  <1> HIDE DEF es
  <1>4. Page(Ids(es), Seq(STRING), 0 .. clock, es) /\ Ids(es) \subseteq 1 .. issued
    BY <1>3, PageFit
  <1>5. Len(es) \in Nat /\ DOMAIN es = 1 .. Len(es)
    BY <1>3, PageIs
  <1>6. TopLevel \notin K /\ Ids(es) \subseteq K
    BY <1>1, <1>4 DEF TopLevel
  <1>7. 0 .. clock \subseteq 0 .. now
    BY <1>1
  <1> HIDE DEF K
  <1>8. Page(K, Seq(STRING), 0 .. now, es)
    BY <1>4, <1>6, <1>7, PageMore
  <1> QED
    BY <1>2, <1>4, <1>5, <1>8 DEF es, K, EditedEntries

\* A stamped entry leaves a Page.
LEMMA StampedIsPage ==
    ASSUME NEW I, NEW T, NEW U, NEW es, Page(I, T, U, es), NEW id, NEW text \in T, NEW now \in U
    PROVE  Page(I, T, U, Stamped(es, id, text, now))
  <1>1. PICK D : Tree(es, D)
    BY DEF Page
  <1> DEFINE r == Stamped(es, id, text, now)
  <1>2. r \in Seq(Entry(I, T, U)) /\ \A C : Tree(es, C) => Tree(r, C)
    BY StampedPage
  <1> HIDE DEF r
  <1>3. Page(I, T, U, r)
    BY <1>1, <1>2 DEF Page
  <1> QED
    BY <1>3 DEF r

\* A new entry of a Page.
LEMMA NewEntryIs ==
    ASSUME NEW A, Held(A), NEW p \in DOMAIN A, NEW now \in Nat, clock <= now,
           NEW m \in issued .. MaxIds, NEW n \in (issued + 1) .. m, NEW text \in Typed,
           NEW after \in Ids(A[p].entries) \cup {TopLevel}
    PROVE  /\ EditedEntries(A, p, Inserted(A[p].entries, after, NewEntry(n, text, now)), m, now)
           /\ Traced(A[p].entries, Inserted(A[p].entries, after, NewEntry(n, text, now)),
                     {InsertionPoint(A[p].entries, after).parent}, TopLevel)
  <1> DEFINE es == A[p].entries
             K == Ids(es) \cup ((issued + 1) .. m)
             e == NewEntry(n, text, now)
  <1>1. EditedEntries(A, p, es, m, now) /\ Ids(es) \subseteq 1 .. issued
    BY OwnEntries
  <1>2. issued \in Nat
    BY DEF Held
  <1>3. e.id = n /\ e \in Entry(K, Seq(STRING), 0 .. now)
    BY TextsAssumption DEF NewEntry, Entry
  <1>4. n \notin Ids(es)
    BY <1>1, <1>2
  <1>5. Page(K, Seq(STRING), 0 .. now, es)
    BY <1>1 DEF EditedEntries
  <1> HIDE DEF es, K, e
  <1>6. /\ Page(K, Seq(STRING), 0 .. now, Inserted(es, after, e))
        /\ Traced(es, Inserted(es, after, e), {InsertionPoint(es, after).parent}, TopLevel)
    <2>1. after \in Ids(es) \cup {TopLevel}
      BY DEF es
    <2> QED
      BY <1>3, <1>4, <1>5, <2>1, InsertedPage, InsertedTraced
  <1> QED
    BY <1>6 DEF EditedEntries, es, K, e

\* An entry on a Named Page.
LEMMA InsertPageEntryRecords ==
    ASSUME NEW A, Held(A), NEW now \in Nat, clock <= now, NEW p \in NamedPages(store),
           NEW after \in Containers(store, p), NEW text \in Typed,
           InsertPageEntry(p, after, text, now)
    PROVE  Recording(A)
  <1>1. issued \in 0 .. MaxIds /\ clock \in Nat /\ Paged(A, 1 .. issued, 0 .. clock)
        /\ Holds(store, A)
    BY DEF Held
  <1>2. World(A)
    BY <1>1, WorldIs
  <1>3. p \in DOMAIN A /\ A[p].page.kind = "named"
    BY <1>1, HeldKinds DEF Holds, NamedPages
  <1>4. LoadOutline(store, p) = A[p]
    BY <1>1, <1>2, <1>3, LoadedIs DEF World
  <1> DEFINE n == issued + 1
             es == Inserted(A[p].entries, after, NewEntry(n, text, now))
             containers == {InsertionPoint(A[p].entries, after).parent}
  <1>5. issued < MaxIds /\ EditOutline("named", A[p], es, containers, now)
        /\ clock' = now /\ issued' = n
    BY <1>4 DEF InsertPageEntry
  <1>6. n \in issued .. MaxIds /\ n \in (issued + 1) .. n
    BY <1>1, <1>5, MaxIdsAssumption
  <1>7. after \in Ids(A[p].entries) \cup {TopLevel}
    BY <1>4 DEF Containers
  <1> HIDE DEF n
  <1>8. EditedEntries(A, p, es, n, now) /\ Traced(A[p].entries, es, containers, TopLevel)
    BY <1>3, <1>6, <1>7, NewEntryIs
  <1> HIDE DEF es, containers
  <1> QED
    BY <1>3, <1>5, <1>6, <1>8, EditRecords

\* What the commands on one entry start from.
LEMMA EntryFacts ==
    ASSUME NEW A, Held(A), NEW e, NEW p, NEW i, EntryOn(A, e, p, i), NEW now \in Nat, clock <= now,
           NEW m \in issued .. MaxIds
    PROVE  LET K == Ids(A[p].entries) \cup ((issued + 1) .. m)
           IN  /\ Page(K, Seq(STRING), 0 .. now, A[p].entries)
               /\ Ids(A[p].entries) \subseteq 1 .. issued
               /\ i \in 1 .. Len(A[p].entries) /\ p \in DOMAIN A
               /\ \A j \in 1 .. Len(A[p].entries) : A[p].entries[j].text \in Seq(STRING)
               /\ now \in 0 .. now /\ issued \in 0 .. MaxIds
  <1>1. EditedEntries(A, p, A[p].entries, m, now) /\ Ids(A[p].entries) \subseteq 1 .. issued
    BY OwnEntries DEF EntryOn
  <1> DEFINE K == Ids(A[p].entries) \cup ((issued + 1) .. m)
             es == A[p].entries
  <1>2. Page(K, Seq(STRING), 0 .. now, es)
    BY <1>1 DEF EditedEntries
  <1> HIDE DEF K, es
  <1>3. \A j \in 1 .. Len(es) : es[j] \in Entry(K, Seq(STRING), 0 .. now)
    BY <1>2, PageIs
  <1>4. \A j \in 1 .. Len(es) : es[j].text \in Seq(STRING)
    BY <1>3 DEF Entry
  <1>5. now \in 0 .. now /\ issued \in 0 .. MaxIds
    BY DEF Held
  <1> QED
    BY <1>1, <1>2, <1>4, <1>5 DEF EntryOn, K, es

\* Enter: an entry is cut in two.
LEMMA SplitRecords ==
    ASSUME NEW A, Held(A), NEW now \in Nat, clock <= now, NEW e \in EntryIds(store),
           NEW text \in Typed, NEW cut \in 0 .. Len(text),
           SplitEntry(PageKind(e), e, text, cut, now)
    PROVE  Recording(A)
  <1>1. PICK p, i : EntryOn(A, e, p, i)
    BY EntryIsOn
  <1> DEFINE o == A[p]
             n == issued + 1
             r == Split(o.entries, i, text, cut, n, now)
             K == Ids(o.entries) \cup ((issued + 1) .. n)
  <1>2. /\ issued < MaxIds /\ EditOutline(o.page.kind, o, r, {o.entries[i].parent}, now)
        /\ clock' = now /\ issued' = n
    BY <1>1 DEF SplitEntry, EntryOn
  <1>3. n \in issued .. MaxIds /\ n \in (issued + 1) .. n
    BY <1>2, MaxIdsAssumption DEF Held
  <1>4. /\ Page(K, Seq(STRING), 0 .. now, o.entries) /\ Ids(o.entries) \subseteq 1 .. issued
        /\ i \in 1 .. Len(o.entries) /\ p \in DOMAIN A /\ now \in 0 .. now /\ issued \in 0 .. MaxIds
    BY <1>1, <1>3, EntryFacts
  <1>5. n \in K \ Ids(o.entries)
    BY <1>3, <1>4
  <1>6. SubSeq(text, 1, cut) \in Seq(STRING) /\ SubSeq(text, cut + 1, Len(text)) \in Seq(STRING)
    <2>1. text \in Seq(STRING)
      BY TextsAssumption
    <2> QED
      BY <2>1
  <1> HIDE DEF n, K
  <1>7. /\ Page(K, Seq(STRING), 0 .. now, r)
        /\ Traced(o.entries, r, {o.entries[i].parent}, o.entries[i].id)
    <2> DEFINE es == o.entries
    <2>1. Page(K, Seq(STRING), 0 .. now, es) /\ i \in 1 .. Len(es) /\ n \in K \ Ids(es)
      BY <1>4, <1>5
    <2> HIDE DEF es
    <2>2. /\ Page(K, Seq(STRING), 0 .. now, Split(es, i, text, cut, n, now))
          /\ Traced(es, Split(es, i, text, cut, n, now), {es[i].parent}, es[i].id)
      BY <1>4, <1>6, <2>1, SplitPage, SplitTraced
    <2> QED
      BY <2>2 DEF es
  <1>8. EditedEntries(A, p, r, n, now)
    BY <1>7 DEF EditedEntries, K
  <1> HIDE DEF r
  <1> QED
    BY <1>2, <1>3, <1>4, <1>7, <1>8, EditRecords

\* Backspace at the beginning: an entry joins the one before it.
LEMMA JoinRecords ==
    ASSUME NEW A, Held(A), NEW now \in Nat, clock <= now, NEW e \in EntryIds(store),
           NEW text \in Typed, JoinEntry(PageKind(e), e, text, now)
    PROVE  Recording(A)
  <1>1. PICK p, i : EntryOn(A, e, p, i)
    BY EntryIsOn
  <1> DEFINE o == A[p]
             r == Joined(o.entries, i, text, now)
             K == Ids(o.entries) \cup ((issued + 1) .. issued)
  <1>2. /\ CanJoin(o.entries, i) /\ EditOutline(o.page.kind, o, r, {o.entries[i].parent}, now)
        /\ clock' = now /\ issued' = issued
    BY <1>1 DEF JoinEntry, EntryOn
  <1>3. issued \in issued .. MaxIds
    BY DEF Held
  <1>4. /\ Page(K, Seq(STRING), 0 .. now, o.entries) /\ i \in 1 .. Len(o.entries)
        /\ p \in DOMAIN A /\ now \in 0 .. now
        /\ \A j \in 1 .. Len(o.entries) : o.entries[j].text \in Seq(STRING)
    BY <1>1, <1>3, EntryFacts
  <1> HIDE DEF K
  <1>5. Page(K, Seq(STRING), 0 .. now, r) /\ \E by : Traced(o.entries, r, {o.entries[i].parent}, by)
    <2> DEFINE es == o.entries
    <2>1. Page(K, Seq(STRING), 0 .. now, es) /\ i \in 1 .. Len(es) /\ CanJoin(es, i)
          /\ \A j \in 1 .. Len(es) : es[j].text \in Seq(STRING)
      BY <1>2, <1>4
    <2> HIDE DEF es
    <2>2. i - 1 \in 1 .. Len(es)
      <3>1. i > 1 /\ Len(es) \in Nat
        BY <2>1, PageIs DEF CanJoin
      <3> QED
        BY <2>1, <3>1
    <2>3. es[i - 1].text \o text \in Seq(STRING)
      <3>1. text \in Seq(STRING) /\ es[i - 1].text \in Seq(STRING)
        BY <2>1, <2>2, TextsAssumption
      <3> QED
        BY <3>1
    <2>4. /\ Page(K, Seq(STRING), 0 .. now, Joined(es, i, text, now))
          /\ Traced(es, Joined(es, i, text, now), {es[i].parent}, es[i - 1].id)
      BY <1>4, <2>1, <2>3, JoinedPage, JoinedTraced
    <2> QED
      BY <2>4 DEF es
  <1>6. EditedEntries(A, p, r, issued, now)
    BY <1>5 DEF EditedEntries, K
  <1> HIDE DEF r
  <1> QED
    BY <1>2, <1>3, <1>4, <1>5, <1>6, EditRecords

\* An entry is deleted.
LEMMA DeleteRecords ==
    ASSUME NEW A, Held(A), NEW now \in Nat, clock <= now, NEW e \in EntryIds(store),
           DeleteEntry(PageKind(e), e, now)
    PROVE  Recording(A)
  <1>1. PICK p, i : EntryOn(A, e, p, i)
    BY EntryIsOn
  <1> DEFINE o == A[p]
             r == Erased(o.entries, i)
             K == Ids(o.entries) \cup ((issued + 1) .. issued)
  <1>2. /\ CanErase(o.entries, i) /\ EditOutline(o.page.kind, o, r, {o.entries[i].parent}, now)
        /\ clock' = now /\ issued' = issued
    BY <1>1 DEF DeleteEntry, EntryOn
  <1>3. issued \in issued .. MaxIds
    BY DEF Held
  <1>4. /\ Page(K, Seq(STRING), 0 .. now, o.entries) /\ i \in 1 .. Len(o.entries)
        /\ p \in DOMAIN A
    BY <1>1, <1>3, EntryFacts
  <1> HIDE DEF K
  <1>5. Page(K, Seq(STRING), 0 .. now, r) /\ Traced(o.entries, r, {o.entries[i].parent}, TopLevel)
    BY <1>2, <1>4, ErasedPage, ErasedTraced
  <1>6. EditedEntries(A, p, r, issued, now)
    BY <1>5 DEF EditedEntries, K
  <1> HIDE DEF r
  <1> QED
    BY <1>2, <1>3, <1>4, <1>5, <1>6, EditRecords

\* Indent, outdent, up and down, with the pending text.
MovedTo(es, i, movement, result, containers) ==
    \/ /\ movement = "indent" /\ CanIndent(es, i) /\ result = Indented(es, i)
       /\ containers = {es[i].parent, Indented(es, i)[i].parent}
    \/ /\ movement = "outdent" /\ CanOutdent(es, i) /\ result = Outdented(es, i)
       /\ containers = {es[i].parent, GrandParent(es, i)}
    \/ /\ movement = "up" /\ CanMoveUp(es, i) /\ result = MovedUp(es, i)
       /\ containers = {es[i].parent}
    \/ /\ movement = "down" /\ CanMoveDown(es, i) /\ result = MovedDown(es, i)
       /\ containers = {es[i].parent}

\* The four movements keep a Page a Page, and stamp the containers that change.
LEMMA MovedPage ==
    ASSUME NEW I, NEW T, NEW U, NEW es, Page(I, T, U, es), NEW i \in 1 .. Len(es),
           NEW movement, NEW result, NEW containers, MovedTo(es, i, movement, result, containers)
    PROVE  Page(I, T, U, result) /\ Traced(es, result, containers, TopLevel)
  <1>1. CASE CanIndent(es, i) /\ result = Indented(es, i)
             /\ containers = {es[i].parent, Indented(es, i)[i].parent}
    BY <1>1, IndentedPage, IndentedTraced
  <1>2. CASE CanOutdent(es, i) /\ result = Outdented(es, i)
             /\ containers = {es[i].parent, GrandParent(es, i)}
    BY <1>2, OutdentedPage, OutdentedTraced
  <1>3. CASE CanMoveUp(es, i) /\ result = MovedUp(es, i) /\ containers = {es[i].parent}
    BY <1>3, MovedUpPage, MovedUpTraced
  <1>4. CASE CanMoveDown(es, i) /\ result = MovedDown(es, i) /\ containers = {es[i].parent}
    BY <1>4, MovedDownPage, MovedDownTraced
  <1> QED
    BY <1>1, <1>2, <1>3, <1>4 DEF MovedTo

\* Moving an entry within its Page is recorded.
LEMMA MoveRecords ==
    ASSUME NEW A, Held(A), NEW now \in Nat, clock <= now, NEW e \in EntryIds(store),
           NEW text \in Typed, NEW movement, MoveEntry(PageKind(e), e, movement, text, now)
    PROVE  Recording(A)
  <1>1. PICK p, i : EntryOn(A, e, p, i)
    BY EntryIsOn
  <1> DEFINE o == A[p]
             es == o.entries
             K == Ids(es) \cup ((issued + 1) .. issued)
  <1>2. \E result, containers :
           /\ MovedTo(es, i, movement, result, containers)
           /\ EditOutline(o.page.kind, o, Stamped(result, e, text, now), containers, now)
           /\ clock' = now /\ issued' = issued
    <2>1. LoadOutline(store, PageOf(store, e)) = o /\ PositionOf(es, e) = i
          /\ PageKind(e) = o.page.kind
      BY <1>1 DEF EntryOn
    <2> HIDE DEF o
    <2>2. CASE movement = "indent"
      <3>1. /\ CanIndent(es, i)
            /\ EditOutline(o.page.kind, o, Stamped(Indented(es, i), e, text, now),
                           {es[i].parent, Indented(es, i)[i].parent}, now)
            /\ clock' = now /\ issued' = issued
        BY <2>1, <2>2 DEF MoveEntry
      <3>2. MovedTo(es, i, movement, Indented(es, i),
                    {es[i].parent, Indented(es, i)[i].parent})
        BY <2>2, <3>1 DEF MovedTo
      <3> QED
        BY <3>1, <3>2
    <2>3. CASE movement = "outdent"
      <3>1. /\ CanOutdent(es, i)
            /\ EditOutline(o.page.kind, o, Stamped(Outdented(es, i), e, text, now),
                           {es[i].parent, GrandParent(es, i)}, now)
            /\ clock' = now /\ issued' = issued
        BY <2>1, <2>3 DEF MoveEntry
      <3>2. MovedTo(es, i, movement, Outdented(es, i),
                    {es[i].parent, GrandParent(es, i)})
        BY <2>3, <3>1 DEF MovedTo
      <3> QED
        BY <3>1, <3>2
    <2>4. CASE movement = "up"
      <3>1. /\ CanMoveUp(es, i)
            /\ EditOutline(o.page.kind, o, Stamped(MovedUp(es, i), e, text, now),
                           {es[i].parent}, now)
            /\ clock' = now /\ issued' = issued
        BY <2>1, <2>4 DEF MoveEntry
      <3>2. MovedTo(es, i, movement, MovedUp(es, i), {es[i].parent})
        BY <2>4, <3>1 DEF MovedTo
      <3> QED
        BY <3>1, <3>2
    <2>5. CASE movement = "down"
      <3>1. /\ CanMoveDown(es, i)
            /\ EditOutline(o.page.kind, o, Stamped(MovedDown(es, i), e, text, now),
                           {es[i].parent}, now)
            /\ clock' = now /\ issued' = issued
        BY <2>1, <2>5 DEF MoveEntry
      <3>2. MovedTo(es, i, movement, MovedDown(es, i), {es[i].parent})
        BY <2>5, <3>1 DEF MovedTo
      <3> QED
        BY <3>1, <3>2
    <2>6. movement \in {"indent", "outdent", "up", "down"}
      BY DEF MoveEntry
    <2> QED
      BY <2>2, <2>3, <2>4, <2>5, <2>6
  <1>3. PICK result, containers :
           /\ MovedTo(es, i, movement, result, containers)
           /\ EditOutline(o.page.kind, o, Stamped(result, e, text, now), containers, now)
           /\ clock' = now /\ issued' = issued
    BY <1>2
  <1>4. issued \in issued .. MaxIds
    BY DEF Held
  <1>5. /\ Page(K, Seq(STRING), 0 .. now, es) /\ i \in 1 .. Len(es) /\ p \in DOMAIN A
        /\ now \in 0 .. now
    BY <1>1, <1>4, EntryFacts
  <1> HIDE DEF K
  <1>6. Page(K, Seq(STRING), 0 .. now, result) /\ Traced(es, result, containers, TopLevel)
    BY <1>3, <1>5, MovedPage
  <1>7. text \in Seq(STRING)
    BY TextsAssumption
  <1>8. Page(K, Seq(STRING), 0 .. now, Stamped(result, e, text, now))
    BY <1>5, <1>6, <1>7, StampedIsPage
  <1> DEFINE r == Stamped(result, e, text, now)
  <1>9. EditedEntries(A, p, r, issued, now)
    BY <1>8 DEF EditedEntries, K
  <1>10. EditOutline(A[p].page.kind, A[p], r, containers, now)
    BY <1>3
  <1>11. Traced(es, r, containers, e)
    <2> HIDE DEF es
    <2>1. DOMAIN result = 1 .. Len(result) /\ \A j \in 1 .. Len(es) : es[j].id # TopLevel
      BY <1>5, <1>6, PageIs
    <2>2. InPlaces(result, r) /\ Timed(result, r, e) /\ DOMAIN r = 1 .. Len(r)
      BY <1>6, StampedInPlaces
    <2> HIDE DEF r
    <2> QED
      BY <1>6, <2>1, <2>2, TracedToStamped
  <1> HIDE DEF r
  <1> QED
    BY <1>3, <1>4, <1>5, <1>9, <1>10, <1>11, EditRecords

\* A selection is deleted with its subtrees.
LEMMA DeleteSubtreesRecords ==
    ASSUME NEW A, Held(A), NEW now \in Nat, clock <= now, NEW p \in PageIds(store),
           NEW ids \in SUBSET Ids(LoadOutline(store, p).entries), ids # {},
           DeleteSubtrees(store.blocks[p].kind, ids, now)
    PROVE  Recording(A)
  <1> DEFINE e == CHOOSE b \in ids : TRUE
             o == A[p]
             r == WithoutSubtrees(o.entries, ids)
             K == Ids(o.entries) \cup ((issued + 1) .. issued)
  <1>1. issued \in 0 .. MaxIds /\ clock \in Nat /\ Paged(A, 1 .. issued, 0 .. clock)
        /\ Holds(store, A)
    BY DEF Held
  <1>2. World(A)
    BY <1>1, WorldIs
  <1>3. p \in DOMAIN A /\ store.blocks[p] = o.page
    BY <1>1, HeldKinds DEF Holds
  <1>4. LoadOutline(store, p) = o
    BY <1>1, <1>2, <1>3, LoadedIs DEF World
  <1>5. e \in Ids(o.entries)
    BY <1>4
  <1>6. PageOf(store, e) = p
    BY <1>1, <1>3, <1>5, PageOfIs
  <1>7. EditOutline(o.page.kind, o, r, RootParents(o.entries, ids), now)
    <2>1. EditOutline(store.blocks[p].kind, LoadOutline(store, PageOf(store, e)),
                      WithoutSubtrees(LoadOutline(store, PageOf(store, e)).entries, ids),
                      {LoadOutline(store, PageOf(store, e)).entries[PositionOf(
                           LoadOutline(store, PageOf(store, e)).entries, b)].parent :
                           b \in SelectedRoots(LoadOutline(store, PageOf(store, e)).entries, ids)},
                      now)
      BY DEF DeleteSubtrees
    <2> HIDE DEF o, e
    <2>2. RootParents(o.entries, ids) = {o.entries[PositionOf(o.entries, b)].parent :
                                             b \in SelectedRoots(o.entries, ids)}
      BY DEF RootParents
    <2> QED
      BY <1>3, <1>4, <1>6, <2>1, <2>2
  <1>9. clock' = now /\ issued' = issued
    BY DEF DeleteSubtrees
  <1>10. issued \in issued .. MaxIds
    BY <1>1
  <1>11. EditedEntries(A, p, o.entries, issued, now)
    BY <1>3, <1>10, OwnEntries
  <1>12. Page(K, Seq(STRING), 0 .. now, o.entries)
    BY <1>11 DEF EditedEntries
  <1> HIDE DEF K
  <1>13. /\ Page(K, Seq(STRING), 0 .. now, r)
         /\ Traced(o.entries, r, RootParents(o.entries, ids), TopLevel)
    BY <1>4, <1>12, WithoutSubtreesPage, WithoutSubtreesTraced
  <1>14. EditedEntries(A, p, r, issued, now)
    BY <1>13 DEF EditedEntries, K
  <1> HIDE DEF r
  <1> QED
    BY <1>3, <1>7, <1>9, <1>10, <1>13, <1>14, EditRecords

\* The text of an entry is written.
LEMMA UpdateRecords ==
    ASSUME NEW A, Held(A), NEW now \in Nat, clock <= now, NEW e \in EntryIds(store),
           NEW text \in Typed, UpdateEntry(PageKind(e), e, text, now)
    PROVE  Recording(A)
  <1>1. PICK p, i : EntryOn(A, e, p, i)
    BY EntryIsOn
  <1> DEFINE o == A[p]
             es == o.entries
             r == Stamped(es, e, text, now)
             after == [o EXCEPT !.entries = r]
             K == Ids(es) \cup ((issued + 1) .. issued)
  <1>2. /\ CommitOutline(o.page.kind, WriteEntries(store, after), o, after)
        /\ clock' = now /\ issued' = issued
    BY <1>1 DEF UpdateEntry, EntryOn
  <1>3. /\ issued \in issued .. MaxIds /\ clock \in Nat /\ issued \in 0 .. MaxIds
        /\ Paged(A, 1 .. issued, 0 .. clock) /\ Holds(store, A)
    BY DEF Held
  <1>4. /\ Page(K, Seq(STRING), 0 .. now, es) /\ i \in 1 .. Len(es)
        /\ p \in DOMAIN A /\ now \in 0 .. now /\ Ids(es) \subseteq 1 .. issued
    BY <1>1, <1>3, EntryFacts
  <1>5. Outlined(o, p, 1 .. issued, 0 .. clock)
    BY <1>3, <1>4 DEF Paged
  <1>6. K = Ids(es)
    BY <1>3
  <1>7. text \in Seq(STRING)
    BY TextsAssumption
  <1> HIDE DEF K
  <1>8. /\ Page(K, Seq(STRING), 0 .. now, r) /\ Len(r) = Len(es)
        /\ \A j \in 1 .. Len(es) : r[j].id = es[j].id /\ r[j].parent = es[j].parent
        /\ InPlaces(es, r) /\ Timed(es, r, e) /\ Named(es)
    <2> HIDE DEF es
    <2> DEFINE q == Stamped(es, e, text, now)
    <2>1. Page(K, Seq(STRING), 0 .. now, q)
      BY <1>4, <1>7, StampedIsPage
    <2>2. /\ q \in Seq(Entry(K, Seq(STRING), 0 .. now)) /\ Len(q) = Len(es)
          /\ \A j \in 1 .. Len(es) : q[j].id = es[j].id /\ q[j].parent = es[j].parent
          /\ \A D : Tree(es, D) => Tree(q, D)
      BY <1>4, <1>7, StampedPage
    <2>3. InPlaces(es, q) /\ Timed(es, q, e) /\ Named(es)
      BY <1>4, StampedInPlaces DEF Page, Tree
    <2> QED
      BY <2>1, <2>2, <2>3
  <1>9. o = [id |-> p, page |-> o.page, entries |-> es] /\ o.page \in PageBlocks
        /\ o.page.updated \in 0 .. clock
    BY <1>5 DEF Outlined
  <1>10. after = [o EXCEPT !.entries = r] /\ o = A[p] /\ es = o.entries
    OBVIOUS
  <1> HIDE DEF after, r, o, es
  <1>11. after = [id |-> p, page |-> o.page, entries |-> r]
    <2> DEFINE g == o.page
    <2>1. o = [id |-> p, page |-> g, entries |-> es]
      BY <1>9
    <2> HIDE DEF g
    <2>2. after = [id |-> p, page |-> g, entries |-> r]
      BY <1>10, <2>1
    <2> QED
      BY <2>2 DEF g
  <1>12. after.id = p /\ after.page = o.page /\ after.entries = r
    BY <1>11
  <1>13. Revised(A, p, after, issued, now)
    <2>1. 1 .. issued \subseteq 1 .. issued /\ 0 .. clock \subseteq 0 .. now
          /\ TopLevel \notin 1 .. issued
      BY <1>3, BoundsIs
    <2>2. Page(1 .. issued, Seq(STRING), 0 .. now, r)
      <3>1. K \subseteq 1 .. issued /\ 0 .. now \subseteq 0 .. now
        BY <1>4, <1>6
      <3> QED
        BY <1>8, <2>1, <3>1, PageMore
    <2>3. Ids(r) \subseteq Ids(es)
      BY <1>6, <1>8, PageFit
    <2>4. Outlined(after, p, 1 .. issued, 0 .. now)
      BY <1>9, <1>11, <1>12, <2>1, <2>2 DEF Outlined
    <2> QED
      BY <1>10, <1>12, <2>3, <2>4 DEF Revised
  <1>14. Paged(Edited(A, after), 1 .. issued, 0 .. now)
    BY <1>3, <1>4, <1>13, RevisedFits
  <1>15. Brings(WriteEntries(store, after), store, Edited(A, after))
    <2>1. /\ after.id \in DOMAIN A /\ after.page = A[after.id].page
          /\ Len(after.entries) = Len(A[after.id].entries)
          /\ \A j \in 1 .. Len(after.entries) :
                /\ after.entries[j].id = A[after.id].entries[j].id
                /\ after.entries[j].parent = A[after.id].entries[j].parent
      BY <1>4, <1>8, <1>10, <1>12
    <2> QED
      BY <1>3, <1>14, <2>1, UpdatedPage
  <1>16. CommitOutline(A[p].page.kind, WriteEntries(store, after), A[p], after)
    BY <1>2, <1>10
  <1>17. PageKept(A[p], after, now, e)
    <2>1. /\ InPlaces(o.entries, after.entries) /\ Timed(o.entries, after.entries, e)
          /\ Named(o.entries) /\ after.page.updated = o.page.updated
      BY <1>8, <1>10, <1>12
    <2> QED
      BY <1>10, <2>1, InPlacesKept
  <1> QED
    BY <1>2, <1>3, <1>4, <1>13, <1>15, <1>16, <1>17, OutlineRecords

\* A command on one entry records what it did.
LEMMA EntryCommandRecords ==
    ASSUME NEW A, Held(A), NEW now \in Nat, clock <= now, NEW e \in EntryIds(store),
           EntryCommand(PageKind(e), e, now)
    PROVE  Recording(A)
  <1>1. CASE DeleteEntry(PageKind(e), e, now)
    BY <1>1, DeleteRecords
  <1>2. CASE \E text \in Typed : UpdateEntry(PageKind(e), e, text, now)
    BY <1>2, UpdateRecords
  <1>3. CASE \E text \in Typed : JoinEntry(PageKind(e), e, text, now)
    BY <1>3, JoinRecords
  <1>4. CASE \E text \in Typed : \E cut \in 0 .. Len(text) : SplitEntry(PageKind(e), e, text, cut, now)
    BY <1>4, SplitRecords
  <1>5. CASE \E text \in Typed : \E movement \in Movements : MoveEntry(PageKind(e), e, movement, text, now)
    BY <1>5, MoveRecords
  <1> QED
    BY <1>1, <1>2, <1>3, <1>4, <1>5 DEF EntryCommand

\* A Page without entries.
LEMMA EmptyPage ==
    ASSUME NEW I, TopLevel \notin I, NEW T, NEW U
    PROVE  Page(I, T, U, <<>>) /\ Ids(<<>>) = {} /\ Len(<<>>) = 0
  <1> DEFINE D == [i \in 1 .. 0 |-> 0]
             es == <<>>
  <1>1. Len(es) = 0 /\ DOMAIN es = {} /\ es \in Seq(Entry(I, T, U)) /\ 1 .. 0 = {}
    OBVIOUS
  <1>2. D \in [1 .. 0 -> Nat]
    OBVIOUS
  <1> HIDE DEF D, es
  <1>3. Tree(es, D)
    BY <1>1, <1>2 DEF Tree, Named, Walk, Linked
  <1>4. Page(I, T, U, es) /\ Ids(es) = {} /\ Len(es) = 0
    BY <1>1, <1>3 DEF Page, Ids
  <1> QED
    BY <1>4 DEF es

-----------------------------------------------------------------------------
\* Pages that come and go.

\* A Page is deleted.
LEMMA DeletePageRecords ==
    ASSUME NEW A, Held(A), NEW now \in Nat, clock <= now, NEW p \in NamedPages(store),
           DeletePage(p, now)
    PROVE  Recording(A)
  <1> DEFINE o == A[p]
             R == Drop(A, {p})
  <1>1. /\ issued \in 0 .. MaxIds /\ clock \in Nat /\ Paged(A, 1 .. issued, 0 .. clock)
        /\ Holds(store, A)
    BY DEF Held
  <1>2. World(A)
    BY <1>1, WorldIs
  <1>3. p \in DOMAIN A
    BY <1>1, HeldKinds DEF Holds, NamedPages
  <1>4. LoadOutline(store, p) = o
    BY <1>1, <1>2, <1>3, LoadedIs DEF World
  <1>5. /\ CommitAndRecord(RemovePage(store, o), <<"named", p>>, PageAction(o, Absent, NoTexts))
        /\ clock' = now /\ issued' = issued
    BY <1>4 DEF DeletePage
  <1>6. Revised(A, p, o, issued, now) /\ issued \in issued .. MaxIds
    <2>1. Outlined(o, p, 1 .. issued, 0 .. clock)
      BY <1>1, <1>3 DEF Paged
    <2>2. 0 .. clock \subseteq 0 .. now /\ TopLevel \notin 1 .. issued
      BY <1>1, BoundsIs
    <2> HIDE DEF o
    <2>3. Outlined(o, p, 1 .. issued, 0 .. now)
      <3>1. Page(1 .. issued, Seq(STRING), 0 .. clock, o.entries)
        BY <2>1 DEF Outlined
      <3>2. 1 .. issued \subseteq 1 .. issued
        OBVIOUS
      <3>3. Page(1 .. issued, Seq(STRING), 0 .. now, o.entries)
        BY <2>2, <3>1, <3>2, PageMore
      <3> QED
        BY <2>1, <2>2, <3>3 DEF Outlined
    <2> QED
      BY <1>1, <2>3 DEF Revised, o
  <1>7. Leaves(R, A, {p}) /\ Fits(R, o) /\ Paged(R, 1 .. issued, 0 .. now)
    BY <1>3, <1>6, RevisedFits
  <1>8. World(R)
    BY <1>1, <1>7, WorldIs
  <1>9. o.id = p /\ p \in BlockIds
    <2>1. Outlined(o, p, BlockIds, Nat) /\ p \in BlockIds
      BY <1>2, <1>3, PagedIs DEF World
    <2> QED
      BY <2>1 DEF Outlined
  <1>10. o # Absent
    BY <1>9, PageIsPresent
  <1>11. Put(R, o) = A
    BY <1>1, <1>3, PutBack
  <1>12. Side(R, o) = A /\ Side(R, Absent) = R
    BY <1>10, <1>11 DEF Side
  <1>13. p \notin DOMAIN R /\ p \notin EntriesOf(R) /\ IsMap(R)
    BY <1>7, <1>9 DEF Fits, Leaves
  <1>14. Brings(RemovePage(store, o), store, R)
    BY <1>1, <1>3, RemovedPage
  <1> HIDE DEF o, R
  <1>15. Links(<<"named", p>>, PageAction(o, Absent, NoTexts), Side(R, o), Side(R, Absent))
    BY <1>2, <1>8, <1>9, <1>12, <1>13, NamedEdit
  <1>16. <<"named", p>> \in HistoryTracks
    BY <1>9 DEF HistoryTracks
  <1>17. /\ issued' \in issued .. MaxIds /\ clock' \in Nat /\ clock <= clock'
         /\ Paged(R, 1 .. issued', 0 .. clock') /\ Remade(A, R, clock')
    <2>1. DOMAIN R = DOMAIN A \ {p} /\ \A q \in DOMAIN A \ {p} : R[q] = A[q]
      BY <1>7 DEF Leaves
    <2>2. p \notin EntriesOf(A)
      BY <1>1, <1>3 DEF Paged
    <2>3. Remade(A, R, now)
      BY <1>1, <1>7, <1>13, <2>1, <2>2, OnePageRemade
    <2> QED
      BY <1>5, <1>6, <1>7, <2>3
  <1> QED
    BY <1>5, <1>12, <1>14, <1>15, <1>16, <1>17 DEF Recording

\* A Page with new identifiers under a new key joins the others.
LEMMA NewPageFits ==
    ASSUME NEW A, Held(A), NEW now \in Nat, clock <= now,
           NEW m \in issued .. MaxIds, NEW p \in (issued + 1) .. m, NEW o,
           Outlined(o, p, 1 .. m, 0 .. now), Ids(o.entries) \subseteq ((issued + 1) .. m) \ {p},
           \A q \in DOMAIN A : PageKey(A[q].page) # PageKey(o.page)
    PROVE  /\ Paged(Put(A, o), 1 .. m, 0 .. now) /\ p \notin DOMAIN A /\ p \notin EntriesOf(A)
           /\ IsMap(A) /\ Side(A, o) = Put(A, o) /\ Remade(A, Put(A, o), now)
  <1>1. /\ issued \in 0 .. MaxIds /\ clock \in Nat /\ Paged(A, 1 .. issued, 0 .. clock)
    BY DEF Held
  <1>2. /\ 1 .. issued \subseteq 1 .. m /\ 0 .. clock \subseteq 0 .. now
        /\ TopLevel \notin 1 .. m
    BY <1>1, BoundsIs
  <1>3. Paged(A, 1 .. m, 0 .. now)
    BY <1>1, <1>2, PagedMore
  <1>4. \A b \in EntriesOf(A) : b \in 1 .. issued
    <2>1. ASSUME NEW q \in DOMAIN A
          PROVE  Ids(A[q].entries) \subseteq 1 .. issued
      <3>1. Outlined(A[q], q, 1 .. issued, 0 .. clock)
        BY <1>1 DEF Paged
      <3> QED
        BY <3>1, OutlinedIs
    <2> QED
      BY <2>1 DEF EntriesOf
  <1>5. DOMAIN A \subseteq 1 .. issued /\ IsMap(A)
    BY <1>1 DEF Paged, IsMap
  <1>6. \A b \in (issued + 1) .. m : b \notin 1 .. issued
    BY <1>1
  <1>7. o.id = p
    BY DEF Outlined
  <1>8. p \in 1 .. m
    BY <1>1
  <1>9. Fits(A, o)
    BY <1>4, <1>5, <1>6, <1>7 DEF Fits
  <1>10. Paged(Put(A, o), 1 .. m, 0 .. now)
    BY <1>3, <1>7, <1>8, <1>9, PutFits
  <1>11. o # Absent
    <2>1. m \in 0 .. MaxIds
      BY <1>1, MaxIdsAssumption
    <2>2. p \in BlockIds
      BY <1>8, <2>1, BoundsIs
    <2> QED
      BY <1>7, <2>2, PageIsPresent
  <1>12. p \notin DOMAIN A /\ p \notin EntriesOf(A) /\ Joins(Put(A, o), A, o)
    BY <1>7, <1>9, PutIs DEF Fits
  <1>13. Remade(A, Put(A, o), now)
    <2> DEFINE B == Put(A, o)
    <2>1. DOMAIN B = DOMAIN A \cup {p} /\ \A q \in DOMAIN A : B[q] = A[q]
      BY <1>7, <1>12 DEF Joins
    <2>2. Paged(B, 1 .. m, 0 .. now)
      BY <1>10
    <2> HIDE DEF B
    <2>3. p \notin EntriesOf(B)
      BY <2>1, <2>2 DEF Paged
    <2>4. Remade(A, B, now)
      BY <1>1, <1>12, <2>1, <2>2, <2>3, OnePageRemade
    <2> QED
      BY <2>4 DEF B
  <1> QED
    BY <1>5, <1>7, <1>9, <1>10, <1>11, <1>13 DEF Fits, Side

\* A Named Page is created.
LEMMA CreatePageRecords ==
    ASSUME NEW A, Held(A), NEW now \in Nat, clock <= now, NEW name \in Names,
           CreatePage(name, now)
    PROVE  Recording(A)
  <1> DEFINE n == issued + 1
             page == PageBlock("named", name, now)
             o == [id |-> n, page |-> page, entries |-> <<>>]
  <1>1. /\ issued \in 0 .. MaxIds /\ clock \in Nat /\ Paged(A, 1 .. issued, 0 .. clock)
        /\ Holds(store, A)
    BY DEF Held
  <1>2. /\ issued < MaxIds /\ CanInsertPage(store, o) /\ clock' = now /\ issued' = n
        /\ CommitAndRecord(InsertPage(store, o), <<"named", n>>, PageAction(Absent, o, NoTexts))
    BY DEF CreatePage
  <1>3. n \in issued .. MaxIds /\ n \in (issued + 1) .. n /\ n \in 0 .. MaxIds
        /\ TopLevel \notin 1 .. n
    BY <1>1, <1>2, MaxIdsAssumption DEF TopLevel
  <1>4. page \in PageBlocks /\ page.updated \in 0 .. now
    BY DEF PageBlock, PageBlocks
  <1> HIDE DEF n, page
  <1>5. o.id = n /\ o.page = page /\ o.entries = <<>>
        /\ o = [id |-> n, page |-> o.page, entries |-> o.entries]
    OBVIOUS
  <1> HIDE DEF o
  <1>6. Outlined(o, n, 1 .. n, 0 .. now) /\ Ids(o.entries) \subseteq ((issued + 1) .. n) \ {n}
    <2>1. Page(1 .. n, Seq(STRING), 0 .. now, <<>>) /\ Ids(<<>>) = {}
      BY <1>3, EmptyPage
    <2> QED
      BY <1>4, <1>5, <2>1 DEF Outlined
  <1>7. \A q \in DOMAIN A : PageKey(A[q].page) # PageKey(o.page)
    <2>1. PageKey(o.page) \notin DOMAIN store.pages
      BY <1>2 DEF CanInsertPage
    <2>2. \A q \in DOMAIN A : PageKey(A[q].page) \in DOMAIN store.pages
      BY <1>1 DEF Holds, KeysAre
    <2> QED
      BY <2>1, <2>2
  <1>8. /\ Paged(Put(A, o), 1 .. n, 0 .. now) /\ n \notin DOMAIN A /\ n \notin EntriesOf(A)
        /\ IsMap(A) /\ Side(A, o) = Put(A, o) /\ Remade(A, Put(A, o), now)
    BY <1>3, <1>6, <1>7, NewPageFits
  <1>9. Brings(InsertPage(store, o), store, Put(A, o))
    BY <1>1, <1>5, <1>8, InsertedOutline
  <1>10. World(A) /\ World(Put(A, o))
    BY <1>1, <1>3, <1>8, WorldIs
  <1>11. Side(A, Absent) = A
    BY DEF Side
  <1>12. Links(<<"named", n>>, PageAction(Absent, o, NoTexts), Side(A, Absent), Side(A, o))
    BY <1>5, <1>8, <1>10, <1>11, NamedEdit
  <1>13. <<"named", n>> \in HistoryTracks
    <2>1. n \in 1 .. n
      BY <1>1, <1>3
    <2>2. n \in BlockIds
      BY <1>1, <1>3, <2>1, BoundsIs
    <2> QED
      BY <2>2 DEF HistoryTracks
  <1>14. /\ issued' \in issued .. MaxIds /\ clock' \in Nat /\ clock <= clock'
         /\ Paged(Put(A, o), 1 .. issued', 0 .. clock') /\ Remade(A, Put(A, o), clock')
    BY <1>2, <1>3, <1>8
  <1>15. Links(<<"named", n>>, PageAction(Absent, o, NoTexts), A, Put(A, o))
    BY <1>8, <1>11, <1>12
  <1> QED
    BY <1>2, <1>9, <1>13, <1>14, <1>15 DEF Recording

\* An entry on a Journal Page that is there.
LEMMA InsertOnJournal ==
    ASSUME NEW A, Held(A), NEW now \in Nat, clock <= now, NEW date \in Dates,
           NEW p \in DOMAIN A, PageKey(A[p].page) = <<"journal", date>>, NEW text \in Typed,
           NEW after \in Ids(LoadOutlineForDate(store, date).entries) \cup {TopLevel},
           InsertJournalEntry(date, after, text, now)
    PROVE  Recording(A)
  <1>1. issued \in 0 .. MaxIds /\ clock \in Nat /\ Paged(A, 1 .. issued, 0 .. clock)
        /\ Holds(store, A)
    BY DEF Held
  <1>2. World(A)
    BY <1>1, WorldIs
  <1>3. A[p].page.kind = "journal" /\ A[p].page.key = date
    BY DEF PageKey
  <1>4. LoadOutlineForDate(store, date) = A[p]
    BY <1>1, <1>2, LoadedForDate DEF World
  <1>5. A[p] # Absent
    <2>1. p \in BlockIds /\ Outlined(A[p], p, BlockIds, Nat)
      BY <1>2, PagedIs DEF World
    <2>2. A[p].id = p
      BY <2>1 DEF Outlined
    <2> QED
      BY <2>1, <2>2, PageIsPresent
  <1> DEFINE n == issued + 1
             o == A[p]
             es == Inserted(o.entries, after, NewEntry(n, text, now))
             containers == {InsertionPoint(o.entries, after).parent}
             outline == Touch([o EXCEPT !.entries = es], containers, now)
  <1>6. /\ n <= MaxIds /\ CanReplace(store, o, outline) /\ clock' = now /\ issued' = n
        /\ CommitAndRecord(Replace(store, o, outline), <<"journal", date>>,
                           JournalAction(o, outline))
    BY <1>4, <1>5 DEF InsertJournalEntry
  <1>7. n \in issued .. MaxIds /\ n \in (issued + 1) .. n
    BY <1>1, <1>6, MaxIdsAssumption
  <1>8. after \in Ids(A[p].entries) \cup {TopLevel}
    BY <1>4
  <1> HIDE DEF n
  <1>9. EditedEntries(A, p, es, n, now) /\ Traced(A[p].entries, es, containers, TopLevel)
    BY <1>7, <1>8, NewEntryIs
  <1> HIDE DEF es, containers
  <1>10. EditOutline("journal", o, es, containers, now)
    <2> HIDE DEF o
    <2>1. o.page.kind = "journal" /\ o.page.key = date
      BY <1>3 DEF o
    <2> QED
      BY <1>6, <2>1 DEF EditOutline, CommitOutline
  <1> QED
    BY <1>3, <1>6, <1>7, <1>9, <1>10, EditRecords

\* An entry on a date that has no Page.
LEMMA InsertOnDate ==
    ASSUME NEW A, Held(A), NEW now \in Nat, clock <= now, NEW date \in Dates,
           \A p \in DOMAIN A : PageKey(A[p].page) # <<"journal", date>>, NEW text \in Typed,
           NEW after \in Ids(LoadOutlineForDate(store, date).entries) \cup {TopLevel},
           InsertJournalEntry(date, after, text, now)
    PROVE  Recording(A)
  <1>1. /\ issued \in 0 .. MaxIds /\ clock \in Nat /\ Paged(A, 1 .. issued, 0 .. clock)
        /\ Holds(store, A)
    BY DEF Held
  <1>2. World(A)
    BY <1>1, WorldIs
  <1>3. LoadOutlineForDate(store, date) = Absent
    BY <1>1, <1>2, LoadedForDate DEF World
  <1> DEFINE p == issued + 1
             n == issued + 2
             g == PageBlock("journal", date, now)
             page == [id |-> p, page |-> g, entries |-> <<>>]
             e == NewEntry(n, text, now)
             es == Inserted(<<>>, after, e)
             containers == {InsertionPoint(<<>>, after).parent}
             r == [id |-> p, page |-> g, entries |-> es]
             o == Touch(r, containers, now)
  <1>4. [page EXCEPT !.entries = es] = r
    <2> HIDE DEF g, es
    <2> QED
      OBVIOUS
  <1>5. /\ n <= MaxIds /\ CanReplace(IndexPage(store, page), page, o)
        /\ CommitAndRecord(Replace(IndexPage(store, page), page, o), <<"journal", date>>,
                           JournalAction(Absent, o))
        /\ clock' = now /\ issued' = n
    <2> DEFINE raw == Touch([page EXCEPT !.entries = Inserted(page.entries, after, e)],
                            {InsertionPoint(page.entries, after).parent}, now)
    <2>1. page.entries = <<>>
      OBVIOUS
    <2>2. raw = o
      BY <1>4, <2>1
    <2>3. /\ n <= MaxIds /\ CanReplace(IndexPage(store, page), page, raw)
          /\ CommitAndRecord(Replace(IndexPage(store, page), page, raw), <<"journal", date>>,
                             JournalAction(Absent, raw))
          /\ clock' = now /\ issued' = n
      BY <1>3 DEF InsertJournalEntry
    <2> HIDE DEF raw, o
    <2> QED
      BY <2>2, <2>3
  <1>6. after \in Ids(<<>>) \cup {TopLevel}
    BY <1>3 DEF Absent
  <1>7. /\ n \in issued .. MaxIds /\ p \in (issued + 1) .. n /\ n \in (issued + 1) .. n
        /\ n \in 1 .. n /\ p # n /\ TopLevel \notin 1 .. n
        /\ p \in 1 .. n /\ n \in 0 .. MaxIds
    BY <1>1, <1>5, MaxIdsAssumption DEF TopLevel
  <1>8. g \in PageBlocks /\ g.updated \in 0 .. now /\ PageKey(g) = <<"journal", date>>
    BY DEF PageBlock, PageBlocks, PageKey
  <1>9. page.id = p /\ page.entries = <<>> /\ page.page = g
    OBVIOUS
  <1>10. r = [id |-> p, page |-> g, entries |-> es] /\ r.id = p /\ r.page = g
    OBVIOUS
  <1>11. e.id = n /\ e \in Entry({n}, Seq(STRING), 0 .. now)
    BY TextsAssumption DEF NewEntry, Entry
  <1> HIDE DEF p, n, g, page, e, containers, r
  <1>12. Page({n}, Seq(STRING), 0 .. now, es) /\ Ids(es) \subseteq {n}
    <2>1. Page({n}, Seq(STRING), 0 .. now, <<>>) /\ Ids(<<>>) = {}
      <3>1. TopLevel \notin {n}
        BY <1>7
      <3> QED
        BY <3>1, EmptyPage
    <2>2. n \notin Ids(<<>>)
      BY <2>1
    <2>3. Page({n}, Seq(STRING), 0 .. now, es)
      BY <1>6, <1>11, <2>1, <2>2, InsertedPage
    <2> HIDE DEF es
    <2> QED
      BY <2>3, PageFit
  <1> HIDE DEF es
  <1>13. IsTouched(o, r, es, {n}, 0 .. now)
    <2>1. 0 .. now \subseteq Nat /\ now \in 0 .. now
      OBVIOUS
    <2> QED
      BY <1>8, <1>10, <1>12, <2>1, TouchIs
  <1> HIDE DEF o
  <1>14. /\ o = [id |-> p, page |-> o.page, entries |-> o.entries]
         /\ o.page \in PageBlocks /\ o.page.updated \in 0 .. now
         /\ PageKey(o.page) = <<"journal", date>> /\ Page({n}, Seq(STRING), 0 .. now, o.entries)
    BY <1>8, <1>10, <1>13 DEF IsTouched
  <1>15. Ids(o.entries) \subseteq {n} /\ Page(1 .. n, Seq(STRING), 0 .. now, o.entries)
    <2> DEFINE os == o.entries
    <2>1. Page({n}, Seq(STRING), 0 .. now, os)
      BY <1>14
    <2>2. {n} \subseteq 1 .. n /\ 0 .. now \subseteq 0 .. now
      BY <1>7
    <2> HIDE DEF os
    <2>3. Ids(os) \subseteq {n}
      BY <2>1, PageFit
    <2>4. Page(1 .. n, Seq(STRING), 0 .. now, os)
      BY <1>7, <2>1, <2>2, PageMore
    <2> QED
      BY <2>3, <2>4 DEF os
  <1>16. /\ Outlined(o, p, 1 .. n, 0 .. now)
         /\ Ids(o.entries) \subseteq ((issued + 1) .. n) \ {p}
    BY <1>7, <1>14, <1>15 DEF Outlined
  <1>17. \A q \in DOMAIN A : PageKey(A[q].page) # PageKey(o.page)
    BY <1>14
  <1>18. /\ Paged(Put(A, o), 1 .. n, 0 .. now) /\ p \notin DOMAIN A /\ p \notin EntriesOf(A)
         /\ IsMap(A) /\ Side(A, o) = Put(A, o) /\ Remade(A, Put(A, o), now)
    BY <1>7, <1>16, <1>17, NewPageFits
  <1>19. o.id = p
    BY <1>14
  <1>20. Brings(Replace(IndexPage(store, page), page, o), store, Put(A, o))
    BY <1>1, <1>8, <1>9, <1>14, <1>18, <1>19, ReplacedVirtual
  <1>21. World(A) /\ World(Put(A, o))
    BY <1>1, <1>7, <1>18, WorldIs
  <1>22. Side(A, Absent) = A
    BY DEF Side
  <1>23. Links(<<"journal", date>>, JournalAction(Absent, o), A, Put(A, o))
    <2>1. Links(<<"journal", date>>, JournalAction(Absent, o), Side(A, Absent), Side(A, o))
      BY <1>14, <1>18, <1>19, <1>21, <1>22, JournalLinks
    <2> QED
      BY <1>18, <1>22, <2>1
  <1>24. <<"journal", date>> \in HistoryTracks
    BY DEF HistoryTracks
  <1>25. /\ issued' \in issued .. MaxIds /\ clock' \in Nat /\ clock <= clock'
         /\ Paged(Put(A, o), 1 .. issued', 0 .. clock') /\ Remade(A, Put(A, o), clock')
    BY <1>5, <1>7, <1>18
  <1> QED
    BY <1>5, <1>20, <1>23, <1>24, <1>25 DEF Recording

\* An entry on a Journal Page.
LEMMA InsertJournalEntryRecords ==
    ASSUME NEW A, Held(A), NEW now \in Nat, clock <= now, NEW date \in Dates, NEW text \in Typed,
           NEW after \in Ids(LoadOutlineForDate(store, date).entries) \cup {TopLevel},
           InsertJournalEntry(date, after, text, now)
    PROVE  Recording(A)
  BY InsertOnJournal, InsertOnDate

-----------------------------------------------------------------------------
\* A rename, with the texts it writes elsewhere.

\* Pages with the identifiers that other Pages have, each Page with its own.
Alike(C, A, J, V) ==
    /\ IsMap(C) /\ DOMAIN C = DOMAIN A
    /\ \A q \in DOMAIN A : Outlined(C[q], q, J, V) /\ Ids(C[q].entries) = Ids(A[q].entries)
    /\ \A p, q \in DOMAIN A : p # q => PageKey(C[p].page) # PageKey(C[q].page)

\* They can be the Pages of a Notebook too.
LEMMA PagedAlike ==
    ASSUME NEW A, NEW I, NEW U, Paged(A, I, U), NEW C, NEW J, NEW V, DOMAIN A \subseteq J,
           Alike(C, A, J, V)
    PROVE  Paged(C, J, V)
  <1>1. EntriesOf(C) = EntriesOf(A)
    BY DEF EntriesOf, Alike
  <1>2. \A p, q \in DOMAIN A : p # q => Ids(C[p].entries) \cap Ids(C[q].entries) = {}
    BY DEF Alike, Paged, Separate
  <1> QED
    BY <1>1, <1>2 DEF Paged, Alike, IsMap, Separate

\* Entries with other texts are entries of a Page.
LEMMA RetextedPage ==
    ASSUME NEW I, NEW T, NEW U, NEW es, Page(I, T, U, es), NEW texts, NEW side,
           \A b \in DOMAIN texts : texts[b][side] \in T
    PROVE  /\ Page(I, T, U, Retexted(es, texts, side))
           /\ Ids(Retexted(es, texts, side)) = Ids(es)
           /\ Len(Retexted(es, texts, side)) = Len(es)
  <1> DEFINE n == Len(es)
             r == Retexted(es, texts, side)
  <1>1. PICK D : Tree(es, D)
    BY DEF Page
  <1>2. /\ es \in Seq(Entry(I, T, U)) /\ n \in Nat /\ DOMAIN es = 1 .. n
        /\ \A j \in 1 .. n : es[j] \in Entry(I, T, U)
    BY DEF Page
  <1>3. /\ r = [j \in 1 .. n |-> r[j]]
        /\ \A j \in 1 .. n :
              r[j] = IF es[j].id \in DOMAIN texts THEN [es[j] EXCEPT !.text = texts[es[j].id][side]]
                     ELSE es[j]
    BY <1>2 DEF Retexted
  <1> HIDE DEF r
  <1>4. ASSUME NEW j \in 1 .. n
        PROVE  r[j] \in Entry(I, T, U) /\ r[j].id = es[j].id /\ r[j].parent = es[j].parent
    <2>1. es[j] \in Entry(I, T, U)
      BY <1>2
    <2>2. CASE es[j].id \in DOMAIN texts
      <3> DEFINE x == texts[es[j].id][side]
      <3>1. x \in T
        BY <2>2
      <3>2. r[j] = [es[j] EXCEPT !.text = x]
        BY <1>3, <2>2
      <3> HIDE DEF x
      <3> QED
        BY <2>1, <3>1, <3>2 DEF Entry
    <2>3. CASE es[j].id \notin DOMAIN texts
      BY <1>3, <2>1, <2>3
    <2> QED
      BY <2>2, <2>3
  <1>5. r \in Seq(Entry(I, T, U)) /\ Len(r) = n /\ DOMAIN r = 1 .. n
    <2>1. r \in [1 .. n -> Entry(I, T, U)] /\ DOMAIN r = 1 .. n
      BY <1>3, <1>4
    <2>2. r \in Seq(Entry(I, T, U))
      BY <1>2, <2>1, SeqDef
    <2> QED
      BY <1>2, <2>1, <2>2, LenProperties
  <1>6. Tree(r, D)
    BY <1>1, <1>2, <1>4, <1>5, SameTree
  <1>7. Page(I, T, U, r)
    BY <1>5, <1>6 DEF Page
  <1>8. Ids(r) = Ids(es)
    BY <1>2, <1>4, <1>5 DEF Ids
  <1> QED
    BY <1>5, <1>7, <1>8 DEF r

\* The texts written last are the ones that stay.
LEMMA RetextedTwice ==
    ASSUME NEW I, NEW T, NEW U, NEW es \in Seq(Entry(I, T, U)), NEW texts, NEW x, NEW y
    PROVE  Retexted(Retexted(es, texts, x), texts, y) = Retexted(es, texts, y)
  <1> DEFINE n == Len(es)
             r == Retexted(es, texts, x)
  <1>1. DOMAIN es = 1 .. n /\ \A j \in 1 .. n : es[j] \in Entry(I, T, U)
    OBVIOUS
  <1>2. /\ DOMAIN r = 1 .. n
        /\ \A j \in 1 .. n :
              r[j] = IF es[j].id \in DOMAIN texts THEN [es[j] EXCEPT !.text = texts[es[j].id][x]]
                     ELSE es[j]
    BY <1>1 DEF Retexted
  <1> HIDE DEF r
  <1>3. ASSUME NEW j \in 1 .. n
        PROVE  (IF r[j].id \in DOMAIN texts THEN [r[j] EXCEPT !.text = texts[r[j].id][y]] ELSE r[j])
             = (IF es[j].id \in DOMAIN texts THEN [es[j] EXCEPT !.text = texts[es[j].id][y]] ELSE es[j])
    <2>1. es[j] \in Entry(I, T, U)
      BY <1>1
    <2>2. CASE es[j].id \in DOMAIN texts
      <3> DEFINE u == texts[es[j].id][x]
                 v == texts[es[j].id][y]
      <3>1. r[j] = [es[j] EXCEPT !.text = u]
        BY <1>2, <2>2
      <3> HIDE DEF u, v
      <3>2. r[j].id = es[j].id /\ [r[j] EXCEPT !.text = v] = [es[j] EXCEPT !.text = v]
        BY <2>1, <3>1 DEF Entry
      <3> QED
        BY <2>2, <3>2 DEF v
    <2>3. CASE es[j].id \notin DOMAIN texts
      BY <1>2, <2>3
    <2> QED
      BY <2>2, <2>3
  <1> QED
    BY <1>1, <1>2, <1>3 DEF Retexted, r

\* Writing the texts that are there changes nothing.
LEMMA RetextedSame ==
    ASSUME NEW I, NEW T, NEW U, NEW es \in Seq(Entry(I, T, U)), NEW texts, NEW side,
           \A i \in 1 .. Len(es) : es[i].id \in DOMAIN texts => texts[es[i].id][side] = es[i].text
    PROVE  Retexted(es, texts, side) = es
  <1> DEFINE n == Len(es)
  <1>1. DOMAIN es = 1 .. n /\ (\A j \in 1 .. n : es[j] \in Entry(I, T, U)) /\ es = [j \in 1 .. n |-> es[j]]
    OBVIOUS
  <1>2. ASSUME NEW j \in 1 .. n
        PROVE  (IF es[j].id \in DOMAIN texts THEN [es[j] EXCEPT !.text = texts[es[j].id][side]] ELSE es[j])
             = es[j]
    <2>1. es[j] \in Entry(I, T, U)
      BY <1>1
    <2>2. CASE es[j].id \in DOMAIN texts
      <3> DEFINE x == texts[es[j].id][side]
      <3>1. x = es[j].text
        BY <2>2
      <3> HIDE DEF x
      <3>2. [es[j] EXCEPT !.text = x] = es[j]
        BY <2>1, <3>1 DEF Entry
      <3> QED
        BY <2>2, <3>2 DEF x
    <2> QED
      BY <2>2
  <1> QED
    BY <1>1, <1>2 DEF Retexted

\* What a rename remembers of the entries that mention the old name.
TextsOf(A, texts) ==
    /\ DOMAIN texts \subseteq EntriesOf(A)
    /\ \A q \in DOMAIN A : \A i \in 1 .. Len(A[q].entries) :
          A[q].entries[i].id \in DOMAIN texts =>
              texts[A[q].entries[i].id]["before"] = A[q].entries[i].text
    /\ \A b \in DOMAIN texts : /\ texts[b]["before"] \in Seq(STRING)
                               /\ texts[b]["after"] \in Seq(STRING)

\* The Pages after a rename of p, whose Block becomes g.
RenamedPages(A, p, g, texts) ==
    [q \in DOMAIN A |-> [id |-> q, page |-> IF q = p THEN g ELSE A[q].page,
                         entries |-> Retexted(A[q].entries, texts, "after")]]

\* A rename keeps every entry where it is, and two Pages from having one key.
LEMMA RenamedAlike ==
    ASSUME NEW A, NEW I, NEW V, Paged(A, I, V), NEW p \in DOMAIN A, NEW g \in PageBlocks,
           g.updated \in V, \A q \in DOMAIN A : q # p => PageKey(A[q].page) # PageKey(g),
           NEW texts, TextsOf(A, texts)
    PROVE  Alike(RenamedPages(A, p, g, texts), A, I, V)
  <1> DEFINE B == RenamedPages(A, p, g, texts)
  <1>1. /\ DOMAIN B = DOMAIN A /\ IsMap(B)
        /\ \A q \in DOMAIN A : B[q] = [id |-> q, page |-> IF q = p THEN g ELSE A[q].page,
                                       entries |-> Retexted(A[q].entries, texts, "after")]
    BY DEF RenamedPages, IsMap
  <1>2. \A b \in DOMAIN texts : texts[b]["after"] \in Seq(STRING)
    BY DEF TextsOf
  <1> HIDE DEF B
  <1>3. ASSUME NEW q \in DOMAIN A
        PROVE  Outlined(B[q], q, I, V) /\ Ids(B[q].entries) = Ids(A[q].entries)
    <2> DEFINE es == A[q].entries
               fs == Retexted(es, texts, "after")
               h == IF q = p THEN g ELSE A[q].page
               o == B[q]
    <2>1. Page(I, Seq(STRING), V, es) /\ h \in PageBlocks /\ h.updated \in V
      <3>1. Outlined(A[q], q, I, V)
        BY PagedIs
      <3> QED
        BY <3>1 DEF Outlined
    <2>2. o = [id |-> q, page |-> h, entries |-> fs]
      BY <1>1
    <2> HIDE DEF es, h, o
    <2>3. Page(I, Seq(STRING), V, fs) /\ Ids(fs) = Ids(es)
      BY <1>2, <2>1, RetextedPage
    <2> HIDE DEF fs
    <2>4. Outlined(o, q, I, V) /\ Ids(o.entries) = Ids(es)
      BY <2>1, <2>2, <2>3 DEF Outlined
    <2> QED
      BY <2>4 DEF o, es
  <1>4. \A q, r \in DOMAIN A : q # r => PageKey(B[q].page) # PageKey(B[r].page)
    <2>1. \A q \in DOMAIN A : B[q].page = IF q = p THEN g ELSE A[q].page
      BY <1>1
    <2>2. \A q, r \in DOMAIN A : q # r => PageKey(A[q].page) # PageKey(A[r].page)
      BY DEF Paged, Separate
    <2> QED
      BY <2>1, <2>2
  <1>5. Alike(B, A, I, V)
    BY <1>1, <1>3, <1>4 DEF Alike
  <1> QED
    BY <1>5 DEF B

\* The two Notebooks with one Page of the other.
LEMMA MixedAlike ==
    ASSUME NEW A, NEW I, NEW V, Paged(A, I, V), NEW B, Alike(B, A, I, V), NEW p \in DOMAIN A,
           \A q \in DOMAIN A : q # p => B[q].page = A[q].page
    PROVE  Alike(Edited(B, A[p]), A, I, V) /\ Alike(Edited(A, B[p]), A, I, V)
  <1> DEFINE a == A[p]
             b == B[p]
             C == Edited(B, a)
             D == Edited(A, b)
  <1>1. /\ \A q \in DOMAIN A : Outlined(A[q], q, I, V) /\ Outlined(B[q], q, I, V)
        /\ \A q \in DOMAIN A : Ids(B[q].entries) = Ids(A[q].entries)
        /\ DOMAIN B = DOMAIN A
    BY PagedIs DEF Alike
  <1>2. a.id = p /\ b.id = p
    <2>1. Outlined(a, p, I, V) /\ Outlined(b, p, I, V)
      BY <1>1
    <2> HIDE DEF a, b
    <2> QED
      BY <2>1, OutlinedIs
  <1>3. IsEdited(C, B, a) /\ IsEdited(D, A, b)
    <2> HIDE DEF a, b
    <2>1. IsEdited(C, B, a)
      BY <1>1, <1>2, EditedIs
    <2>2. IsEdited(D, A, b)
      BY <1>2, EditedIs
    <2> QED
      BY <2>1, <2>2
  <1> HIDE DEF C, D
  <1>4. /\ DOMAIN C = DOMAIN A /\ IsMap(C) /\ C[p] = A[p]
        /\ \A q \in DOMAIN A : q # p => C[q] = B[q]
        /\ DOMAIN D = DOMAIN A /\ IsMap(D) /\ D[p] = B[p]
        /\ \A q \in DOMAIN A : q # p => D[q] = A[q]
    BY <1>1, <1>2, <1>3 DEF IsEdited
  <1>5. /\ \A q, r \in DOMAIN A : q # r => PageKey(A[q].page) # PageKey(A[r].page)
        /\ \A q, r \in DOMAIN A : q # r => PageKey(B[q].page) # PageKey(B[r].page)
    BY DEF Paged, Separate, Alike
  <1>6. Alike(C, A, I, V)
    <2>1. \A q \in DOMAIN A : Outlined(C[q], q, I, V) /\ Ids(C[q].entries) = Ids(A[q].entries)
      BY <1>1, <1>4
    <2>2. \A q \in DOMAIN A : C[q].page = A[q].page
      BY <1>4
    <2> QED
      BY <1>4, <1>5, <2>1, <2>2 DEF Alike
  <1>7. Alike(D, A, I, V)
    <2>1. \A q \in DOMAIN A : Outlined(D[q], q, I, V) /\ Ids(D[q].entries) = Ids(A[q].entries)
      BY <1>1, <1>4
    <2>2. \A q \in DOMAIN A : D[q].page = B[q].page
      BY <1>4
    <2> QED
      BY <1>4, <1>5, <2>1, <2>2 DEF Alike
  <1> QED
    BY <1>6, <1>7 DEF C, D

\* A rename leads from the old Pages to the new ones, and back.
LEMMA RenameLinks ==
    ASSUME NEW A, NEW I, NEW V, Paged(A, I, V), I \subseteq BlockIds, V \subseteq Nat,
           NEW p \in DOMAIN A, NEW g \in PageBlocks,
           g.updated \in V, \A q \in DOMAIN A : q # p => PageKey(A[q].page) # PageKey(g),
           NEW texts, TextsOf(A, texts), NEW B, B = RenamedPages(A, p, g, texts)
    PROVE  /\ Paged(B, I, V)
           /\ Links(<<"named", p>>, PageAction(A[p], B[p], texts), A, B)
  <1> DEFINE a == A[p]
             b == B[p]
             C == Edited(B, a)
             D == Edited(A, b)
  <1>1. /\ DOMAIN B = DOMAIN A
        /\ \A q \in DOMAIN A : B[q] = [id |-> q, page |-> IF q = p THEN g ELSE A[q].page,
                                       entries |-> Retexted(A[q].entries, texts, "after")]
    BY DEF RenamedPages
  <1>2. /\ \A q \in DOMAIN A : q # p => B[q].page = A[q].page
        /\ \A q \in DOMAIN A : B[q].entries = Retexted(A[q].entries, texts, "after")
        /\ a.id = p /\ b.id = p
    BY <1>1, PagedIs, OutlinedIs
  <1>3. Alike(B, A, I, V)
    BY RenamedAlike
  <1>4. Alike(C, A, I, V) /\ Alike(D, A, I, V)
    BY <1>2, <1>3, MixedAlike
  <1>5. IsEdited(C, B, a) /\ IsEdited(D, A, b)
    <2> HIDE DEF a, b
    <2>1. IsEdited(C, B, a)
      BY <1>1, <1>2, EditedIs
    <2>2. IsEdited(D, A, b)
      BY <1>2, EditedIs
    <2> QED
      BY <2>1, <2>2
  <1>6. DOMAIN A \subseteq I
    BY DEF Paged
  <1>7. a # Absent /\ b # Absent
    <2>1. p \in BlockIds
      BY <1>6
    <2> HIDE DEF a, b
    <2> QED
      BY <1>2, <2>1, PageIsPresent
  <1>8. Side(Drop(B, {p}), a) = C /\ Side(Drop(A, {p}), b) = D
    <2> HIDE DEF a, b
    <2> QED
      BY <1>2, <1>7 DEF Side, Edited
  <1> HIDE DEF C, D
  <1>9. Paged(B, I, V) /\ Paged(C, I, V) /\ Paged(D, I, V)
    BY <1>3, <1>4, <1>6, PagedAlike
  <1>10. World(A) /\ World(B) /\ World(C) /\ World(D)
    <2>1. TopLevel \notin BlockIds
      BY DEF BlockIds, TopLevel
    <2> QED
      BY <1>9, <2>1, PagedMore DEF World
  <1>11. /\ DOMAIN C = DOMAIN A /\ C[p] = A[p]
         /\ \A q \in DOMAIN A : q # p => C[q] = B[q]
         /\ DOMAIN D = DOMAIN A /\ D[p] = B[p]
         /\ \A q \in DOMAIN A : q # p => D[q] = A[q]
    BY <1>1, <1>2, <1>5 DEF IsEdited
  <1>12. ASSUME NEW q \in DOMAIN A
         PROVE  LET es == A[q].entries
                IN  /\ Retexted(es, texts, "before") = es
                    /\ Retexted(Retexted(es, texts, "after"), texts, "before") = es
                    /\ Retexted(Retexted(es, texts, "after"), texts, "after")
                          = Retexted(es, texts, "after")
    <2> DEFINE es == A[q].entries
    <2>1. es \in Seq(Entry(I, Seq(STRING), V))
      BY PagedIs, OutlinedIs
    <2>2. \A i \in 1 .. Len(es) : es[i].id \in DOMAIN texts => texts[es[i].id]["before"] = es[i].text
      BY DEF TextsOf
    <2> HIDE DEF es
    <2>3. Retexted(es, texts, "before") = es
      BY <2>1, <2>2, RetextedSame
    <2>4. /\ Retexted(Retexted(es, texts, "after"), texts, "before") = Retexted(es, texts, "before")
          /\ Retexted(Retexted(es, texts, "after"), texts, "after") = Retexted(es, texts, "after")
      BY <2>1, RetextedTwice
    <2> QED
      BY <2>3, <2>4 DEF es
  <1>13. IsRetext(A, C, texts, "before")
    <2>1. \A q \in DOMAIN A : A[q].page = C[q].page
      BY <1>2, <1>11
    <2>2. \A q \in DOMAIN A : A[q].entries = Retexted(C[q].entries, texts, "before")
      BY <1>2, <1>11, <1>12
    <2> QED
      BY <1>11, <2>1, <2>2 DEF IsRetext
  <1>14. IsRetext(B, D, texts, "after")
    <2>1. \A q \in DOMAIN A : B[q].page = D[q].page
      BY <1>2, <1>11
    <2>2. \A q \in DOMAIN A : B[q].entries = Retexted(D[q].entries, texts, "after")
      BY <1>2, <1>11, <1>12
    <2> QED
      BY <1>1, <1>11, <2>1, <2>2 DEF IsRetext
  <1>15. DOMAIN texts \subseteq EntriesOf(C) /\ DOMAIN texts \subseteq EntriesOf(D)
    <2>1. EntriesOf(C) = EntriesOf(A) /\ EntriesOf(D) = EntriesOf(A)
      BY <1>4 DEF EntriesOf, Alike
    <2> QED
      BY <2>1 DEF TextsOf
  <1> HIDE DEF a, b
  <1>16. Reached(B, p, a, texts, "before", A)
    BY <1>1, <1>2, <1>8, <1>10, <1>13, <1>15 DEF Reached
  <1>17. Reached(A, p, b, texts, "after", B)
    BY <1>2, <1>8, <1>10, <1>14, <1>15 DEF Reached
  <1>18. Links(<<"named", p>>, PageAction(a, b, texts), A, B)
    BY <1>10, <1>16, <1>17, NamedLinks
  <1> QED
    BY <1>9, <1>18 DEF a, b

\* What the writes of a rename leave: the texts are those of w, the Page is r's.
RenameWrote(t, w, s, o, r) ==
    /\ IsStore(t) /\ SameOrder(w, t) /\ SameOrder(s, t) /\ t.revision = s.revision
    /\ IsOver(t.blocks, [b \in {r.id} |-> r.page], w.blocks)
    /\ IsOver(t.pages, [k \in {PageKey(r.page)} |-> r.id],
              Restrict(s.pages, DOMAIN s.pages \ {PageKey(o.page)}))

\* The writes of renamePage, in its order.
LEMMA RenameWrites ==
    ASSUME NEW s, IsStore(s), NEW o, NEW r, NEW texts
    PROVE  RenameWrote(IndexPage(WritePage(WriteTexts(UnindexPage(s, o), texts, "after"), r), r),
                       WriteTexts(s, texts, "after"), s, o, r)
  <1> DEFINE w == WriteTexts(s, texts, "after")
             u == UnindexPage(s, o)
             v == WriteTexts(u, texts, "after")
             x == WritePage(v, r)
             t == IndexPage(x, r)
             cut == Restrict(s.pages, DOMAIN s.pages \ {PageKey(o.page)})
             block == [b \in {r.id} |-> r.page]
             key == [k \in {PageKey(r.page)} |-> r.id]
  <1>1. IsBlocked(w, s, Over(TextBlocks(s, texts, "after"), s.blocks))
    BY WritingBlocks
  <1>2. IsIndexed(u, s, cut)
    BY Indexing
  <1>3. IsStore(u)
    BY <1>2 DEF IsIndexed
  <1>4. IsBlocked(v, u, Over(TextBlocks(u, texts, "after"), u.blocks))
    <2> HIDE DEF u
    <2> QED
      BY <1>3, WritingBlocks
  <1>5. IsBlocked(x, v, Over(block, v.blocks))
    <2>1. IsStore(v)
      BY <1>4 DEF IsBlocked
    <2> HIDE DEF v
    <2> QED
      BY <2>1, WritingBlocks
  <1>6. IsIndexed(t, x, Over(key, x.pages))
    <2>1. IsStore(x)
      BY <1>5 DEF IsBlocked
    <2> HIDE DEF x
    <2> QED
      BY <2>1, Indexing
  <1> HIDE DEF w, u, v, x, t, cut, block, key
  <1>7. v.blocks = w.blocks
    <2>1. TextBlocks(u, texts, "after") = TextBlocks(s, texts, "after")
      BY <1>2 DEF TextBlocks, IsIndexed
    <2> QED
      BY <1>1, <1>2, <1>4, <2>1 DEF IsBlocked, IsIndexed
  <1>8. IsOver(t.blocks, block, w.blocks) /\ IsOver(t.pages, key, cut)
    <2>1. t.blocks = Over(block, w.blocks)
      BY <1>5, <1>6, <1>7 DEF IsBlocked, IsIndexed
    <2>2. t.pages = Over(key, cut)
      BY <1>2, <1>4, <1>5, <1>6 DEF IsBlocked, IsIndexed, SameButBlocks
    <2> QED
      BY <2>1, <2>2, OverIs
  <1>9. /\ IsStore(t) /\ SameOrder(w, t) /\ SameOrder(s, t) /\ t.revision = s.revision
    BY <1>1, <1>2, <1>4, <1>5, <1>6 DEF IsBlocked, IsIndexed, SameButBlocks, SameOrder
  <1>10. RenameWrote(t, w, s, o, r)
    BY <1>8, <1>9 DEF RenameWrote, cut, block, key
  <1> QED
    BY <1>10 DEF w, t, u, v, x

\* A rename leads to the renamed Pages.
LEMMA RenamedStore ==
    ASSUME NEW s, NEW A, NEW I, NEW V, Paged(A, I, V), Holds(s, A), NEW p \in DOMAIN A,
           NEW g \in PageBlocks, g.updated \in V,
           \A q \in DOMAIN A : q # p => PageKey(A[q].page) # PageKey(g),
           NEW texts, TextsOf(A, texts), NEW B, B = RenamedPages(A, p, g, texts),
           NEW o, o = A[p], NEW r, r.id = p, r.page = g
    PROVE  Brings(IndexPage(WritePage(WriteTexts(UnindexPage(s, o), texts, "after"), r), r), s, B)
  <1> DEFINE w == WriteTexts(s, texts, "after")
             t == IndexPage(WritePage(WriteTexts(UnindexPage(s, o), texts, "after"), r), r)
             h == A[p].page
             T == RenamedPages(A, p, h, texts)
  <1>1. IsStore(s) /\ BlocksAre(s, A) /\ PlacesAre(s, A) /\ KeysAre(s, A)
    BY DEF Holds
  <1>2. /\ IsStore(t) /\ SameOrder(w, t) /\ SameOrder(s, t) /\ t.revision = s.revision
        /\ IsOver(t.blocks, [b \in {r.id} |-> r.page], w.blocks)
        /\ IsOver(t.pages, [k \in {PageKey(r.page)} |-> r.id],
                  Restrict(s.pages, DOMAIN s.pages \ {PageKey(o.page)}))
    <2>1. RenameWrote(t, w, s, o, r)
      BY <1>1, RenameWrites
    <2> HIDE DEF t, w
    <2> QED
      BY <2>1 DEF RenameWrote
  <1>3. /\ \A q \in DOMAIN A : q # p => PageKey(A[q].page) # PageKey(h)
        /\ h \in PageBlocks /\ h.updated \in V
    <2>1. Outlined(A[p], p, I, V)
      BY PagedIs
    <2> QED
      BY <2>1 DEF Paged, Separate, Outlined
  <1> HIDE DEF t, w
  <1>4. Paged(T, I, V) /\ Paged(B, I, V)
    <2>1. DOMAIN A \subseteq I
      BY DEF Paged
    <2> HIDE DEF h
    <2>2. Alike(T, A, I, V) /\ Alike(B, A, I, V)
      BY <1>3, RenamedAlike
    <2> HIDE DEF T
    <2> QED
      BY <2>1, <2>2, PagedAlike
  <1>5. /\ DOMAIN T = DOMAIN A /\ DOMAIN B = DOMAIN A
        /\ \A q \in DOMAIN A : /\ T[q].entries = Retexted(A[q].entries, texts, "after")
                               /\ T[q].page = A[q].page /\ T[q].id = q /\ B[q].id = q
                               /\ B[q].entries = T[q].entries
                               /\ B[q].page = IF q = p THEN g ELSE A[q].page
    BY DEF RenamedPages
  <1> HIDE DEF T, h
  <1>6. Brings(w, s, T)
    <2>1. IsRetext(T, A, texts, "after")
      BY <1>5 DEF IsRetext
    <2>2. DOMAIN texts \subseteq EntriesOf(A)
      BY DEF TextsOf
    <2> QED
      BY <1>4, <2>1, <2>2, WroteTexts DEF w
  <1>7. EntriesOf(B) = EntriesOf(T)
    BY <1>5 DEF EntriesOf
  <1>8. PlacesAre(t, B)
    <2>1. PlacesAre(t, T)
      BY <1>2, <1>6, PlacesKept DEF Brings, Holds
    <2>2. ASSUME NEW q \in DOMAIN B
          PROVE  Placements(B[q]) = Placements(T[q])
      <3> DEFINE b == B[q]
                 c == T[q]
      <3>1. b.id = c.id /\ b.entries = c.entries
        BY <1>5
      <3> HIDE DEF b, c
      <3>2. Placements(b) = Placements(c)
        BY <3>1 DEF Placements
      <3> QED
        BY <3>2 DEF b, c
    <2> QED
      BY <1>5, <1>7, <2>1, <2>2 DEF PlacesAre
  <1>9. BlocksAre(t, B)
    <2>1. /\ DOMAIN w.blocks = DOMAIN T \cup EntriesOf(T)
          /\ \A q \in DOMAIN T : Shows(w, T[q])
      BY <1>4, <1>6, BlocksShown DEF Brings, Holds
    <2>2. /\ DOMAIN t.blocks = DOMAIN w.blocks \cup {p} /\ t.blocks[p] = g
          /\ \A b \in DOMAIN w.blocks : b # p => t.blocks[b] = w.blocks[b]
      BY <1>2 DEF IsOver
    <2>3. ASSUME NEW q \in DOMAIN B
          PROVE  Shows(t, B[q])
      <3>1. q \in DOMAIN T /\ Shows(w, T[q]) /\ q \in DOMAIN w.blocks
        BY <1>5, <2>1
      <3>2. t.blocks[q] = B[q].page
        BY <1>5, <2>2, <3>1 DEF Shows
      <3> DEFINE es == T[q].entries
      <3>3. /\ DOMAIN es = 1 .. Len(es) /\ Len(es) \in Nat
            /\ Ids(es) = {es[i].id : i \in 1 .. Len(es)}
        <4>1. Outlined(T[q], q, I, V)
          BY <1>4, <3>1 DEF Paged
        <4> QED
          BY <4>1, OutlinedIs
      <3>4. \A b \in Ids(es) : b # p /\ b \in DOMAIN w.blocks
        <4>1. \A b \in Ids(es) : b # p /\ b \in EntriesOf(T)
          BY <1>4, <1>5, <3>1, PagedIs
        <4> QED
          BY <2>1, <4>1
      <3>5. \A i \in DOMAIN es : w.blocks[es[i].id] = EntryBlock(es[i])
        BY <3>1 DEF Shows, ShowsEntries
      <3>6. B[q].entries = es /\ B[q].id = q
        BY <1>5, <3>1
      <3> HIDE DEF es
      <3>7. \A i \in DOMAIN es : t.blocks[es[i].id] = EntryBlock(es[i])
        BY <2>2, <3>3, <3>4, <3>5
      <3> QED
        BY <3>2, <3>6, <3>7 DEF Shows, ShowsEntries
    <2>4. DOMAIN t.blocks = DOMAIN B \cup EntriesOf(B)
      BY <1>5, <1>7, <2>1, <2>2
    <2> QED
      BY <1>4, <2>3, <2>4, BlocksShown
  <1>10. KeysAre(t, B)
    <2> DEFINE old == PageKey(o.page)
               new == PageKey(g)
               cut == Restrict(s.pages, DOMAIN s.pages \ {old})
    <2>1. IsCut(cut, s.pages, DOMAIN s.pages \ {old})
      BY CutIs
    <2> HIDE DEF cut
    <2>2. /\ DOMAIN t.pages = {new} \cup (DOMAIN s.pages \ {old}) /\ t.pages[new] = p
          /\ \A k \in DOMAIN s.pages : k # old /\ k # new => t.pages[k] = s.pages[k]
      BY <1>2, <2>1 DEF IsOver, IsCut, cut
    <2>3. /\ \A q \in DOMAIN A : PageKey(A[q].page) \in DOMAIN s.pages
          /\ \A k \in DOMAIN s.pages : \E q \in DOMAIN A : k = PageKey(A[q].page)
          /\ \A q \in DOMAIN A : s.pages[PageKey(A[q].page)] = q
      BY <1>1 DEF KeysAre
    <2>4. \A q \in DOMAIN A : q # p => PageKey(A[q].page) # old /\ PageKey(A[q].page) # new
      BY <1>3 DEF h
    <2>5. old = PageKey(A[p].page)
      OBVIOUS
    <2> HIDE DEF old, new
    <2>6. \A q \in DOMAIN A : PageKey(B[q].page) = IF q = p THEN new ELSE PageKey(A[q].page)
      BY <1>5 DEF new
    <2>7. \A q \in DOMAIN A : t.pages[PageKey(B[q].page)] = q
      BY <2>2, <2>3, <2>4, <2>6
    <2>8. ASSUME NEW k
          PROVE  k \in DOMAIN t.pages <=> \E q \in DOMAIN A : k = PageKey(B[q].page)
      <3>1. ASSUME k \in DOMAIN t.pages
            PROVE  \E q \in DOMAIN A : k = PageKey(B[q].page)
        BY <2>2, <2>3, <2>5, <2>6, <3>1
      <3>2. ASSUME NEW q \in DOMAIN A, k = PageKey(B[q].page)
            PROVE  k \in DOMAIN t.pages
        BY <2>2, <2>3, <2>4, <2>6, <3>2
      <3> QED
        BY <3>1, <3>2
    <2>9. DOMAIN t.pages = {PageKey(B[q].page) : q \in DOMAIN A}
      BY <2>8
    <2> QED
      BY <1>5, <2>7, <2>9 DEF KeysAre
  <1>11. Brings(t, s, B)
    BY <1>2, <1>8, <1>9, <1>10 DEF Brings, Holds
  <1> QED
    BY <1>11 DEF t

\* A text with other names in it.
LEMMA RenamedIs ==
    ASSUME NEW text \in Seq(STRING), NEW old, NEW new \in STRING
    PROVE  Renamed(text, old, new) \in Seq(STRING) /\ (old = new => Renamed(text, old, new) = text)
  <1> DEFINE n == Len(text)
             at == {i \in Mentions(text) : text[i] = old}
             r == Renamed(text, old, new)
  <1>1. n \in Nat /\ DOMAIN text = 1 .. n /\ text = [i \in 1 .. n |-> text[i]]
    OBVIOUS
  <1>2. \A i \in 1 .. n : text[i] \in STRING
    OBVIOUS
  <1>3. \A i \in at : text[i] = old
    OBVIOUS
  <1> HIDE DEF at
  <1>4. r = [i \in 1 .. n |-> IF i \in at THEN new ELSE text[i]]
    BY <1>1 DEF Renamed, at
  <1> HIDE DEF r, n
  <1>5. r \in [1 .. n -> STRING]
    BY <1>2, <1>4
  <1>6. r \in Seq(STRING)
    BY <1>1, <1>5, SeqDef
  <1>7. old = new => r = text
    BY <1>1, <1>3, <1>4
  <1> QED
    BY <1>6, <1>7 DEF r

\* What the rename reads of the entries.
LEMMA ChangesAre ==
    ASSUME NEW A, Held(A), NEW old, NEW name \in Names
    PROVE  /\ TextsOf(A, TextChanges(store, old, name))
           /\ old = name => DOMAIN TextChanges(store, old, name) = {}
  <1> DEFINE texts == TextChanges(store, old, name)
             now == [e \in EntryIds(store) |-> Renamed(store.blocks[e].text, old, name)]
  <1>1. /\ Paged(A, 1 .. issued, 0 .. clock) /\ BlocksAre(store, A)
    BY DEF Held, Holds
  <1>2. EntryIds(store) = EntriesOf(A)
    BY <1>1, HeldKinds
  <1>3. name \in STRING
    BY TextsAssumption
  <1>4. ASSUME NEW q \in DOMAIN A, NEW i \in 1 .. Len(A[q].entries)
        PROVE  /\ store.blocks[A[q].entries[i].id].text = A[q].entries[i].text
               /\ A[q].entries[i].text \in Seq(STRING)
    <2> DEFINE es == A[q].entries
    <2>1. Outlined(A[q], q, 1 .. issued, 0 .. clock)
      BY <1>1, PagedIs
    <2>2. DOMAIN es = 1 .. Len(es) /\ es[i] \in Entry(1 .. issued, Seq(STRING), 0 .. clock)
      BY <2>1, OutlinedIs
    <2>3. store.blocks[es[i].id] = EntryBlock(es[i])
      BY <1>1, <2>2 DEF BlocksAre
    <2> HIDE DEF es
    <2>4. store.blocks[es[i].id].text = es[i].text /\ es[i].text \in Seq(STRING)
      BY <2>2, <2>3 DEF EntryBlock, Entry
    <2> QED
      BY <2>4 DEF es
  <1>5. ASSUME NEW b \in EntriesOf(A)
        PROVE  store.blocks[b].text \in Seq(STRING)
    <2>1. PICK q \in DOMAIN A : b \in Ids(A[q].entries)
      BY <1>1, PagedIs
    <2>2. Outlined(A[q], q, 1 .. issued, 0 .. clock)
      BY <1>1, PagedIs
    <2>3. PICK i \in 1 .. Len(A[q].entries) : b = A[q].entries[i].id
      BY <2>1, <2>2, OutlinedIs
    <2> QED
      BY <1>4, <2>3
  <1>6. /\ DOMAIN texts = {b \in EntryIds(store) : now[b] # store.blocks[b].text}
        /\ \A e \in DOMAIN texts :
              texts[e] = [before |-> store.blocks[e].text, after |-> now[e]]
    BY DEF TextChanges, Changed
  <1>7. \A b \in EntriesOf(A) : now[b] = Renamed(store.blocks[b].text, old, name)
    BY <1>2
  <1> HIDE DEF texts, now
  <1>8. \A b \in EntriesOf(A) : /\ now[b] \in Seq(STRING)
                                /\ old = name => now[b] = store.blocks[b].text
    BY <1>3, <1>5, <1>7, RenamedIs
  <1>9. DOMAIN texts \subseteq EntriesOf(A) /\ (old = name => DOMAIN texts = {})
    BY <1>2, <1>6, <1>8
  <1>10. \A e \in DOMAIN texts : /\ texts[e]["before"] = store.blocks[e].text
                                 /\ texts[e]["after"] = now[e]
    <2>1. ASSUME NEW x, NEW y
          PROVE  [before |-> x, after |-> y]["before"] = x /\ [before |-> x, after |-> y]["after"] = y
      OBVIOUS
    <2>2. ASSUME NEW e \in DOMAIN texts
          PROVE  texts[e]["before"] = store.blocks[e].text /\ texts[e]["after"] = now[e]
      <3> DEFINE x == store.blocks[e].text
                 y == now[e]
                 z == texts[e]
      <3>1. z = [before |-> x, after |-> y]
        BY <1>6
      <3> HIDE DEF x, y, z
      <3>2. z["before"] = x /\ z["after"] = y
        BY <2>1, <3>1
      <3> QED
        BY <3>2 DEF x, y, z
    <2> QED
      BY <2>2
  <1>11. \A b \in DOMAIN texts : texts[b]["before"] \in Seq(STRING) /\ texts[b]["after"] \in Seq(STRING)
    BY <1>5, <1>8, <1>9, <1>10
  <1>12. \A q \in DOMAIN A : \A i \in 1 .. Len(A[q].entries) :
            A[q].entries[i].id \in DOMAIN texts =>
                texts[A[q].entries[i].id]["before"] = A[q].entries[i].text
    BY <1>4, <1>10
  <1>13. TextsOf(A, texts)
    BY <1>9, <1>11, <1>12 DEF TextsOf
  <1> QED
    BY <1>9, <1>13 DEF texts

\* A rename leaves every entry where it is, with its time.
LEMMA RenamedRemade ==
    ASSUME NEW A, NEW I, NEW U, Paged(A, I, U), NEW p \in DOMAIN A, NEW g, NEW texts, NEW now,
           NEW B, B = RenamedPages(A, p, g, texts)
    PROVE  Remade(A, B, now)
  <1>1. DOMAIN B = DOMAIN A
    BY DEF RenamedPages
  <1>2. ASSUME NEW q \in DOMAIN A
        PROVE  /\ InPlaces(A[q].entries, B[q].entries) /\ Timed(A[q].entries, B[q].entries, p)
               /\ DOMAIN B[q].entries = 1 .. Len(B[q].entries)
               /\ q # p => B[q].page = A[q].page
    <2> DEFINE es == A[q].entries
               rs == Retexted(es, texts, "after")
    <2>1. B[q].entries = rs /\ (q # p => B[q].page = A[q].page)
      BY DEF RenamedPages
    <2>2. Outlined(A[q], q, I, U)
      BY PagedIs
    <2>3. es \in Seq(Entry(I, Seq(STRING), U)) /\ Len(es) \in Nat /\ DOMAIN es = 1 .. Len(es)
      BY <2>2, OutlinedIs
    <2> HIDE DEF es
    <2>4. rs = [i \in 1 .. Len(es) |-> rs[i]]
      BY <2>3 DEF Retexted
    <2>5. /\ DOMAIN rs = 1 .. Len(es)
          /\ \A i \in 1 .. Len(es) : /\ rs[i].id = es[i].id /\ rs[i].parent = es[i].parent
                                     /\ rs[i].updated = es[i].updated
      BY <2>3, RetextedIs
    <2> HIDE DEF rs
    <2>6. Len(rs) = Len(es)
      <3> DEFINE S == {rs[i] : i \in 1 .. Len(es)}
      <3>1. rs \in [1 .. Len(es) -> S]
        BY <2>4
      <3> HIDE DEF S
      <3>2. rs \in Seq(S)
        BY <2>3, <3>1, SeqDef
      <3> QED
        BY <2>3, <2>5, <3>2, LenProperties
    <2>7. InPlaces(es, rs) /\ Timed(es, rs, p) /\ DOMAIN rs = 1 .. Len(rs)
      BY <2>5, <2>6 DEF InPlaces, Timed
    <2> QED
      BY <2>1, <2>7 DEF es
  <1> QED
    BY <1>1, <1>2, InPlacesRemade

\* A Named Page is renamed.
LEMMA RenamePageRecords ==
    ASSUME NEW A, Held(A), NEW now \in Nat, clock <= now, NEW p \in NamedPages(store),
           NEW name \in Names, RenamePage(p, name, now)
    PROVE  Recording(A) \/ Repeating(A)
  <1> DEFINE o == A[p]
             old == o.page.key
             g == PageBlock("named", name, now)
             texts == TextChanges(store, old, name)
             r == [o EXCEPT !.page = g]
             s == IndexPage(WritePage(WriteTexts(UnindexPage(store, o), texts, "after"), r), r)
             B == RenamedPages(A, p, g, texts)
             V == 0 .. now
  <1>1. /\ issued \in 0 .. MaxIds /\ clock \in Nat /\ Paged(A, 1 .. issued, 0 .. clock)
        /\ Holds(store, A)
    BY DEF Held
  <1>2. World(A)
    BY <1>1, WorldIs
  <1>3. p \in DOMAIN A /\ o.page.kind = "named" /\ store.blocks[p] = o.page
    BY <1>1, HeldKinds DEF Holds, NamedPages
  <1>4. LoadOutline(store, p) = o
    BY <1>1, <1>2, <1>3, LoadedIs DEF World
  <1>5. /\ name # old => <<"named", name>> \notin DOMAIN store.pages
        /\ CommitRename(p, o, LoadOutline(s, p), s, texts)
        /\ clock' = now /\ issued' = issued
    BY <1>3, <1>4 DEF RenamePage, RewriteMentions
  <1>6. TextsOf(A, texts) /\ (old = name => DOMAIN texts = {})
    BY ChangesAre
  <1>7. /\ 1 .. issued \subseteq BlockIds /\ V \subseteq Nat /\ 0 .. clock \subseteq V
        /\ TopLevel \notin 1 .. issued
    BY <1>1, BoundsIs
  <1>8. Paged(A, 1 .. issued, V)
    <2>1. 1 .. issued \subseteq 1 .. issued
      OBVIOUS
    <2> HIDE DEF V
    <2> QED
      BY <1>1, <1>7, <2>1, PagedMore
  <1>9. g \in PageBlocks /\ g.updated \in V /\ PageKey(g) = <<"named", name>> /\ g.key = name
    BY DEF PageBlock, PageBlocks, PageKey
  <1>10. \A q \in DOMAIN A : q # p => PageKey(A[q].page) # PageKey(g)
    <2>1. \A q \in DOMAIN A : q # p => PageKey(A[q].page) # PageKey(A[p].page)
      BY <1>3, <1>8 DEF Paged, Separate
    <2>2. \A q \in DOMAIN A : PageKey(A[q].page) \in DOMAIN store.pages
      BY <1>1 DEF Holds, KeysAre
    <2>3. name = old => PageKey(A[p].page) = <<"named", name>>
      BY <1>3 DEF PageKey
    <2> QED
      BY <1>5, <1>9, <2>1, <2>2, <2>3
  <1>11. r.id = p /\ r.page = g
    <2>1. Outlined(o, p, 1 .. issued, V)
      BY <1>3, <1>8, PagedIs
    <2> HIDE DEF o, g
    <2> QED
      BY <2>1 DEF Outlined
  <1> HIDE DEF texts, g, r, V
  <1>12. Brings(s, store, B)
    BY <1>1, <1>3, <1>6, <1>8, <1>9, <1>10, <1>11, RenamedStore
  <1> DEFINE b == B[p]
  <1>13. Paged(B, 1 .. issued, V) /\ Links(<<"named", p>>, PageAction(o, b, texts), A, B)
    BY <1>3, <1>6, <1>7, <1>8, <1>9, <1>10, RenameLinks
  <1> HIDE DEF s
  <1>14. LoadOutline(s, p) = b
    <2>1. World(B)
      <3>1. Paged(B, 1 .. issued, 0 .. now)
        BY <1>13 DEF V
      <3> HIDE DEF B
      <3> QED
        BY <1>1, <3>1, WorldIs
    <2>2. p \in DOMAIN B /\ Holds(s, B)
      BY <1>3, <1>12 DEF Brings, RenamedPages
    <2> HIDE DEF B
    <2> QED
      BY <2>1, <2>2, LoadedIs DEF World
  <1>15. /\ issued' \in issued .. MaxIds /\ clock' \in Nat /\ clock <= clock'
         /\ Paged(B, 1 .. issued', 0 .. clock') /\ Remade(A, B, clock')
    <2>1. Remade(A, B, now)
      BY <1>1, <1>3, RenamedRemade
    <2> HIDE DEF B
    <2> QED
      BY <1>1, <1>5, <1>13, <2>1, MaxIdsAssumption DEF V
  <1>16. <<"named", p>> \in HistoryTracks
    <2>1. p \in BlockIds
      BY <1>2, <1>3, PagedIs DEF World
    <2> QED
      BY <2>1 DEF HistoryTracks
  <1>17. CASE o # b
    <2>1. CommitAndRecord(s, <<"named", p>>, PageAction(o, b, texts))
      BY <1>5, <1>14, <1>17 DEF CommitRename
    <2> HIDE DEF B, b, o
    <2>2. Recording(A)
      BY <1>12, <1>13, <1>15, <1>16, <2>1 DEF Recording
    <2> QED
      BY <2>2
  <1>18. CASE o = b
    <2>1. Commit(s) /\ UNCHANGED history
      BY <1>5, <1>14, <1>18 DEF CommitRename
    <2>2. o.page = g
      BY <1>3, <1>18 DEF RenamedPages
    <2>3. DOMAIN texts = {}
      BY <1>6, <1>9, <2>2
    <2>4. B = A
      <3>1. ASSUME NEW q \in DOMAIN A
            PROVE  B[q] = A[q]
        <4> DEFINE es == A[q].entries
                   h == A[q].page
        <4>1. Outlined(A[q], q, 1 .. issued, V)
          BY <1>8, PagedIs
        <4>2. es \in Seq(Entry(1 .. issued, Seq(STRING), V))
          BY <4>1, OutlinedIs
        <4>3. A[q] = [id |-> q, page |-> h, entries |-> es]
          BY <4>1 DEF Outlined
        <4>4. B[q] = [id |-> q, page |-> IF q = p THEN g ELSE h,
                      entries |-> Retexted(es, texts, "after")]
          BY DEF RenamedPages
        <4>5. q = p => h = g
          BY <2>2
        <4> HIDE DEF es, h, B
        <4>6. Retexted(es, texts, "after") = es
          BY <2>3, <4>2, RetextedSame
        <4> QED
          BY <4>3, <4>4, <4>5, <4>6
      <3>2. A = [q \in DOMAIN A |-> A[q]] /\ B = [q \in DOMAIN A |-> B[q]]
        BY <1>8 DEF Paged, RenamedPages
      <3> HIDE DEF B
      <3> QED
        BY <3>1, <3>2
    <2>5. Brings(s, store, A)
      BY <1>12, <2>4
    <2>6. Repeating(A)
      BY <1>5, <1>15, <2>1, <2>5 DEF Repeating
    <2> QED
      BY <2>6
  <1> QED
    BY <1>17, <1>18

-----------------------------------------------------------------------------
\* A subtree that moves to another Page.

\* One side of a move between two Pages: p is o, and q is d or is not there.
Half(R, p, q, o, d) ==
    /\ IsMap(R) /\ p # q /\ p \notin DOMAIN R /\ q \notin DOMAIN R
    /\ o.id = p /\ (d = Absent \/ d.id = q)
    /\ World(Side(Put(R, o), d))

\* What that says of the Pages, one by one.
Halved(R, p, q, o, d) ==
    /\ World(R) /\ World(Put(R, o)) /\ IsMap(Put(R, o)) /\ Joins(Put(R, o), R, o)
    /\ Fits(R, o) /\ Outlined(o, p, BlockIds, Nat) /\ q \notin DOMAIN Put(R, o)
    /\ d # Absent => /\ Fits(Put(R, o), d) /\ Outlined(d, q, BlockIds, Nat)
                     /\ World(Put(Put(R, o), d)) /\ Joins(Put(Put(R, o), d), Put(R, o), d)
    /\ d = Absent => Ids(d.entries) = {}

\* The Pages without the two, with the one, and with both, are Pages as they can be.
LEMMA HalfIs ==
    ASSUME NEW R, NEW p, NEW q, NEW o, NEW d, Half(R, p, q, o, d)
    PROVE  Halved(R, p, q, o, d)
  <1> DEFINE B == Put(R, o)
  <1>1. /\ IsMap(R) /\ p # q /\ o.id = p /\ o.id \notin DOMAIN R /\ q \notin DOMAIN R
        /\ (d = Absent \/ d.id = q) /\ World(Side(B, d))
    BY DEF Half
  <1>2. Joins(B, R, o)
    BY <1>1, PutIs
  <1>3. IsMap(B) /\ q \notin DOMAIN B
    BY <1>1, <1>2 DEF Joins
  <1>4. ASSUME World(B)
        PROVE  World(R) /\ Fits(R, o) /\ Outlined(o, p, BlockIds, Nat)
    <2>1. Paged(Put(R, o), BlockIds, Nat)
      BY <1>4 DEF World
    <2>2. Paged(R, BlockIds, Nat) /\ Outlined(o, o.id, BlockIds, Nat) /\ Fits(R, o)
      BY <1>1, <2>1, FitsPut
    <2> QED
      BY <1>1, <2>2 DEF World
  <1>5. CASE d = Absent
    <2>1. World(B)
      BY <1>1, <1>5 DEF Side
    <2>2. Ids(d.entries) = {}
      BY <1>5 DEF Absent, Ids
    <2> QED
      BY <1>2, <1>3, <1>4, <1>5, <2>1, <2>2 DEF Halved
  <1>6. CASE d # Absent
    <2>1. World(Put(B, d)) /\ d.id = q /\ d.id \notin DOMAIN B
      BY <1>1, <1>3, <1>6 DEF Side
    <2> HIDE DEF B
    <2>2. Paged(Put(B, d), BlockIds, Nat)
      BY <2>1 DEF World
    <2>3. Paged(B, BlockIds, Nat) /\ Outlined(d, d.id, BlockIds, Nat) /\ Fits(B, d)
      BY <1>3, <2>1, <2>2, FitsPut
    <2>4. Joins(Put(B, d), B, d)
      BY <2>1, PutIs
    <2>5. World(B) /\ Outlined(d, q, BlockIds, Nat)
      BY <2>1, <2>3 DEF World
    <2>6. World(R) /\ Fits(R, o) /\ Outlined(o, p, BlockIds, Nat)
      BY <1>4, <2>5
    <2> QED
      BY <1>2, <1>3, <1>6, <2>1, <2>3, <2>4, <2>5, <2>6 DEF Halved, B
  <1> QED
    BY <1>5, <1>6

\* The Blocks, the places and the keys of one side.
Laid(Y, R, p, q, o, d) ==
    /\ Y = Side(Put(R, o), d) /\ World(Y) /\ IsMap(Y)
    /\ DOMAIN Y = DOMAIN R \cup {p} \cup (IF d = Absent THEN {} ELSE {q})
    /\ EntriesOf(Y) = EntriesOf(R) \cup Ids(o.entries) \cup Ids(d.entries)
    /\ Y[p] = o /\ (d # Absent => Y[q] = d) /\ \A r \in DOMAIN R : Y[r] = R[r]
    /\ p \notin EntriesOf(Y) /\ (d # Absent => q \notin EntriesOf(Y))
    /\ DOMAIN R \cap EntriesOf(Y) = {}
    /\ Ids(o.entries) \cap EntriesOf(R) = {} /\ Ids(d.entries) \cap EntriesOf(R) = {}
    /\ Ids(o.entries) \cap Ids(d.entries) = {}

\* Where the Pages and the entries of one side are.
LEMMA HalfLaid ==
    ASSUME NEW R, NEW p, NEW q, NEW o, NEW d, Half(R, p, q, o, d)
    PROVE  Laid(Side(Put(R, o), d), R, p, q, o, d)
  <1> DEFINE B == Put(R, o)
             Y == Side(B, d)
  <1>1. /\ IsMap(R) /\ p # q /\ o.id = p /\ p \notin DOMAIN R /\ q \notin DOMAIN R
        /\ (d = Absent \/ d.id = q) /\ World(Y)
    BY DEF Half
  <1>2. Halved(R, p, q, o, d)
    BY HalfIs
  <1>3. Joins(B, R, o) /\ Fits(R, o) /\ q \notin DOMAIN B
    BY <1>2 DEF Halved
  <1>4. /\ DOMAIN B = DOMAIN R \cup {p} /\ B[p] = o /\ \A r \in DOMAIN R : B[r] = R[r]
        /\ EntriesOf(B) = EntriesOf(R) \cup Ids(o.entries) /\ IsMap(B)
        /\ Ids(o.entries) \cap EntriesOf(R) = {}
    BY <1>1, <1>3 DEF Joins, Fits
  <1>5. World(Y) /\ DOMAIN Y \cap EntriesOf(Y) = {}
    BY <1>1 DEF World, Paged
  <1>6. CASE d = Absent
    <2>1. Y = B /\ Ids(d.entries) = {}
      BY <1>2, <1>6 DEF Side, Halved
    <2> HIDE DEF Y, B
    <2>2. DOMAIN Y = DOMAIN R \cup {p} \cup (IF d = Absent THEN {} ELSE {q})
      BY <1>4, <1>6, <2>1
    <2>3. EntriesOf(Y) = EntriesOf(R) \cup Ids(o.entries) \cup Ids(d.entries)
      BY <1>4, <2>1
    <2> QED
      BY <1>4, <1>5, <1>6, <2>1, <2>2, <2>3 DEF Laid, Y, B
  <1>7. CASE d # Absent
    <2>1. Y = Put(B, d) /\ Fits(B, d) /\ Joins(Put(B, d), B, d) /\ d.id = q
      BY <1>1, <1>2, <1>7 DEF Side, Halved
    <2> HIDE DEF Y, B
    <2>2. /\ DOMAIN Y = DOMAIN B \cup {q} /\ Y[q] = d /\ \A r \in DOMAIN B : Y[r] = B[r]
          /\ EntriesOf(Y) = EntriesOf(B) \cup Ids(d.entries) /\ IsMap(Y)
          /\ Ids(d.entries) \cap EntriesOf(B) = {}
      BY <2>1 DEF Joins, Fits
    <2>3. DOMAIN Y = DOMAIN R \cup {p} \cup (IF d = Absent THEN {} ELSE {q})
      BY <1>4, <1>7, <2>2
    <2>4. EntriesOf(Y) = EntriesOf(R) \cup Ids(o.entries) \cup Ids(d.entries)
      BY <1>4, <2>2
    <2>5. /\ Y[p] = o /\ \A r \in DOMAIN R : Y[r] = R[r]
      BY <1>4, <2>2
    <2>6. /\ Ids(d.entries) \cap EntriesOf(R) = {} /\ Ids(o.entries) \cap Ids(d.entries) = {}
      BY <1>4, <2>2
    <2>7. p \in DOMAIN Y /\ q \in DOMAIN Y /\ DOMAIN R \subseteq DOMAIN Y
      BY <1>4, <2>2
    <2>8. p \notin EntriesOf(Y) /\ q \notin EntriesOf(Y) /\ DOMAIN R \cap EntriesOf(Y) = {}
      BY <1>5, <2>7
    <2>9. Y = Side(Put(R, o), d)
      BY DEF Y, B
    <2> QED
      BY <1>4, <1>5, <2>2, <2>3, <2>4, <2>5, <2>6, <2>8, <2>9 DEF Laid
  <1> QED
    BY <1>6, <1>7 DEF Y, B

\* A subtree moves between the Pages p and q, or back: who was on one of them still is.
Crossing(R, p, q, fs, fd, ts, td) ==
    /\ Half(R, p, q, fs, fd) /\ Half(R, p, q, ts, td)
    /\ PageKey(fs.page) = PageKey(ts.page)
    /\ fd # Absent \/ td # Absent
    /\ fd # Absent /\ td # Absent => PageKey(fd.page) = PageKey(td.page)
    /\ Ids(fs.entries) \cup Ids(fd.entries) = Ids(ts.entries) \cup Ids(td.entries)

\* Both Pages have been written, and no other.
CrossWrote(t, s, q, o, d) ==
    /\ Shows(t, o) /\ (d # Absent => Shows(t, d))
    /\ DOMAIN t.blocks = (DOMAIN s.blocks \ {q}) \cup {o.id} \cup Ids(o.entries)
                             \cup (IF d = Absent THEN {} ELSE {q} \cup Ids(d.entries))
    /\ \A b \in DOMAIN s.blocks \ ({o.id, q} \cup Ids(o.entries) \cup Ids(d.entries)) :
          t.blocks[b] = s.blocks[b]

\* Once both Pages are written, the store has the Blocks of the Pages after the move.
LEMMA CrossBlocksAre ==
    ASSUME NEW R, NEW p, NEW q, NEW fs, NEW fd, NEW ts, NEW td, Crossing(R, p, q, fs, fd, ts, td),
           NEW s, BlocksAre(s, Side(Put(R, fs), fd)), NEW t, CrossWrote(t, s, q, ts, td)
    PROVE  BlocksAre(t, Side(Put(R, ts), td))
  <1> DEFINE X == Side(Put(R, fs), fd)
             Y == Side(Put(R, ts), td)
  <1>1. /\ Half(R, p, q, fs, fd) /\ Half(R, p, q, ts, td)
        /\ (fd # Absent \/ td # Absent)
        /\ Ids(fs.entries) \cup Ids(fd.entries) = Ids(ts.entries) \cup Ids(td.entries)
    BY DEF Crossing
  <1>2. p # q /\ p \notin DOMAIN R /\ q \notin DOMAIN R /\ ts.id = p
    BY <1>1 DEF Half
  <1>3. Laid(X, R, p, q, fs, fd)
    BY <1>1, HalfLaid
  <1>4. Laid(Y, R, p, q, ts, td)
    BY <1>1, HalfLaid
  <1>5. BlocksAre(s, X)
    OBVIOUS
  <1> HIDE DEF X, Y
  <1>6. Paged(X, BlockIds, Nat) /\ Paged(Y, BlockIds, Nat)
    BY <1>3, <1>4 DEF Laid, World
  <1>7. DOMAIN s.blocks = DOMAIN X \cup EntriesOf(X) /\ \A r \in DOMAIN X : Shows(s, X[r])
    BY <1>5, <1>6, BlocksShown
  <1>8. /\ DOMAIN X = DOMAIN R \cup {p} \cup (IF fd = Absent THEN {} ELSE {q})
        /\ EntriesOf(X) = EntriesOf(R) \cup Ids(fs.entries) \cup Ids(fd.entries)
        /\ \A r \in DOMAIN R : X[r] = R[r]
        /\ (fd # Absent => q \notin EntriesOf(X))
    BY <1>3 DEF Laid
  <1>9. /\ DOMAIN Y = DOMAIN R \cup {p} \cup (IF td = Absent THEN {} ELSE {q})
        /\ EntriesOf(Y) = EntriesOf(R) \cup Ids(ts.entries) \cup Ids(td.entries)
        /\ Y[p] = ts /\ (td # Absent => Y[q] = td) /\ (\A r \in DOMAIN R : Y[r] = R[r])
        /\ p \notin EntriesOf(Y) /\ (td # Absent => q \notin EntriesOf(Y))
        /\ DOMAIN R \cap EntriesOf(Y) = {}
        /\ Ids(ts.entries) \cap EntriesOf(R) = {} /\ Ids(td.entries) \cap EntriesOf(R) = {}
    BY <1>4 DEF Laid
  <1>10. EntriesOf(X) = EntriesOf(Y)
    BY <1>1, <1>8, <1>9
  <1>11. q \notin EntriesOf(Y)
    BY <1>1, <1>8, <1>9, <1>10
  <1>12. /\ Shows(t, ts) /\ (td # Absent => Shows(t, td))
         /\ DOMAIN t.blocks = (DOMAIN s.blocks \ {q}) \cup {p} \cup Ids(ts.entries)
                             \cup (IF td = Absent THEN {} ELSE {q} \cup Ids(td.entries))
         /\ \A b \in DOMAIN s.blocks \ ({p, q} \cup Ids(ts.entries) \cup Ids(td.entries)) :
               t.blocks[b] = s.blocks[b]
    BY <1>2 DEF CrossWrote
  <1>13. DOMAIN s.blocks \ {q} = DOMAIN R \cup {p} \cup EntriesOf(Y)
    <2>1. DOMAIN s.blocks = DOMAIN R \cup {p} \cup (IF fd = Absent THEN {} ELSE {q}) \cup EntriesOf(Y)
      BY <1>7, <1>8, <1>10
    <2> QED
      BY <1>2, <1>11, <2>1
  <1>14. DOMAIN t.blocks = DOMAIN Y \cup EntriesOf(Y)
    <2>1. CASE td = Absent
      BY <1>9, <1>12, <1>13, <2>1
    <2>2. CASE td # Absent
      BY <1>9, <1>12, <1>13, <2>2
    <2> QED
      BY <2>1, <2>2
  <1>15. ASSUME NEW r \in DOMAIN R
         PROVE  Shows(t, Y[r])
    <2>1. Y[r] = R[r] /\ X[r] = R[r] /\ r \in DOMAIN X /\ r \in DOMAIN Y
      BY <1>8, <1>9
    <2>2. Shows(s, R[r])
      BY <1>7, <2>1
    <2>3. R[r].id = r
      <3>1. Outlined(R[r], r, BlockIds, Nat)
        BY <1>6, <2>1, PagedIs
      <3> QED
        BY <3>1, OutlinedIs
    <2>4. Ids(R[r].entries) \subseteq EntriesOf(R)
      BY DEF EntriesOf
    <2>5. t.blocks[r] = s.blocks[r]
      BY <1>2, <1>9, <1>12, <1>13
    <2>6. ASSUME NEW b \in Ids(R[r].entries)
          PROVE  t.blocks[b] = s.blocks[b]
      <3>1. b \in EntriesOf(R) /\ b \in EntriesOf(Y)
        BY <1>9, <2>4
      <3>2. b # p /\ b # q /\ b \notin Ids(ts.entries) /\ b \notin Ids(td.entries)
        BY <1>9, <1>11, <3>1
      <3> QED
        BY <1>12, <1>13, <3>1, <3>2
    <2>7. Shows(t, R[r])
      BY <2>2, <2>3, <2>5, <2>6, ShowsKept
    <2> QED
      BY <2>1, <2>7
  <1>16. \A r \in DOMAIN Y : Shows(t, Y[r])
    <2>1. CASE td = Absent
      BY <1>9, <1>12, <1>15, <2>1
    <2>2. CASE td # Absent
      BY <1>9, <1>12, <1>15, <2>2
    <2> QED
      BY <2>1, <2>2
  <1>17. BlocksAre(t, Y)
    BY <1>6, <1>14, <1>16, BlocksShown
  <1> QED
    BY <1>17 DEF Y

\* What becomes of the index of keys: a Page enters it, leaves it, or neither.
CrossIndexed(t, s, fd, td) ==
    t.pages = IF td = Absent THEN Restrict(s.pages, DOMAIN s.pages \ {PageKey(fd.page)})
              ELSE IF fd = Absent THEN Over([k \in {PageKey(td.page)} |-> td.id], s.pages)
              ELSE s.pages

\* Once both keys are, it finds them as it should.
LEMMA CrossKeysAre ==
    ASSUME NEW R, NEW p, NEW q, NEW fs, NEW fd, NEW ts, NEW td, Crossing(R, p, q, fs, fd, ts, td),
           NEW s, KeysAre(s, Side(Put(R, fs), fd)), NEW t, CrossIndexed(t, s, fd, td)
    PROVE  KeysAre(t, Side(Put(R, ts), td))
  <1> DEFINE X == Side(Put(R, fs), fd)
             Y == Side(Put(R, ts), td)
             C == Put(R, ts)
             B == Put(R, fs)
  <1>1. /\ Half(R, p, q, fs, fd) /\ Half(R, p, q, ts, td)
        /\ PageKey(fs.page) = PageKey(ts.page) /\ (fd # Absent \/ td # Absent)
        /\ (fd # Absent /\ td # Absent => PageKey(fd.page) = PageKey(td.page))
    BY DEF Crossing
  <1>2. /\ p # q /\ p \notin DOMAIN R /\ q \notin DOMAIN R /\ (fd = Absent \/ fd.id = q)
        /\ (td = Absent \/ td.id = q)
    BY <1>1 DEF Half
  <1>3. Laid(X, R, p, q, fs, fd)
    BY <1>1, HalfLaid
  <1>4. Laid(Y, R, p, q, ts, td)
    BY <1>1, HalfLaid
  <1>5. Halved(R, p, q, fs, fd)
    BY <1>1, HalfIs
  <1>6. Halved(R, p, q, ts, td)
    BY <1>1, HalfIs
  <1>7. /\ DOMAIN B = DOMAIN R \cup {p} /\ B[p] = fs /\ (\A r \in DOMAIN R : B[r] = R[r])
        /\ IsMap(B) /\ q \notin DOMAIN B
    <2>1. fs.id = p
      BY <1>1 DEF Half
    <2> QED
      BY <1>5, <2>1 DEF Halved, Joins
  <1>8. /\ DOMAIN C = DOMAIN R \cup {p} /\ C[p] = ts /\ (\A r \in DOMAIN R : C[r] = R[r])
        /\ IsMap(C) /\ q \notin DOMAIN C
    <2>1. ts.id = p
      BY <1>1 DEF Half
    <2> QED
      BY <1>6, <2>1 DEF Halved, Joins
  <1>9. KeysAre(s, X) /\ X = Side(B, fd) /\ Y = Side(C, td)
    OBVIOUS
  <1> HIDE DEF X, Y, B, C
  <1>10. DOMAIN C = DOMAIN B /\ \A r \in DOMAIN B : PageKey(C[r].page) = PageKey(B[r].page)
    BY <1>1, <1>7, <1>8
  <1>11. CASE td = Absent
    <2>1. fd # Absent /\ fd.id = q /\ Y = C /\ X = Put(B, fd) /\ q \in DOMAIN X /\ X[q] = fd
      <3>1. fd # Absent /\ fd.id = q
        BY <1>1, <1>2, <1>11
      <3>2. q \in DOMAIN X /\ X[q] = fd
        BY <1>3, <3>1 DEF Laid
      <3> QED
        BY <1>9, <1>11, <3>1, <3>2 DEF Side
    <2>2. Paged(X, BlockIds, Nat)
      BY <1>3 DEF Laid, World
    <2>3. t.pages = Restrict(s.pages, DOMAIN s.pages \ {PageKey(X[q].page)})
      BY <1>11, <2>1 DEF CrossIndexed
    <2>4. KeysAre(t, Drop(X, {q}))
      BY <1>9, <2>1, <2>2, <2>3, KeysDropped
    <2>5. Drop(X, {q}) = B
      BY <1>7, <2>1, DropPut
    <2>6. KeysAre(t, B) /\ t.pages = t.pages
      BY <2>4, <2>5
    <2>7. KeysAre(t, C)
      BY <1>10, <2>6, KeysKept
    <2> QED
      BY <2>1, <2>7 DEF Y
  <1>12. CASE td # Absent /\ fd = Absent
    <2>1. X = B /\ Y = Put(C, td) /\ Fits(C, td)
      BY <1>6, <1>9, <1>12 DEF Side, Halved, C
    <2>2. KeysAre(s, B) /\ s.pages = s.pages
      BY <1>9, <2>1
    <2>3. KeysAre(s, C)
      BY <1>10, <2>2, KeysKept
    <2>4. t.pages = Over([k \in {PageKey(td.page)} |-> td.id], s.pages)
      BY <1>12 DEF CrossIndexed
    <2>5. KeysAre(t, Put(C, td))
      BY <2>1, <2>3, <2>4, KeysPut
    <2> QED
      BY <2>1, <2>5 DEF Y
  <1>13. CASE td # Absent /\ fd # Absent
    <2>1. t.pages = s.pages /\ PageKey(fd.page) = PageKey(td.page)
      BY <1>1, <1>13 DEF CrossIndexed
    <2>2. /\ DOMAIN X = DOMAIN R \cup {p, q} /\ X[p] = fs /\ X[q] = fd /\ \A r \in DOMAIN R : X[r] = R[r]
      BY <1>3, <1>13 DEF Laid
    <2>3. /\ DOMAIN Y = DOMAIN R \cup {p, q} /\ Y[p] = ts /\ Y[q] = td /\ \A r \in DOMAIN R : Y[r] = R[r]
      BY <1>4, <1>13 DEF Laid
    <2>4. DOMAIN Y = DOMAIN X /\ \A r \in DOMAIN X : PageKey(Y[r].page) = PageKey(X[r].page)
      BY <1>1, <2>1, <2>2, <2>3
    <2>5. KeysAre(t, Y)
      BY <1>9, <2>1, <2>4, KeysKept
    <2> QED
      BY <2>5 DEF Y
  <1> QED
    BY <1>11, <1>12, <1>13

\* The ordering of both Pages is erased.
LEMMA CrossErasing ==
    ASSUME NEW R, NEW p, NEW q, NEW fs, NEW fd, Half(R, p, q, fs, fd),
           NEW s, IsStore(s), PlacesAre(s, Side(Put(R, fs), fd)),
           NEW ids, ids = Ids(fs.entries) \cup Ids(fd.entries)
    PROVE  /\ CanEraseContainment(s, ids)
           /\ PlacesAre(EraseContainment(s, ids), R)
  <1> DEFINE X == Side(Put(R, fs), fd)
             P == IF fd = Absent THEN {p} ELSE {p, q}
  <1>1. Laid(X, R, p, q, fs, fd) /\ Halved(R, p, q, fs, fd)
    BY HalfLaid, HalfIs
  <1>2. p \notin DOMAIN R /\ q \notin DOMAIN R /\ IsMap(R)
    BY DEF Half
  <1>3. PlacesAre(s, X)
    OBVIOUS
  <1> HIDE DEF X
  <1>4. /\ Paged(X, BlockIds, Nat) /\ X[p] = fs /\ (fd # Absent => X[q] = fd)
        /\ DOMAIN X = DOMAIN R \cup {p} \cup (IF fd = Absent THEN {} ELSE {q})
        /\ \A r \in DOMAIN R : X[r] = R[r]
    BY <1>1 DEF Laid, World
  <1>5. P \in SUBSET DOMAIN X
    BY <1>4
  <1>6. ids = UNION {Ids(X[r].entries) : r \in P}
    <2>1. CASE fd = Absent
      <3>1. P = {p} /\ Ids(fd.entries) = {}
        BY <1>1, <2>1 DEF Halved
      <3> QED
        BY <1>4, <3>1
    <2>2. CASE fd # Absent
      <3>1. P = {p, q} /\ X[p] = fs /\ X[q] = fd
        BY <1>4, <2>2
      <3> HIDE DEF P
      <3> QED
        BY <3>1
    <2> QED
      BY <2>1, <2>2
  <1>7. DOMAIN X \ P = DOMAIN R
    BY <1>2, <1>4
  <1> HIDE DEF P
  <1>8. Drop(X, P) = R
    BY <1>2, <1>4, <1>7 DEF Drop, IsMap
  <1>9. CanEraseContainment(s, ids) /\ PlacesAre(EraseContainment(s, ids), Drop(X, P))
    BY <1>3, <1>4, <1>5, <1>6, PlacesErased
  <1> QED
    BY <1>8, <1>9

\* The Blocks of both Pages are there, those of their entries may still be missing.
CrossPaged(g, s, p, q, fd, ts, td) ==
    /\ IsStore(g) /\ SameOrder(s, g) /\ g.revision = s.revision
    /\ CrossIndexed(g, s, fd, td)
    /\ g.blocks[p] = ts.page /\ (td # Absent => g.blocks[q] = td.page)
    /\ DOMAIN g.blocks = (DOMAIN s.blocks \ {q}) \cup {p} \cup (IF td = Absent THEN {} ELSE {q})
    /\ \A b \in DOMAIN s.blocks \ {p, q} : g.blocks[b] = s.blocks[b]

\* The Page that the entry left, the Page it went to, and the key of a Page that comes
\* or goes.
LEMMA CrossPagesIs ==
    ASSUME NEW s, IsStore(s), NEW p, NEW q, p # q, NEW fd, NEW ts, NEW td, ts.id = p,
           fd = Absent \/ fd.id = q, td = Absent \/ td.id = q, fd # Absent \/ td # Absent,
           td # Absent \/ q \in DOMAIN s.blocks, fd # Absent \/ q \notin DOMAIN s.blocks
    PROVE  CrossPaged(CrossPages(s, fd, ts, td), s, p, q, fd, ts, td)
  <1> DEFINE u == WritePage(s, ts)
             g == CrossPages(s, fd, ts, td)
  <1>1. PageWritten(u, s, ts)
    BY WritingPage
  <1>2. g = IF td = Absent THEN UnindexPage(DeleteBlocks(u, {fd.id}), fd)
            ELSE IF fd = Absent THEN IndexPage(WritePage(u, td), td) ELSE WritePage(u, td)
    BY DEF CrossPages
  <1> HIDE DEF u, g
  <1>3. /\ IsStore(u) /\ SameOrder(s, u) /\ u.pages = s.pages /\ u.revision = s.revision
        /\ u.blocks[p] = ts.page /\ DOMAIN u.blocks = DOMAIN s.blocks \cup {p}
        /\ \A b \in DOMAIN s.blocks \ {p} : u.blocks[b] = s.blocks[b]
    BY <1>1 DEF PageWritten, SameButBlocks
  <1>4. ASSUME td = Absent
        PROVE  CrossPaged(g, s, p, q, fd, ts, td)
    <2> DEFINE v == DeleteBlocks(u, {q})
    <2>1. IsStore(v) /\ SameButBlocks(u, v) /\ IsCut(v.blocks, u.blocks, DOMAIN u.blocks \ {q})
      BY <1>3, DeletingBlocks
    <2>2. g = UnindexPage(v, fd) /\ fd # Absent
      BY <1>2, <1>4
    <2> HIDE DEF v
    <2>3. IsIndexed(UnindexPage(v, fd), v, Restrict(v.pages, DOMAIN v.pages \ {PageKey(fd.page)}))
      BY <2>1, Indexing
    <2>4. /\ IsStore(g) /\ SameOrder(v, g) /\ g.blocks = v.blocks /\ g.revision = v.revision
          /\ g.pages = Restrict(v.pages, DOMAIN v.pages \ {PageKey(fd.page)})
      BY <2>2, <2>3 DEF IsIndexed
    <2>5. v.pages = s.pages /\ v.revision = s.revision /\ SameOrder(s, v)
      BY <1>3, <2>1 DEF SameButBlocks, SameOrder
    <2>6. DOMAIN v.blocks = DOMAIN u.blocks \ {q} /\ \A b \in DOMAIN u.blocks \ {q} : v.blocks[b] = u.blocks[b]
      BY <2>1 DEF IsCut
    <2>7. CrossIndexed(g, s, fd, td)
      BY <1>4, <2>4, <2>5 DEF CrossIndexed
    <2>8. SameOrder(s, g) /\ g.revision = s.revision
      BY <2>4, <2>5 DEF SameOrder
    <2>9. DOMAIN g.blocks = (DOMAIN s.blocks \ {q}) \cup {p} \cup (IF td = Absent THEN {} ELSE {q})
      BY <1>3, <1>4, <2>4, <2>6
    <2>10. g.blocks[p] = ts.page /\ \A b \in DOMAIN s.blocks \ {p, q} : g.blocks[b] = s.blocks[b]
      BY <1>3, <2>4, <2>6
    <2> QED
      BY <1>4, <2>4, <2>7, <2>8, <2>9, <2>10 DEF CrossPaged
  <1>5. ASSUME td # Absent
        PROVE  CrossPaged(g, s, p, q, fd, ts, td)
    <2> DEFINE v == WritePage(u, td)
    <2>1. PageWritten(v, u, td) /\ td.id = q
      BY <1>3, <1>5, WritingPage
    <2>2. g = IF fd = Absent THEN IndexPage(v, td) ELSE v
      BY <1>2, <1>5
    <2> HIDE DEF v
    <2>3. /\ IsStore(v) /\ SameOrder(u, v) /\ v.pages = s.pages /\ v.revision = s.revision
          /\ v.blocks[q] = td.page /\ DOMAIN v.blocks = DOMAIN u.blocks \cup {q}
          /\ \A b \in DOMAIN u.blocks \ {q} : v.blocks[b] = u.blocks[b]
      BY <1>3, <2>1 DEF PageWritten, SameButBlocks
    <2>4. IsIndexed(IndexPage(v, td), v, Over([k \in {PageKey(td.page)} |-> td.id], v.pages))
      BY <2>3, Indexing
    <2>5. /\ IsStore(g) /\ SameOrder(v, g) /\ g.blocks = v.blocks /\ g.revision = v.revision
          /\ CrossIndexed(g, s, fd, td)
      <3>1. CASE fd = Absent
        BY <1>5, <2>2, <2>3, <2>4, <3>1 DEF IsIndexed, CrossIndexed
      <3>2. CASE fd # Absent
        BY <1>5, <2>2, <2>3, <3>2 DEF SameOrder, CrossIndexed
      <3> QED
        BY <3>1, <3>2
    <2>6. SameOrder(s, g) /\ g.revision = s.revision
      BY <1>3, <2>3, <2>5 DEF SameOrder
    <2>7. DOMAIN g.blocks = (DOMAIN s.blocks \ {q}) \cup {p} \cup (IF td = Absent THEN {} ELSE {q})
      BY <1>3, <1>5, <2>3, <2>5
    <2>8. /\ g.blocks[p] = ts.page /\ g.blocks[q] = td.page
          /\ \A b \in DOMAIN s.blocks \ {p, q} : g.blocks[b] = s.blocks[b]
      BY <1>3, <2>3, <2>5
    <2> QED
      BY <1>5, <2>5, <2>6, <2>7, <2>8 DEF CrossPaged
  <1> QED
    BY <1>4, <1>5 DEF g

\* The Blocks of the entries of one outline.
Wrote(v, g, o) ==
    /\ ShowsEntries(v, o) /\ DOMAIN v.blocks = DOMAIN g.blocks \cup Ids(o.entries)
    /\ \A b \in DOMAIN g.blocks \ Ids(o.entries) : v.blocks[b] = g.blocks[b]

\* With the entries of both, both Pages have been written.
LEMMA CrossWritten ==
    ASSUME NEW R, NEW p, NEW q, NEW ts, NEW td, Half(R, p, q, ts, td),
           NEW s, NEW fd, NEW g, CrossPaged(g, s, p, q, fd, ts, td), NEW v, Wrote(v, g, ts),
           NEW x, IF td = Absent THEN x.blocks = v.blocks ELSE Wrote(x, v, td)
    PROVE  CrossWrote(x, s, q, ts, td)
  <1> DEFINE Y == Side(Put(R, ts), td)
  <1>1. Laid(Y, R, p, q, ts, td) /\ Halved(R, p, q, ts, td)
    BY HalfLaid, HalfIs
  <1>2. p # q /\ ts.id = p /\ (td = Absent \/ td.id = q)
    BY DEF Half
  <1> HIDE DEF Y
  <1>3. /\ Ids(ts.entries) \cap Ids(td.entries) = {} /\ p \notin EntriesOf(Y)
        /\ (td # Absent => q \notin EntriesOf(Y)) /\ (td = Absent => Ids(td.entries) = {})
        /\ Ids(ts.entries) \subseteq EntriesOf(Y) /\ Ids(td.entries) \subseteq EntriesOf(Y)
    BY <1>1 DEF Laid, Halved
  <1>4. /\ g.blocks[p] = ts.page /\ (td # Absent => g.blocks[q] = td.page)
        /\ DOMAIN g.blocks = (DOMAIN s.blocks \ {q}) \cup {p} \cup (IF td = Absent THEN {} ELSE {q})
        /\ \A b \in DOMAIN s.blocks \ {p, q} : g.blocks[b] = s.blocks[b]
    BY DEF CrossPaged
  <1>5. /\ ShowsEntries(v, ts) /\ DOMAIN v.blocks = DOMAIN g.blocks \cup Ids(ts.entries)
        /\ \A b \in DOMAIN g.blocks \ Ids(ts.entries) : v.blocks[b] = g.blocks[b]
    BY DEF Wrote
  <1>6. v.blocks[p] = ts.page
    BY <1>3, <1>4, <1>5
  <1>7. CASE td = Absent
    <2>1. x.blocks = v.blocks
      BY <1>7
    <2>2. Shows(x, ts)
      BY <1>2, <1>5, <1>6, <2>1 DEF Shows, ShowsEntries
    <2>3. DOMAIN x.blocks = (DOMAIN s.blocks \ {q}) \cup {ts.id} \cup Ids(ts.entries)
                             \cup (IF td = Absent THEN {} ELSE {q} \cup Ids(td.entries))
      BY <1>2, <1>4, <1>5, <1>7, <2>1
    <2>4. \A b \in DOMAIN s.blocks \ ({ts.id, q} \cup Ids(ts.entries) \cup Ids(td.entries)) :
             x.blocks[b] = s.blocks[b]
      BY <1>2, <1>4, <1>5, <2>1
    <2> QED
      BY <1>7, <2>2, <2>3, <2>4 DEF CrossWrote
  <1>8. CASE td # Absent
    <2>1. /\ ShowsEntries(x, td) /\ DOMAIN x.blocks = DOMAIN v.blocks \cup Ids(td.entries)
          /\ \A b \in DOMAIN v.blocks \ Ids(td.entries) : x.blocks[b] = v.blocks[b]
      BY <1>8 DEF Wrote
    <2>2. p \in DOMAIN v.blocks /\ q \in DOMAIN v.blocks /\ v.blocks[q] = td.page
      BY <1>2, <1>3, <1>4, <1>5, <1>8
    <2>3. x.blocks[p] = ts.page /\ x.blocks[q] = td.page
      BY <1>3, <1>6, <1>8, <2>1, <2>2
    <2>4. \A b \in Ids(ts.entries) : x.blocks[b] = v.blocks[b]
      BY <1>3, <1>5, <2>1
    <2>5. Shows(v, ts)
      BY <1>2, <1>5, <1>6 DEF Shows
    <2>6. Shows(x, ts)
      <3>1. x.blocks[ts.id] = v.blocks[ts.id]
        BY <1>2, <1>6, <2>3
      <3> QED
        BY <2>4, <2>5, <3>1, ShowsKept
    <2>7. Shows(x, td)
      BY <1>2, <1>8, <2>1, <2>3 DEF Shows
    <2>8. DOMAIN x.blocks = (DOMAIN s.blocks \ {q}) \cup {ts.id} \cup Ids(ts.entries)
                             \cup (IF td = Absent THEN {} ELSE {q} \cup Ids(td.entries))
      BY <1>2, <1>4, <1>5, <1>8, <2>1
    <2>9. \A b \in DOMAIN s.blocks \ ({ts.id, q} \cup Ids(ts.entries) \cup Ids(td.entries)) :
             x.blocks[b] = s.blocks[b]
      BY <1>2, <1>4, <1>5, <1>8, <2>1
    <2> QED
      BY <2>6, <2>7, <2>8, <2>9 DEF CrossWrote
  <1> QED
    BY <1>7, <1>8

\* The new ordering of the one Page, and of the other.
Ordered(t, w, B) == IsStore(t) /\ SameRest(w, t) /\ PlacesAre(t, B)

\* rewriteContainment for the one Page, and then for the other, never meets a taken key.
LEMMA CrossOrdered ==
    ASSUME NEW R, NEW p, NEW q, NEW o, NEW d, Half(R, p, q, o, d),
           NEW s, NEW w, IsStore(w), SameOrder(s, w)
    PROVE  /\ PlacesAre(s, R) => /\ CanWriteContainment(w, o)
                                 /\ Ordered(WriteContainment(w, o), w, Put(R, o))
           /\ d # Absent /\ PlacesAre(s, Put(R, o)) =>
                 /\ CanWriteContainment(w, d)
                 /\ Ordered(WriteContainment(w, d), w, Side(Put(R, o), d))
  <1> DEFINE B == Put(R, o)
  <1>1. Halved(R, p, q, o, d)
    BY HalfIs
  <1>2. IsMap(R) /\ o.id = p /\ o.id \notin DOMAIN R /\ (d = Absent \/ d.id = q)
    BY DEF Half
  <1>3. Paged(B, BlockIds, Nat) /\ IsMap(B) /\ q \notin DOMAIN B
    BY <1>1 DEF Halved, World
  <1>4. ASSUME PlacesAre(s, R)
        PROVE  CanWriteContainment(w, o) /\ Ordered(WriteContainment(w, o), w, B)
    BY <1>2, <1>3, <1>4, OrderWritten DEF Ordered
  <1>5. ASSUME d # Absent, PlacesAre(s, B)
        PROVE  CanWriteContainment(w, d) /\ Ordered(WriteContainment(w, d), w, Side(B, d))
    <2>1. Paged(Put(B, d), BlockIds, Nat) /\ d.id \notin DOMAIN B
      BY <1>1, <1>2, <1>3, <1>5 DEF Halved, World
    <2> HIDE DEF B
    <2>2. CanWriteContainment(w, d) /\ Ordered(WriteContainment(w, d), w, Put(B, d))
      BY <1>3, <1>5, <2>1, OrderWritten DEF Ordered
    <2> QED
      BY <1>5, <2>2 DEF Side
  <1> QED
    BY <1>4, <1>5

\* What there is when both Pages have been written.
LEMMA CrossHeld ==
    ASSUME NEW R, NEW p, NEW q, NEW fs, NEW fd, NEW ts, NEW td, Crossing(R, p, q, fs, fd, ts, td),
           NEW s, Holds(s, Side(Put(R, fs), fd)),
           NEW t, IsStore(t), PlacesAre(t, Side(Put(R, ts), td)), t.revision = s.revision,
           CrossIndexed(t, s, fd, td), CrossWrote(t, s, q, ts, td)
    PROVE  Brings(t, s, Side(Put(R, ts), td))
  <1>1. BlocksAre(s, Side(Put(R, fs), fd)) /\ KeysAre(s, Side(Put(R, fs), fd))
    BY DEF Holds
  <1>2. BlocksAre(t, Side(Put(R, ts), td))
    BY <1>1, CrossBlocksAre
  <1>3. KeysAre(t, Side(Put(R, ts), td))
    BY <1>1, CrossKeysAre
  <1> QED
    BY <1>2, <1>3 DEF Brings, Holds

\* Writing the entries of an outline.
LEMMA WroteEntries ==
    ASSUME NEW g, IsStore(g), NEW o, NEW p, Outlined(o, p, BlockIds, Nat), o.id = p
    PROVE  /\ Wrote(WriteEntries(g, o), g, o) /\ IsStore(WriteEntries(g, o))
           /\ SameButBlocks(g, WriteEntries(g, o))
  <1>1. EntriesWritten(WriteEntries(g, o), g, o)
    BY WritingEntries
  <1> QED
    BY <1>1 DEF EntriesWritten, Wrote

\* applyCrossPageHistory leads from the one side to the other.
LEMMA CrossApplied ==
    ASSUME NEW R, NEW p, NEW q, NEW fs, NEW fd, NEW ts, NEW td, Crossing(R, p, q, fs, fd, ts, td),
           NEW s, Holds(s, Side(Put(R, fs), fd))
    PROVE  /\ CanApplyCross(s, fs, fd, ts, td)
           /\ Brings(ApplyCross(s, fs, fd, ts, td), s, Side(Put(R, ts), td))
  <1> DEFINE X == Side(Put(R, fs), fd)
             Y == Side(Put(R, ts), td)
             ids == Ids(fs.entries) \cup Ids(fd.entries)
             e == CrossErased(s, fs, fd)
             g == CrossPages(e, fd, ts, td)
             v == WriteEntries(g, ts)
             w == WriteContainment(v, ts)
             x == WriteEntries(w, td)
             t == ApplyCross(s, fs, fd, ts, td)
  <1>1. /\ Half(R, p, q, fs, fd) /\ Half(R, p, q, ts, td)
        /\ (fd # Absent \/ td # Absent)
        /\ ids = Ids(ts.entries) \cup Ids(td.entries)
    BY DEF Crossing
  <1>2. p # q /\ ts.id = p /\ (fd = Absent \/ fd.id = q) /\ (td = Absent \/ td.id = q)
        /\ q \notin DOMAIN R
    BY <1>1 DEF Half
  <1>3. IsStore(s) /\ BlocksAre(s, X) /\ PlacesAre(s, X) /\ KeysAre(s, X)
    BY DEF Holds
  <1>4. Laid(X, R, p, q, fs, fd)
    BY <1>1, HalfLaid
  <1>5. Halved(R, p, q, ts, td)
    BY <1>1, HalfIs
  <1>6. e = EraseContainment(s, ids)
    BY DEF CrossErased
  <1>7. CanEraseContainment(s, ids) /\ PlacesAre(EraseContainment(s, ids), R)
    BY <1>1, <1>3, CrossErasing
  <1>8. t = IF td = Absent THEN w ELSE WriteContainment(x, td)
    BY DEF ApplyCross
  <1>9. IsErased(EraseContainment(s, ids), s, ids)
    BY <1>3, Erasing
  <1> HIDE DEF e, g, v, w, x, t, X, Y
  <1>10. /\ IsStore(e) /\ PlacesAre(e, R) /\ e.blocks = s.blocks /\ e.pages = s.pages
         /\ e.revision = s.revision
    BY <1>6, <1>7, <1>9 DEF IsErased, SameRest
  <1>11. (td # Absent \/ q \in DOMAIN e.blocks) /\ (fd # Absent \/ q \notin DOMAIN e.blocks)
    <2>1. DOMAIN s.blocks = DOMAIN X \cup EntriesOf(X)
      BY <1>3 DEF BlocksAre
    <2>2. CASE fd # Absent
      BY <1>4, <1>10, <2>1, <2>2 DEF Laid
    <2>3. CASE fd = Absent
      <3>1. td # Absent /\ q \notin DOMAIN X
        BY <1>1, <1>2, <1>4, <2>3 DEF Laid
      <3>2. q \notin EntriesOf(X)
        <4>1. Laid(Side(Put(R, ts), td), R, p, q, ts, td)
          BY <1>1, HalfLaid
        <4>2. q \notin EntriesOf(Side(Put(R, ts), td))
          BY <3>1, <4>1 DEF Laid
        <4> QED
          BY <1>1, <1>4, <4>1, <4>2 DEF Laid
      <3> QED
        BY <1>10, <2>1, <3>1, <3>2
    <2> QED
      BY <2>2, <2>3
  <1>12. CrossPaged(CrossPages(e, fd, ts, td), e, p, q, fd, ts, td)
    BY <1>1, <1>2, <1>10, <1>11, CrossPagesIs
  <1>13. CrossPaged(g, e, p, q, fd, ts, td)
    BY <1>12 DEF g
  <1>14. IsStore(g) /\ SameOrder(e, g) /\ g.revision = s.revision /\ CrossIndexed(g, e, fd, td)
    BY <1>10, <1>13 DEF CrossPaged
  <1>15. Wrote(WriteEntries(g, ts), g, ts) /\ IsStore(WriteEntries(g, ts))
         /\ SameButBlocks(g, WriteEntries(g, ts))
    BY <1>2, <1>5, <1>14, WroteEntries DEF Halved
  <1>16. /\ Wrote(v, g, ts) /\ IsStore(v) /\ SameOrder(e, v) /\ v.pages = g.pages
         /\ v.revision = s.revision
    BY <1>14, <1>15 DEF SameButBlocks, SameOrder, v
  <1>17. Ordered(WriteContainment(v, ts), v, Put(R, ts))
    BY <1>1, <1>10, <1>16, CrossOrdered
  <1>18. IsStore(w) /\ SameRest(v, w) /\ PlacesAre(w, Put(R, ts))
    BY <1>17 DEF Ordered, w
  <1>19. Brings(t, s, Y)
    <2>1. CASE td = Absent
      <3>1. t = w /\ Y = Put(R, ts)
        BY <1>8, <2>1 DEF Y, Side
      <3>2. w.blocks = v.blocks /\ w.pages = g.pages /\ w.revision = s.revision
        BY <1>16, <1>18 DEF SameRest
      <3>3. IF td = Absent THEN w.blocks = v.blocks ELSE Wrote(w, v, td)
        BY <2>1, <3>2
      <3>4. CrossWrote(w, e, q, ts, td)
        BY <1>1, <1>13, <1>16, <3>3, CrossWritten
      <3>5. CrossWrote(w, s, q, ts, td) /\ CrossIndexed(w, s, fd, td)
        BY <1>10, <1>14, <3>2, <3>4 DEF CrossWrote, CrossIndexed
      <3>6. PlacesAre(w, Side(Put(R, ts), td)) /\ Holds(s, Side(Put(R, fs), fd))
        BY <1>18, <2>1 DEF Side
      <3>7. Brings(w, s, Side(Put(R, ts), td))
        BY <1>18, <3>2, <3>5, <3>6, CrossHeld
      <3> QED
        BY <3>1, <3>7 DEF Y
    <2>2. CASE td # Absent
      <3>1. Outlined(td, q, BlockIds, Nat) /\ td.id = q
        BY <1>2, <1>5, <2>2 DEF Halved
      <3>2. Wrote(WriteEntries(w, td), w, td) /\ IsStore(WriteEntries(w, td))
            /\ SameButBlocks(w, WriteEntries(w, td))
        BY <1>18, <3>1, WroteEntries
      <3>3. /\ Wrote(x, w, td) /\ IsStore(x) /\ SameOrder(w, x) /\ x.pages = w.pages
            /\ x.revision = w.revision
        BY <3>2 DEF SameButBlocks, x
      <3>4. w.blocks = v.blocks /\ w.pages = g.pages /\ w.revision = s.revision
        BY <1>16, <1>18 DEF SameRest
      <3>5. Ordered(WriteContainment(x, td), x, Side(Put(R, ts), td))
        BY <1>1, <1>18, <2>2, <3>3, CrossOrdered
      <3>6. IsStore(t) /\ SameRest(x, t) /\ PlacesAre(t, Side(Put(R, ts), td))
        BY <1>8, <2>2, <3>5 DEF Ordered
      <3>7. t.blocks = x.blocks /\ t.pages = g.pages /\ t.revision = s.revision
        BY <3>3, <3>4, <3>6 DEF SameRest
      <3>8. Wrote(t, v, td)
        BY <3>3, <3>4, <3>7 DEF Wrote, ShowsEntries
      <3>9. IF td = Absent THEN t.blocks = v.blocks ELSE Wrote(t, v, td)
        BY <2>2, <3>8
      <3>10. CrossWrote(t, e, q, ts, td)
        BY <1>1, <1>13, <1>16, <3>9, CrossWritten
      <3>11. CrossWrote(t, s, q, ts, td) /\ CrossIndexed(t, s, fd, td)
        BY <1>10, <1>14, <3>7, <3>10 DEF CrossWrote, CrossIndexed
      <3>12. Brings(t, s, Side(Put(R, ts), td))
        BY <3>6, <3>7, <3>11, CrossHeld
      <3> QED
        BY <3>12 DEF Y
    <2> QED
      BY <2>1, <2>2
  <1>20. CanApplyCross(s, fs, fd, ts, td)
    <2>1. fd = Absent => PageKey(td.page) \notin DOMAIN s.pages
      <3> SUFFICES ASSUME fd = Absent
                   PROVE  PageKey(td.page) \notin DOMAIN s.pages
        OBVIOUS
      <3>1. td # Absent /\ X = Put(R, fs)
        BY <1>1 DEF X, Side
      <3>2. DOMAIN s.pages = {PageKey(X[r].page) : r \in DOMAIN X}
        BY <1>3 DEF KeysAre
      <3>3. Fits(Put(R, ts), td)
        BY <1>5, <3>1 DEF Halved
      <3>4. \A r \in DOMAIN Put(R, ts) : PageKey(Put(R, ts)[r].page) # PageKey(td.page)
        BY <3>3 DEF Fits
      <3>5. /\ DOMAIN Put(R, ts) = DOMAIN R \cup {p} /\ Put(R, ts)[p] = ts
            /\ \A r \in DOMAIN R : Put(R, ts)[r] = R[r]
        BY <1>2, <1>5 DEF Halved, Joins
      <3>6. DOMAIN X = DOMAIN R \cup {p} /\ X[p] = fs /\ \A r \in DOMAIN R : X[r] = R[r]
        BY <1>4 DEF Laid
      <3>7. PageKey(fs.page) = PageKey(ts.page)
        BY DEF Crossing
      <3> QED
        BY <3>2, <3>4, <3>5, <3>6, <3>7
    <2>2. Ids(ts.entries) \cup Ids(td.entries) \subseteq EntryIds(s)
      <3>1. Paged(X, BlockIds, Nat)
        BY <1>4 DEF Laid, World
      <3>2. EntryIds(s) = EntriesOf(X)
        BY <1>3, <3>1, HeldKinds
      <3> QED
        BY <1>1, <1>4, <3>2 DEF Laid
    <2>3. SameOrder(e, e)
      BY DEF SameOrder
    <2>4. CanWriteContainment(e, ts) /\ Ordered(WriteContainment(e, ts), e, Put(R, ts))
      BY <1>1, <1>10, <2>3, CrossOrdered
    <2>5. CanWriteContainment(WriteContainment(e, ts), td)
      <3> DEFINE y == WriteContainment(e, ts)
      <3>1. IsStore(y) /\ PlacesAre(y, Put(R, ts)) /\ SameOrder(y, y)
        BY <2>4 DEF Ordered, SameOrder
      <3> HIDE DEF y
      <3>2. CASE td # Absent
        <4>1. CanWriteContainment(y, td)
          BY <1>1, <3>1, <3>2, CrossOrdered
        <4> QED
          BY <4>1 DEF y
      <3>3. CASE td = Absent
        <4>1. Ids(td.entries) = {}
          BY <1>5, <3>3 DEF Halved
        <4>2. DOMAIN Placements(td) = {}
          BY <4>1 DEF Placements
        <4>3. Range(Placements(td)) = {}
          BY <4>2 DEF Range
        <4> QED
          BY <4>1, <4>3 DEF CanWriteContainment
      <3> QED
        BY <3>2, <3>3
    <2> QED
      BY <1>7, <2>1, <2>2, <2>4, <2>5 DEF CanApplyCross, e
  <1> QED
    BY <1>19, <1>20 DEF t, Y

\* A move between two Pages leads back, and there again.
LEMMA CrossLinks ==
    ASSUME NEW R, NEW p, NEW q, NEW bs, NEW bd, NEW as, NEW ad, Crossing(R, p, q, bs, bd, as, ad)
    PROVE  Links(<<"cross">>, CrossAction(bs, bd, as, ad),
                 Side(Put(R, bs), bd), Side(Put(R, as), ad))
  <1> DEFINE t == <<"cross">>
             what == CrossAction(bs, bd, as, ad)
             X == Side(Put(R, bs), bd)
             Y == Side(Put(R, as), ad)
  <1>1. /\ t[1] # "journal" /\ t[1] # "named"
        /\ what.beforeSource = bs /\ what.beforeDestination = bd
        /\ what.afterSource = as /\ what.afterDestination = ad
    BY DEF CrossAction
  <1>2. Crossing(R, p, q, as, ad, bs, bd)
    BY DEF Crossing
  <1> HIDE DEF t, what, X, Y
  <1>3. ASSUME NEW s, Holds(s, Y)
        PROVE  CanApply(s, t, what, FALSE) /\ Brings(Apply(s, t, what, FALSE), s, X)
    <2>1. Holds(s, Side(Put(R, as), ad))
      BY <1>3 DEF Y
    <2>2. /\ CanApplyCross(s, as, ad, bs, bd)
          /\ Brings(ApplyCross(s, as, ad, bs, bd), s, Side(Put(R, bs), bd))
      BY <1>2, <2>1, CrossApplied
    <2>3. Apply(s, t, what, FALSE) = ApplyCross(s, as, ad, bs, bd)
      BY <1>1 DEF Apply
    <2>4. CanApply(s, t, what, FALSE) = CanApplyCross(s, as, ad, bs, bd)
      BY <1>1 DEF CanApply
    <2> QED
      BY <2>2, <2>3, <2>4 DEF X
  <1>4. ASSUME NEW s, Holds(s, X)
        PROVE  CanApply(s, t, what, TRUE) /\ Brings(Apply(s, t, what, TRUE), s, Y)
    <2>1. Holds(s, Side(Put(R, bs), bd))
      BY <1>4 DEF X
    <2>2. /\ CanApplyCross(s, bs, bd, as, ad)
          /\ Brings(ApplyCross(s, bs, bd, as, ad), s, Side(Put(R, as), ad))
      BY <2>1, CrossApplied
    <2>3. Apply(s, t, what, TRUE) = ApplyCross(s, bs, bd, as, ad)
      BY <1>1 DEF Apply
    <2>4. CanApply(s, t, what, TRUE) = CanApplyCross(s, bs, bd, as, ad)
      BY <1>1 DEF CanApply
    <2> QED
      BY <2>2, <2>3, <2>4 DEF Y
  <1>5. Links(t, what, X, Y)
    BY <1>3, <1>4 DEF Links, Carries
  <1> QED
    BY <1>5 DEF t, what, X, Y

\* moveEntryToPage enters a new Page under its key before it writes the two Pages.
LEMMA MovedPages ==
    ASSUME NEW s, IsStore(s), NEW p, NEW q, p # q, NEW fd, NEW ts, NEW td, ts.id = p, td.id = q,
           td # Absent, fd # Absent \/ q \notin DOMAIN s.blocks,
           NEW page, page.id = q, PageKey(page.page) = PageKey(td.page),
           NEW u, u = IF fd = Absent THEN IndexPage(s, page) ELSE s
    PROVE  CrossPaged(WritePage(WritePage(u, ts), td), s, p, q, fd, ts, td)
  <1> DEFINE v == WritePage(u, ts)
             g == WritePage(v, td)
  <1>1. IsIndexed(IndexPage(s, page), s, Over([k \in {PageKey(page.page)} |-> page.id], s.pages))
    BY Indexing
  <1>2. /\ IsStore(u) /\ SameOrder(s, u) /\ u.blocks = s.blocks /\ u.revision = s.revision
        /\ CrossIndexed(u, s, fd, td)
    <2>1. CASE fd = Absent
      BY <1>1, <2>1 DEF IsIndexed, CrossIndexed
    <2>2. CASE fd # Absent
      BY <2>2 DEF SameOrder, CrossIndexed
    <2> QED
      BY <2>1, <2>2
  <1>3. PageWritten(v, u, ts)
    BY <1>2, WritingPage
  <1> HIDE DEF v
  <1>4. /\ IsStore(v) /\ SameOrder(u, v) /\ v.pages = u.pages /\ v.revision = u.revision
        /\ v.blocks[p] = ts.page /\ DOMAIN v.blocks = DOMAIN u.blocks \cup {p}
        /\ \A b \in DOMAIN u.blocks \ {p} : v.blocks[b] = u.blocks[b]
    BY <1>3 DEF PageWritten, SameButBlocks
  <1>5. PageWritten(g, v, td)
    BY <1>4, WritingPage
  <1> HIDE DEF g
  <1>6. /\ IsStore(g) /\ SameOrder(v, g) /\ g.pages = v.pages /\ g.revision = v.revision
        /\ g.blocks[q] = td.page /\ DOMAIN g.blocks = DOMAIN v.blocks \cup {q}
        /\ \A b \in DOMAIN v.blocks \ {q} : g.blocks[b] = v.blocks[b]
    BY <1>5 DEF PageWritten, SameButBlocks
  <1>7. SameOrder(s, g) /\ g.revision = s.revision /\ CrossIndexed(g, s, fd, td)
    BY <1>2, <1>4, <1>6 DEF SameOrder, CrossIndexed
  <1>8. DOMAIN g.blocks = (DOMAIN s.blocks \ {q}) \cup {p} \cup (IF td = Absent THEN {} ELSE {q})
    BY <1>2, <1>4, <1>6
  <1>9. /\ g.blocks[p] = ts.page /\ g.blocks[q] = td.page
        /\ \A b \in DOMAIN s.blocks \ {p, q} : g.blocks[b] = s.blocks[b]
    BY <1>2, <1>4, <1>6
  <1>10. CrossPaged(g, s, p, q, fd, ts, td)
    BY <1>6, <1>7, <1>8, <1>9 DEF CrossPaged
  <1> QED
    BY <1>10 DEF g, v

\* The writes of moveEntryToPage, from the erased ordering on.
MoveWrites(u, left, arrived) ==
    LET written == WriteEntries(WriteEntries(WritePage(WritePage(u, left), arrived), left), arrived)
    IN  WriteContainment(WriteContainment(written, left), arrived)

\* They lead to the Pages with the subtree on the other one.
LEMMA MoveWritten ==
    ASSUME NEW R, NEW p, NEW q, NEW fs, NEW fd, NEW ts, NEW td, Crossing(R, p, q, fs, fd, ts, td),
           td # Absent, NEW s, Holds(s, Side(Put(R, fs), fd)),
           NEW page, page.id = q, PageKey(page.page) = PageKey(td.page),
           NEW e, e = EraseContainment(s, Ids(fs.entries) \cup Ids(fd.entries)),
           NEW u, u = IF fd = Absent THEN IndexPage(e, page) ELSE e
    PROVE  Brings(MoveWrites(u, ts, td), s, Side(Put(R, ts), td))
  <1> DEFINE X == Side(Put(R, fs), fd)
             ids == Ids(fs.entries) \cup Ids(fd.entries)
             g == WritePage(WritePage(u, ts), td)
             v == WriteEntries(g, ts)
             x == WriteEntries(v, td)
             w == WriteContainment(x, ts)
             t == WriteContainment(w, td)
  <1>1. Half(R, p, q, fs, fd) /\ Half(R, p, q, ts, td)
    BY DEF Crossing
  <1>2. p # q /\ ts.id = p /\ td.id = q /\ q \notin DOMAIN R
    BY <1>1 DEF Half
  <1>3. IsStore(s) /\ BlocksAre(s, X) /\ PlacesAre(s, X)
    BY DEF Holds
  <1>4. Laid(X, R, p, q, fs, fd) /\ Laid(Side(Put(R, ts), td), R, p, q, ts, td)
    BY <1>1, HalfLaid
  <1>5. Halved(R, p, q, ts, td)
    BY <1>1, HalfIs
  <1>6. PlacesAre(EraseContainment(s, ids), R)
    BY <1>1, <1>3, CrossErasing
  <1>7. IsErased(EraseContainment(s, ids), s, ids)
    BY <1>3, Erasing
  <1>8. t = MoveWrites(u, ts, td)
    BY DEF MoveWrites
  <1> HIDE DEF g, v, x, w, t, X
  <1>9. /\ IsStore(e) /\ PlacesAre(e, R) /\ e.blocks = s.blocks /\ e.pages = s.pages
        /\ e.revision = s.revision
    BY <1>6, <1>7 DEF IsErased, SameRest
  <1>10. fd # Absent \/ q \notin DOMAIN e.blocks
    <2> SUFFICES ASSUME fd = Absent
                 PROVE  q \notin DOMAIN e.blocks
      OBVIOUS
    <2>1. DOMAIN s.blocks = DOMAIN X \cup EntriesOf(X) /\ q \notin DOMAIN X
      BY <1>2, <1>3, <1>4 DEF BlocksAre, Laid
    <2>2. EntriesOf(X) = EntriesOf(Side(Put(R, ts), td))
      BY <1>4 DEF Laid, Crossing
    <2>3. q \notin EntriesOf(X)
      BY <1>4, <2>2 DEF Laid
    <2> QED
      BY <1>9, <2>1, <2>3
  <1>11. CrossPaged(WritePage(WritePage(u, ts), td), e, p, q, fd, ts, td)
    BY <1>2, <1>9, <1>10, MovedPages
  <1>12. CrossPaged(g, e, p, q, fd, ts, td)
    BY <1>11 DEF g
  <1>13. IsStore(g) /\ SameOrder(e, g) /\ g.revision = s.revision /\ CrossIndexed(g, e, fd, td)
    BY <1>9, <1>12 DEF CrossPaged
  <1>14. Wrote(WriteEntries(g, ts), g, ts) /\ IsStore(WriteEntries(g, ts))
         /\ SameButBlocks(g, WriteEntries(g, ts))
    BY <1>2, <1>5, <1>13, WroteEntries DEF Halved
  <1>15. Wrote(v, g, ts) /\ IsStore(v) /\ SameButBlocks(g, v)
    BY <1>14 DEF v
  <1>16. Outlined(td, q, BlockIds, Nat)
    BY <1>5 DEF Halved
  <1>17. Wrote(WriteEntries(v, td), v, td) /\ IsStore(WriteEntries(v, td))
         /\ SameButBlocks(v, WriteEntries(v, td))
    BY <1>2, <1>15, <1>16, WroteEntries
  <1>18. /\ Wrote(x, v, td) /\ IsStore(x) /\ SameOrder(e, x) /\ x.pages = g.pages
         /\ x.revision = s.revision
    BY <1>13, <1>15, <1>17 DEF SameButBlocks, SameOrder, x
  <1>19. Ordered(WriteContainment(x, ts), x, Put(R, ts))
    BY <1>1, <1>9, <1>18, CrossOrdered
  <1>20. IsStore(w) /\ SameRest(x, w) /\ PlacesAre(w, Put(R, ts)) /\ SameOrder(w, w)
    BY <1>19 DEF Ordered, w, SameOrder
  <1>21. Ordered(WriteContainment(w, td), w, Side(Put(R, ts), td))
    BY <1>1, <1>20, CrossOrdered
  <1>22. IsStore(t) /\ SameRest(w, t) /\ PlacesAre(t, Side(Put(R, ts), td))
    BY <1>21 DEF Ordered, t
  <1>23. t.blocks = x.blocks /\ t.pages = g.pages /\ t.revision = s.revision
    BY <1>18, <1>20, <1>22 DEF SameRest
  <1>24. Wrote(t, v, td)
    BY <1>18, <1>23 DEF Wrote, ShowsEntries
  <1>25. IF td = Absent THEN t.blocks = v.blocks ELSE Wrote(t, v, td)
    BY <1>24
  <1>26. CrossWrote(t, e, q, ts, td)
    BY <1>1, <1>12, <1>15, <1>25, CrossWritten
  <1>27. CrossWrote(t, s, q, ts, td) /\ CrossIndexed(t, s, fd, td)
    BY <1>9, <1>13, <1>23, <1>26 DEF CrossWrote, CrossIndexed
  <1>28. Brings(t, s, Side(Put(R, ts), td))
    BY <1>22, <1>23, <1>27, CrossHeld
  <1> QED
    BY <1>8, <1>28

\* The two Pages of a move before it: p is source, and q is destination or is not there yet.
Parted(A, R, p, q, source, destination) ==
    /\ Half(R, p, q, source, destination) /\ A = Side(Put(R, source), destination)
    /\ destination = Absent => q \notin EntriesOf(A) /\ q \notin DOMAIN A

\* What a move makes of them: the same entries, in two outlines of the same Pages.
Shared(A, p, q, source, destination, left, arrived, I, U) ==
    /\ Outlined(left, p, I, U) /\ PageKey(left.page) = PageKey(source.page)
    /\ Outlined(arrived, q, I, U)
    /\ destination # Absent => PageKey(arrived.page) = PageKey(destination.page)
    /\ destination = Absent => \A r \in DOMAIN A : PageKey(A[r].page) # PageKey(arrived.page)
    /\ Ids(left.entries) \cup Ids(arrived.entries)
          = Ids(source.entries) \cup Ids(destination.entries)
    /\ Ids(left.entries) \cap Ids(arrived.entries) = {}

\* The Pages after the move are Pages as they can be.
LEMMA CrossFits ==
    ASSUME NEW A, NEW R, NEW p, NEW q, NEW source, NEW destination,
           Parted(A, R, p, q, source, destination),
           NEW m \in 0 .. MaxIds, NEW now \in Nat, Paged(R, 1 .. m, 0 .. now),
           p \in 1 .. m, q \in 1 .. m, NEW left, NEW arrived,
           Shared(A, p, q, source, destination, left, arrived, 1 .. m, 0 .. now)
    PROVE  /\ Crossing(R, p, q, source, destination, left, arrived) /\ arrived # Absent
           /\ Paged(Side(Put(R, left), arrived), 1 .. m, 0 .. now)
  <1> DEFINE I == 1 .. m
             U == 0 .. now
             B == Put(R, left)
             Y == Put(B, arrived)
  <1>1. /\ Half(R, p, q, source, destination) /\ A = Side(Put(R, source), destination)
        /\ (destination = Absent => q \notin EntriesOf(A) /\ q \notin DOMAIN A)
    BY DEF Parted
  <1>2. Laid(A, R, p, q, source, destination) /\ Halved(R, p, q, source, destination)
    BY <1>1, HalfLaid, HalfIs
  <1>3. p # q /\ p \notin DOMAIN R /\ q \notin DOMAIN R /\ source.id = p /\ IsMap(R)
        /\ (destination = Absent \/ destination.id = q)
    BY <1>1 DEF Half
  <1>4. /\ Outlined(left, p, I, U) /\ PageKey(left.page) = PageKey(source.page)
        /\ Outlined(arrived, q, I, U)
        /\ (destination # Absent => PageKey(arrived.page) = PageKey(destination.page))
        /\ (destination = Absent => \A r \in DOMAIN A : PageKey(A[r].page) # PageKey(arrived.page))
        /\ Ids(left.entries) \cup Ids(arrived.entries)
              = Ids(source.entries) \cup Ids(destination.entries)
        /\ Ids(left.entries) \cap Ids(arrived.entries) = {}
    BY DEF Shared
  <1>5. left.id = p /\ arrived.id = q
    BY <1>4, OutlinedIs
  <1>6. /\ EntriesOf(A) = EntriesOf(R) \cup Ids(source.entries) \cup Ids(destination.entries)
        /\ p \notin EntriesOf(A) /\ q \notin EntriesOf(A) /\ DOMAIN R \cap EntriesOf(A) = {}
        /\ Ids(source.entries) \cap EntriesOf(R) = {} /\ Ids(destination.entries) \cap EntriesOf(R) = {}
        /\ p \in DOMAIN A /\ A[p] = source /\ (\A r \in DOMAIN R : r \in DOMAIN A /\ A[r] = R[r])
    BY <1>1, <1>2 DEF Laid
  <1>7. /\ Ids(left.entries) \subseteq EntriesOf(A) /\ Ids(arrived.entries) \subseteq EntriesOf(A)
        /\ Ids(left.entries) \cap EntriesOf(R) = {} /\ Ids(arrived.entries) \cap EntriesOf(R) = {}
    BY <1>4, <1>6
  <1>8. \A r \in DOMAIN R : PageKey(R[r].page) # PageKey(source.page)
    BY <1>2 DEF Halved, Fits
  <1> HIDE DEF B, Y, I, U
  <1>9. Fits(R, left)
    BY <1>3, <1>4, <1>5, <1>6, <1>7, <1>8 DEF Fits
  <1>10. Paged(R, I, U) /\ p \in I /\ q \in I
    BY DEF I, U
  <1>11. Paged(Put(R, left), I, U) /\ Joins(Put(R, left), R, left)
    BY <1>3, <1>4, <1>5, <1>9, <1>10, PutFits, PutIs
  <1>12. /\ Paged(B, I, U) /\ DOMAIN B = DOMAIN R \cup {p} /\ B[p] = left
         /\ (\A r \in DOMAIN R : B[r] = R[r]) /\ EntriesOf(B) = EntriesOf(R) \cup Ids(left.entries)
    BY <1>5, <1>11 DEF B, Joins
  <1>13. \A r \in DOMAIN B : PageKey(B[r].page) # PageKey(arrived.page)
    <2>1. CASE destination = Absent
      BY <1>4, <1>6, <1>12, <2>1
    <2>2. CASE destination # Absent
      <3>1. Fits(Put(R, source), destination) /\ Joins(Put(R, source), R, source)
        BY <1>2, <2>2 DEF Halved
      <3> DEFINE C == Put(R, source)
      <3> HIDE DEF C
      <3>2. /\ DOMAIN C = DOMAIN R \cup {p} /\ C[p] = source /\ (\A r \in DOMAIN R : C[r] = R[r])
            /\ \A r \in DOMAIN C : PageKey(C[r].page) # PageKey(destination.page)
        BY <1>3, <3>1 DEF Joins, Fits, C
      <3> QED
        BY <1>4, <1>12, <2>2, <3>2
    <2> QED
      BY <2>1, <2>2
  <1>14. Fits(B, arrived)
    <2>1. q \notin DOMAIN B /\ q \notin EntriesOf(B) /\ q \notin Ids(arrived.entries)
      BY <1>3, <1>6, <1>7, <1>12
    <2>2. Ids(arrived.entries) \cap DOMAIN B = {} /\ Ids(arrived.entries) \cap EntriesOf(B) = {}
      BY <1>4, <1>6, <1>7, <1>12
    <2> QED
      BY <1>5, <1>13, <2>1, <2>2 DEF Fits
  <1>15. Paged(Put(B, arrived), I, U)
    BY <1>4, <1>5, <1>10, <1>12, <1>14, PutFits
  <1>16. arrived # Absent
    <2>1. q \in BlockIds
      BY <1>10, BoundsIs DEF I, BlockIds
    <2> QED
      BY <1>5, <2>1, PageIsPresent
  <1>17. Side(Put(R, left), arrived) = Put(B, arrived)
    BY <1>16 DEF Side, B
  <1>18. World(Put(B, arrived))
    <2>1. Paged(Put(B, arrived), 1 .. m, 0 .. now)
      BY <1>15 DEF I, U
    <2> QED
      BY <2>1, WorldIs
  <1>19. Half(R, p, q, left, arrived)
    BY <1>3, <1>5, <1>17, <1>18 DEF Half
  <1>20. Crossing(R, p, q, source, destination, left, arrived)
    BY <1>1, <1>4, <1>16, <1>19 DEF Crossing
  <1> QED
    BY <1>15, <1>16, <1>17, <1>20 DEF I, U

\* A touched outline is an outline of its Page, with the entries it was given.
OutlinedWith(r, p, g, es, I, U) ==
    Outlined(r, p, I, U) /\ PageKey(r.page) = PageKey(g) /\ Ids(r.entries) = Ids(es)

\* Touching an outline keeps it one.
LEMMA TouchedOutline ==
    ASSUME NEW p, NEW g \in PageBlocks, NEW es, NEW o, o = [id |-> p, page |-> g, entries |-> es],
           NEW I, NEW U, U \subseteq Nat, Page(I, Seq(STRING), U, es), g.updated \in U,
           NEW containers, NEW now \in U, NEW r, r = Touch(o, containers, now)
    PROVE  OutlinedWith(r, p, g, es, I, U)
  <1>1. IsTouched(Touch(o, containers, now), o, es, I, U)
    BY TouchIs
  <1>2. o.id = p /\ o.page = g
    OBVIOUS
  <1>3. /\ r = [id |-> p, page |-> r.page, entries |-> r.entries]
        /\ r.page \in PageBlocks /\ r.page.updated \in U /\ PageKey(r.page) = PageKey(g)
        /\ Page(I, Seq(STRING), U, r.entries) /\ Len(r.entries) = Len(es)
        /\ \A i \in 1 .. Len(es) : r.entries[i].id = es[i].id
    BY <1>1, <1>2 DEF IsTouched
  <1> DEFINE rs == r.entries
  <1>4. Page(I, Seq(STRING), U, rs)
    BY <1>3
  <1> HIDE DEF rs
  <1>5. DOMAIN rs = 1 .. Len(rs) /\ DOMAIN es = 1 .. Len(es)
    BY <1>4, PageIs
  <1>6. Ids(rs) = Ids(es)
    BY <1>3, <1>5 DEF Ids, rs
  <1>7. Outlined(r, p, I, U)
    BY <1>3 DEF Outlined
  <1> QED
    BY <1>3, <1>6, <1>7 DEF rs, OutlinedWith

\* The two outlines that moveEntryToPage writes.
LeftOutline(source, i, now) ==
    Touch([source EXCEPT !.entries = Without(@, i, SubtreeEnd(@, i))], {source.entries[i].parent}, now)
ArrivedOutline(source, i, destination, after, now) ==
    LET to == InsertionPoint(destination.entries, after)
    IN  Touch([destination EXCEPT !.entries =
                  Spliced(@, to.at, MovingSubtree(source.entries, i, to.parent, now))],
              {to.parent}, now)

\* They are outlines of the two Pages, and share the entries these had.
MovedOutlines(p, q, source, g, des, left, arrived, I, U) ==
    /\ Outlined(left, p, I, U) /\ PageKey(left.page) = PageKey(source.page)
    /\ Outlined(arrived, q, I, U) /\ PageKey(arrived.page) = PageKey(g)
    /\ Ids(left.entries) \cup Ids(arrived.entries) = Ids(source.entries) \cup Ids(des)
    /\ Ids(left.entries) \cap Ids(arrived.entries) = {}

\* The subtree arrives whole, and nothing else changes on the two Pages.
MovedWhole(source, destination, left, arrived, now) ==
    /\ Ids(left.entries) \subseteq Ids(source.entries)
    /\ PageKept(source, left, now, TopLevel) /\ PageKept(destination, arrived, now, TopLevel)
    /\ Whole(source.entries, arrived.entries, now)

\* Between them they have the entries both Pages had, each once.
LEMMA MovedOutlinesAre ==
    ASSUME NEW I, NEW U, U \subseteq Nat, NEW now \in U,
           NEW p, NEW source, Outlined(source, p, I, U), NEW i \in 1 .. Len(source.entries),
           NEW q, NEW g \in PageBlocks, g.updated \in U, NEW des, Page(I, Seq(STRING), U, des),
           NEW destination, destination = [id |-> q, page |-> g, entries |-> des],
           Ids(source.entries) \cap Ids(des) = {}, NEW after \in Ids(des) \cup {TopLevel}
    PROVE  /\ MovedOutlines(p, q, source, g, des, LeftOutline(source, i, now),
                            ArrivedOutline(source, i, destination, after, now), I, U)
           /\ MovedWhole(source, destination, LeftOutline(source, i, now),
                         ArrivedOutline(source, i, destination, after, now), now)
  <1> DEFINE src == source.entries
             h == source.page
             ls == Without(src, i, SubtreeEnd(src, i))
             to == InsertionPoint(des, after)
             rs == Spliced(des, to.at, MovingSubtree(src, i, to.parent, now))
             T == Seq(STRING)
             S == SubtreeIds(src, i)
             left == LeftOutline(source, i, now)
             arrived == ArrivedOutline(source, i, destination, after, now)
  <1>1. /\ source = [id |-> p, page |-> h, entries |-> src] /\ h \in PageBlocks /\ h.updated \in U
        /\ Page(I, T, U, src) /\ i \in 1 .. Len(src) /\ Ids(src) \cap Ids(des) = {}
    BY DEF Outlined
  <1>2. left = Touch([source EXCEPT !.entries = ls], {src[i].parent}, now)
    BY DEF LeftOutline
  <1>3. arrived = Touch([destination EXCEPT !.entries = rs], {to.parent}, now)
    <2>1. destination.entries = des
      OBVIOUS
    <2> QED
      BY <2>1 DEF ArrivedOutline
  <1> HIDE DEF src, h
  <1>4. Page(I, T, U, ls) /\ Ids(ls) = Ids(src) \ S /\ Traced(src, ls, {src[i].parent}, TopLevel)
    BY <1>1, LeftPage, LeftTraced
  <1>5. Page(I, T, U, rs) /\ Ids(rs) = Ids(des) \cup S
    BY <1>1, ArrivedPage
  <1>16. Traced(des, rs, {to.parent}, TopLevel) /\ Whole(src, rs, now)
    BY <1>1, ArrivedTraced
  <1>17. \A j \in 1 .. Len(src) : src[j].id \notin {to.parent}
    <2>1. to.parent \in Ids(des) \cup {TopLevel}
      BY <1>1, InsertionPlace
    <2> HIDE DEF to
    <2>2. ASSUME NEW j \in 1 .. Len(src)
          PROVE  src[j].id \in Ids(src) /\ src[j].id # TopLevel
      BY <1>1, PageIs DEF Ids
    <2> QED
      BY <1>1, <2>1, <2>2
  <1>6. S \subseteq Ids(src)
    BY <1>1, SubtreeIdsIn
  <1> HIDE DEF ls, rs, S, left, arrived, to
  <1>7. [source EXCEPT !.entries = ls] = [id |-> p, page |-> h, entries |-> ls]
    BY <1>1
  <1>8. [destination EXCEPT !.entries = rs] = [id |-> q, page |-> g, entries |-> rs]
    OBVIOUS
  <1> DEFINE lo == [id |-> p, page |-> h, entries |-> ls]
             ro == [id |-> q, page |-> g, entries |-> rs]
             lc == {src[i].parent}
             rc == {to.parent}
  <1>9. left = Touch(lo, lc, now) /\ arrived = Touch(ro, rc, now)
    BY <1>2, <1>3, <1>7, <1>8
  <1>10. lo = [id |-> p, page |-> h, entries |-> ls] /\ ro = [id |-> q, page |-> g, entries |-> rs]
    OBVIOUS
  <1>18. Traced(src, ls, lc, TopLevel) /\ Traced(des, rs, rc, TopLevel)
         /\ Whole(src, rs, now) /\ \A j \in 1 .. Len(src) : src[j].id \notin rc
    BY <1>4, <1>16, <1>17
  <1> HIDE DEF lo, ro, lc, rc
  <1>19. PageKept(source, left, now, TopLevel)
    <2>1. source.id = p /\ source.page = h /\ source.entries = src
      BY <1>1
    <2>2. lo = [id |-> source.id, page |-> source.page, entries |-> ls]
      BY <1>10, <2>1
    <2>3. h = [kind |-> h.kind, key |-> h.key, updated |-> h.updated]
      BY <1>1 DEF PageBlocks
    <2> QED
      BY <1>1, <1>4, <1>9, <1>18, <2>1, <2>2, <2>3, TouchedKept
  <1>20. PageKept(destination, arrived, now, TopLevel)
         /\ arrived.entries = TouchedEntries(rs, rc, now)
    <2>1. destination.id = q /\ destination.page = g /\ destination.entries = des
      OBVIOUS
    <2>2. ro = [id |-> destination.id, page |-> destination.page, entries |-> rs]
      BY <1>10, <2>1
    <2>3. g = [kind |-> g.kind, key |-> g.key, updated |-> g.updated]
      BY DEF PageBlocks
    <2>4. Page(I, T, U, des)
      BY DEF T
    <2>5. Page(I, T, U, destination.entries) /\ Traced(destination.entries, rs, rc, TopLevel)
      BY <1>18, <2>1, <2>4
    <2>6. destination.page = [kind |-> destination.page.kind, key |-> destination.page.key,
                              updated |-> destination.page.updated]
      BY <2>1, <2>3
    <2> QED
      BY ONLY <1>5, <1>9, <2>2, <2>5, <2>6, TouchedKept
  <1>21. Whole(src, arrived.entries, now)
    BY <1>5, <1>18, <1>20, WholeTouched
  <1> HIDE DEF T
  <1>11. Page(I, Seq(STRING), U, ls) /\ Page(I, Seq(STRING), U, rs)
    BY <1>4, <1>5 DEF T
  <1>12. Outlined(left, p, I, U) /\ PageKey(left.page) = PageKey(h) /\ Ids(left.entries) = Ids(ls)
    <2>1. OutlinedWith(left, p, h, ls, I, U)
      <3>1. h \in PageBlocks /\ h.updated \in U
        BY <1>1
      <3> QED
        BY ONLY <1>9, <1>10, <1>11, <3>1, U \subseteq Nat, now \in U, TouchedOutline
    <2> QED
      BY <2>1 DEF OutlinedWith
  <1>13. Outlined(arrived, q, I, U) /\ PageKey(arrived.page) = PageKey(g)
         /\ Ids(arrived.entries) = Ids(rs)
    <2>1. OutlinedWith(arrived, q, g, rs, I, U)
      BY ONLY <1>9, <1>10, <1>11, g \in PageBlocks, g.updated \in U, U \subseteq Nat, now \in U,
              TouchedOutline
    <2> QED
      BY <2>1 DEF OutlinedWith
  <1>14. /\ Ids(left.entries) \cup Ids(arrived.entries) = Ids(src) \cup Ids(des)
         /\ Ids(left.entries) \cap Ids(arrived.entries) = {}
    BY <1>1, <1>4, <1>5, <1>6, <1>12, <1>13
  <1>15. MovedOutlines(p, q, source, g, des, left, arrived, I, U)
    BY <1>12, <1>13, <1>14 DEF MovedOutlines, src, h
  <1>22. MovedWhole(source, destination, left, arrived, now)
    BY <1>4, <1>12, <1>19, <1>20, <1>21 DEF MovedWhole, src
  <1> QED
    BY <1>15, <1>22 DEF left, arrived

\* A move between two Pages: both keep their other entries, and the subtree arrives whole.
LEMMA CrossRemade ==
    ASSUME NEW A, NEW R, NEW p, NEW q, NEW source, NEW before, NEW Y, NEW left, NEW arrived,
           Laid(A, R, p, q, source, before), Laid(Y, R, p, q, left, arrived), arrived # Absent,
           p # q, p \notin DOMAIN R, q \notin DOMAIN R, before = Absent => q \notin EntriesOf(A),
           Ids(left.entries) \cup Ids(arrived.entries) = Ids(source.entries) \cup Ids(before.entries),
           Ids(left.entries) \subseteq Ids(source.entries),
           NEW now, NEW e, PageKept(source, left, now, e),
           before # Absent => PageKept(before, arrived, now, e),
           Whole(source.entries, arrived.entries, now)
    PROVE  Remade(A, Y, now)
  <1>1. /\ World(A) /\ DOMAIN A = DOMAIN R \cup {p} \cup (IF before = Absent THEN {} ELSE {q})
        /\ EntriesOf(A) = EntriesOf(R) \cup Ids(source.entries) \cup Ids(before.entries)
        /\ A[p] = source /\ (before # Absent => A[q] = before) /\ \A r \in DOMAIN R : A[r] = R[r]
        /\ p \notin EntriesOf(A) /\ (before # Absent => q \notin EntriesOf(A))
        /\ DOMAIN R \cap EntriesOf(A) = {}
        /\ Ids(source.entries) \cap Ids(before.entries) = {}
        /\ World(Y) /\ DOMAIN Y = DOMAIN R \cup {p, q}
        /\ EntriesOf(Y) = EntriesOf(R) \cup Ids(left.entries) \cup Ids(arrived.entries)
        /\ Y[p] = left /\ Y[q] = arrived /\ \A r \in DOMAIN R : Y[r] = R[r]
    BY DEF Laid
  <1>2. Paged(A, BlockIds, Nat) /\ Paged(Y, BlockIds, Nat)
    BY <1>1 DEF World
  <1>3. /\ \A r \in DOMAIN A : DOMAIN A[r].entries = 1 .. Len(A[r].entries) /\ Named(A[r].entries)
        /\ \A r \in DOMAIN Y : DOMAIN Y[r].entries = 1 .. Len(Y[r].entries)
    <2>1. ASSUME NEW r \in DOMAIN A
          PROVE  DOMAIN A[r].entries = 1 .. Len(A[r].entries) /\ Named(A[r].entries)
      <3>1. Outlined(A[r], r, BlockIds, Nat)
        BY <1>2, PagedIs
      <3> QED
        BY <3>1, OutlinedIs
    <2>2. ASSUME NEW r \in DOMAIN Y
          PROVE  DOMAIN Y[r].entries = 1 .. Len(Y[r].entries)
      <3>1. Outlined(Y[r], r, BlockIds, Nat)
        BY <1>2, PagedIs
      <3> QED
        BY <3>1, OutlinedIs
    <2> QED
      BY <2>1, <2>2
  <1>4. DOMAIN A \cap EntriesOf(Y) = {} /\ DOMAIN Y \cap EntriesOf(A) = {}
    BY <1>1
  <1>5. ASSUME NEW r \in DOMAIN A \cap DOMAIN Y
        PROVE  PageKept(A[r], Y[r], now, e)
    <2>1. CASE r \in DOMAIN R
      <3>1. Y[r] = A[r] /\ Named(A[r].entries)
        BY <1>1, <1>3, <2>1
      <3> QED
        BY <3>1, PageKeptSame
    <2>2. CASE r = p
      BY <1>1, <2>2
    <2>3. CASE r = q
      BY <1>1, <2>3
    <2> QED
      BY <1>1, <2>1, <2>2, <2>3
  <1>6. /\ \A x, y \in DOMAIN A : x # y => Ids(A[x].entries) \cap Ids(A[y].entries) = {}
        /\ \A x, y \in DOMAIN Y : x # y => Ids(Y[x].entries) \cap Ids(Y[y].entries) = {}
    BY <1>2 DEF Paged, Separate
  <1>7. ASSUME NEW x \in DOMAIN A, NEW y \in DOMAIN Y, x # y
        PROVE  Whole(A[x].entries, Y[y].entries, now)
    <2>1. CASE x = p /\ y = q
      BY <1>1, <2>1
    <2>2. CASE ~(x = p /\ y = q)
      <3>1. Ids(A[x].entries) \cap Ids(Y[y].entries) = {}
        <4>1. CASE x \in DOMAIN R
          <5>1. A[x] = Y[x] /\ x \in DOMAIN Y
            BY <1>1, <4>1
          <5> QED
            BY <1>6, <1>7, <5>1
        <4>2. CASE y \in DOMAIN R
          <5>1. A[y] = Y[y] /\ y \in DOMAIN A
            BY <1>1, <4>2
          <5> QED
            BY <1>6, <1>7, <5>1
        <4>3. CASE x = q /\ y = p
          <5>1. before # Absent
            BY <1>1, <1>7, <4>3
          <5> QED
            BY <1>1, <4>3, <5>1
        <4> QED
          BY <1>1, <1>7, <2>2, <4>1, <4>2, <4>3
      <3> QED
        BY <1>3, <3>1, WholeApart
    <2> QED
      BY <2>1, <2>2
  <1> QED
    BY <1>4, <1>5, <1>7 DEF Remade

\* What a command has done that moved a subtree.
Moving(source, before, left, arrived, u, m, now) ==
    /\ CommitAndRecord(MoveWrites(u, left, arrived), <<"cross">>,
                       CrossAction(source, before, left, arrived))
    /\ clock' = now /\ issued' = m

\* A move between two Pages is recorded.
LEMMA CrossRecords ==
    ASSUME NEW A, Held(A), NEW now \in Nat, clock <= now, NEW m \in issued .. MaxIds,
           NEW R, NEW p, NEW q, NEW source, NEW before, Parted(A, R, p, q, source, before),
           Paged(R, 1 .. m, 0 .. now), p \in 1 .. m, q \in 1 .. m, NEW left, NEW arrived,
           Shared(A, p, q, source, before, left, arrived, 1 .. m, 0 .. now),
           NEW page, page.id = q, PageKey(page.page) = PageKey(arrived.page),
           NEW e, e = EraseContainment(store, Ids(source.entries) \cup Ids(before.entries)),
           NEW u, u = IF before = Absent THEN IndexPage(e, page) ELSE e,
           Moving(source, before, left, arrived, u, m, now),
           NEW destination, before # Absent => destination = before,
           MovedWhole(source, destination, left, arrived, now)
    PROVE  Recording(A)
  <1> DEFINE Y == Side(Put(R, left), arrived)
             s == MoveWrites(u, left, arrived)
             what == CrossAction(source, before, left, arrived)
  <1>1. issued \in 0 .. MaxIds /\ clock \in Nat /\ Holds(store, A)
    BY DEF Held
  <1>2. m \in 0 .. MaxIds
    BY <1>1, BoundsIs
  <1>3. /\ Crossing(R, p, q, source, before, left, arrived) /\ arrived # Absent
        /\ Paged(Side(Put(R, left), arrived), 1 .. m, 0 .. now)
    BY <1>2, CrossFits
  <1>4. A = Side(Put(R, source), before)
    BY DEF Parted
  <1>5. Holds(store, Side(Put(R, source), before))
    BY <1>1, <1>4
  <1>6. Brings(MoveWrites(u, left, arrived), store, Side(Put(R, left), arrived))
    BY <1>3, <1>5, MoveWritten
  <1>7. Links(<<"cross">>, CrossAction(source, before, left, arrived),
              Side(Put(R, source), before), Side(Put(R, left), arrived))
    BY <1>3, CrossLinks
  <1>8. <<"cross">> \in HistoryTracks
    BY DEF HistoryTracks
  <1>9. CommitAndRecord(s, <<"cross">>, what) /\ clock' = now /\ issued' = m
    BY DEF Moving
  <1>10. Brings(s, store, Y) /\ Links(<<"cross">>, what, A, Y) /\ Paged(Y, 1 .. m, 0 .. now)
    BY <1>3, <1>4, <1>6, <1>7
  <1>11. Laid(A, R, p, q, source, before) /\ Laid(Y, R, p, q, left, arrived)
    BY <1>3, <1>4, HalfLaid DEF Parted, Crossing
  <1> HIDE DEF s, what, Y
  <1>12. Remade(A, Y, now)
    <2>1. /\ p # q /\ p \notin DOMAIN R /\ q \notin DOMAIN R
          /\ before = Absent => q \notin EntriesOf(A)
      BY DEF Parted, Half
    <2>2. Ids(left.entries) \cup Ids(arrived.entries) = Ids(source.entries) \cup Ids(before.entries)
      BY DEF Shared
    <2>3. /\ Ids(left.entries) \subseteq Ids(source.entries) /\ PageKept(source, left, now, TopLevel)
          /\ before # Absent => PageKept(before, arrived, now, TopLevel)
          /\ Whole(source.entries, arrived.entries, now)
      BY DEF MovedWhole
    <2> QED
      BY <1>3, <1>11, <2>1, <2>2, <2>3, CrossRemade
  <1> QED
    BY <1>8, <1>9, <1>10, <1>12 DEF Recording

\* What moveEntryToPage does when the Page it moves to is there.
LEMMA MoveOntoIs ==
    ASSUME NEW e, NEW kind, NEW key, NEW after, NEW now, MoveEntryToPage(e, kind, key, after, now),
           <<kind, key>> \in DOMAIN store.pages,
           NEW source, source = LoadOutline(store, PageOf(store, e)),
           NEW i, i = PositionOf(source.entries, e),
           NEW page, page = LoadOutline(store, store.pages[<<kind, key>>])
    PROVE  /\ source.id # page.id /\ after \in Ids(page.entries) \cup {TopLevel}
           /\ Moving(source, page, LeftOutline(source, i, now),
                     ArrivedOutline(source, i, page, after, now),
                     EraseContainment(store, Ids(source.entries) \cup Ids(page.entries)),
                     issued, now)
  <1> DEFINE left == LeftOutline(source, i, now)
             arrived == ArrivedOutline(source, i, page, after, now)
             erased == EraseContainment(store, Ids(source.entries) \cup Ids(page.entries))
             to == InsertionPoint(page.entries, after)
             rawLeft == Touch([source EXCEPT !.entries = Without(@, i, SubtreeEnd(@, i))],
                              {source.entries[i].parent}, now)
             rawArrived == Touch([page EXCEPT !.entries =
                              Spliced(@, to.at, MovingSubtree(source.entries, i, to.parent, now))],
                              {to.parent}, now)
  <1>1. rawLeft = left
    BY DEF LeftOutline
  <1>2. rawArrived = arrived
    BY DEF ArrivedOutline
  <1>3. /\ source.id # page.id /\ after \in Ids(page.entries) \cup {TopLevel}
        /\ LET written == WriteEntries(WriteEntries(WritePage(WritePage(erased, rawLeft),
                                                              rawArrived), rawLeft), rawArrived)
           IN  CommitAndRecord(WriteContainment(WriteContainment(written, rawLeft), rawArrived),
                        <<"cross">>, CrossAction(source, page, rawLeft, rawArrived))
        /\ clock' = now /\ issued' = issued
    BY DEF MoveEntryToPage
  <1> HIDE DEF rawLeft, rawArrived, left, arrived, erased
  <1>4. CommitAndRecord(MoveWrites(erased, rawLeft, rawArrived), <<"cross">>,
                        CrossAction(source, page, rawLeft, rawArrived))
    BY <1>3 DEF MoveWrites
  <1>5. Moving(source, page, left, arrived, erased, issued, now)
    BY <1>1, <1>2, <1>3, <1>4 DEF Moving
  <1> QED
    BY <1>3, <1>5 DEF left, arrived, erased

\* What it does when the date has no Page yet.
LEMMA MoveToDateIs ==
    ASSUME NEW e, NEW kind, NEW key, NEW after, NEW now, MoveEntryToPage(e, kind, key, after, now),
           <<kind, key>> \notin DOMAIN store.pages,
           NEW source, source = LoadOutline(store, PageOf(store, e)),
           NEW i, i = PositionOf(source.entries, e),
           NEW m, m = issued + 1,
           NEW page, page = [id |-> m, page |-> PageBlock(kind, key, now), entries |-> <<>>]
    PROVE  /\ kind = "journal" /\ after = TopLevel /\ issued < MaxIds /\ source.id # page.id
           /\ Moving(source, Absent, LeftOutline(source, i, now),
                     ArrivedOutline(source, i, page, after, now),
                     IndexPage(EraseContainment(store, Ids(source.entries) \cup Ids(page.entries)),
                               page),
                     m, now)
  <1> DEFINE left == LeftOutline(source, i, now)
             arrived == ArrivedOutline(source, i, page, after, now)
             erased == EraseContainment(store, Ids(source.entries) \cup Ids(page.entries))
             indexed == IndexPage(erased, page)
             to == InsertionPoint(page.entries, after)
             rawLeft == Touch([source EXCEPT !.entries = Without(@, i, SubtreeEnd(@, i))],
                              {source.entries[i].parent}, now)
             rawArrived == Touch([page EXCEPT !.entries =
                              Spliced(@, to.at, MovingSubtree(source.entries, i, to.parent, now))],
                              {to.parent}, now)
  <1>1. rawLeft = left
    BY DEF LeftOutline
  <1>2. rawArrived = arrived
    BY DEF ArrivedOutline
  <1>3. /\ kind = "journal" /\ after = TopLevel /\ issued < MaxIds /\ source.id # page.id
        /\ LET written == WriteEntries(WriteEntries(WritePage(WritePage(indexed, rawLeft),
                                                              rawArrived), rawLeft), rawArrived)
           IN  CommitAndRecord(WriteContainment(WriteContainment(written, rawLeft), rawArrived),
                        <<"cross">>, CrossAction(source, Absent, rawLeft, rawArrived))
        /\ clock' = now /\ issued' = m
    BY DEF MoveEntryToPage
  <1> HIDE DEF rawLeft, rawArrived, left, arrived, indexed
  <1>4. CommitAndRecord(MoveWrites(indexed, rawLeft, rawArrived), <<"cross">>,
                        CrossAction(source, Absent, rawLeft, rawArrived))
    BY <1>3 DEF MoveWrites
  <1>5. Moving(source, Absent, left, arrived, indexed, m, now)
    BY <1>1, <1>2, <1>3, <1>4 DEF Moving
  <1> QED
    BY <1>3, <1>5 DEF left, arrived, indexed

\* The two Pages of a move that are both there.
LEMMA TwoPages ==
    ASSUME NEW A, World(A), NEW p \in DOMAIN A, NEW q \in DOMAIN A, p # q
    PROVE  Parted(A, Drop(A, {p, q}), p, q, A[p], A[q]) /\ A[q] # Absent
  <1> DEFINE R == Drop(A, {p, q})
             o == A[p]
             d == A[q]
  <1>1. Paged(A, BlockIds, Nat)
    BY DEF World
  <1>2. /\ DOMAIN R = DOMAIN A \ {p, q} /\ \A r \in DOMAIN R : R[r] = A[r]
        /\ IsMap(R)
    <2>1. Leaves(R, A, {p, q})
      BY <1>1, DropIs
    <2> HIDE DEF R
    <2> QED
      BY <2>1 DEF Leaves
  <1>3. /\ p \in BlockIds /\ Outlined(o, p, BlockIds, Nat)
        /\ q \in BlockIds /\ Outlined(d, q, BlockIds, Nat)
    BY <1>1, PagedIs
  <1>4. o.id = p /\ d.id = q
    BY <1>3 DEF Outlined
  <1>5. d # Absent
    BY <1>3, <1>4, PageIsPresent
  <1>6. IsMap(A)
    BY <1>1 DEF Paged, IsMap
  <1> HIDE DEF R, o, d
  <1>7. Joins(Put(R, o), R, o)
    BY <1>2, <1>4, PutIs
  <1> DEFINE B == Put(R, o)
  <1>8. DOMAIN B = DOMAIN R \cup {p} /\ B[p] = o /\ \A r \in DOMAIN R : B[r] = R[r]
    BY <1>4, <1>7 DEF Joins
  <1> HIDE DEF B
  <1>9. q \notin DOMAIN B
    BY <1>2, <1>8
  <1> DEFINE C == Put(B, d)
  <1>10. Joins(C, B, d)
    BY <1>4, <1>9, PutIs
  <1>11. DOMAIN C = DOMAIN B \cup {q} /\ C[q] = d /\ (\A r \in DOMAIN B : C[r] = B[r]) /\ IsMap(C)
    BY <1>4, <1>10 DEF Joins
  <1> HIDE DEF C
  <1>12. A = C
    <2>1. DOMAIN C = DOMAIN A
      BY <1>2, <1>8, <1>11
    <2>2. ASSUME NEW r \in DOMAIN A
          PROVE  C[r] = A[r]
      <3>1. CASE r = p
        BY <3>1, <1>8, <1>11 DEF o
      <3>2. CASE r = q
        BY <3>2, <1>11 DEF d
      <3>3. CASE r # p /\ r # q
        BY <3>3, <1>2, <1>8, <1>11
      <3> QED
        BY <3>1, <3>2, <3>3
    <2> QED
      BY <1>6, <1>11, <2>1, <2>2 DEF IsMap
  <1>13. Side(Put(R, o), d) = A
    BY <1>5, <1>12 DEF Side, B, C
  <1>14. Half(R, p, q, o, d)
    BY <1>2, <1>4, <1>13 DEF Half
  <1> QED
    BY <1>5, <1>13, <1>14 DEF Parted, R, o, d

\* A subtree moves to a Page that is there.
LEMMA MoveOnto ==
    ASSUME NEW A, Held(A), NEW now \in Nat, clock <= now, NEW e \in EntryIds(store),
           NEW kind, NEW key, <<kind, key>> \in DOMAIN store.pages,
           NEW after, MoveEntryToPage(e, kind, key, after, now)
    PROVE  Recording(A)
  <1>1. issued \in 0 .. MaxIds /\ clock \in Nat /\ Paged(A, 1 .. issued, 0 .. clock)
        /\ Holds(store, A)
    BY DEF Held
  <1>2. World(A)
    BY <1>1, WorldIs
  <1>3. PICK p, i : EntryOn(A, e, p, i)
    BY EntryIsOn
  <1>4. PICK q \in DOMAIN A : PageKey(A[q].page) = <<kind, key>>
    BY <1>1 DEF Holds, KeysAre
  <1>5. store.pages[<<kind, key>>] = q
    BY <1>1, <1>4 DEF Holds, KeysAre
  <1>6. LoadOutline(store, store.pages[<<kind, key>>]) = A[q]
    BY <1>1, <1>2, <1>5, LoadedIs DEF World
  <1> DEFINE source == A[p]
             page == A[q]
             left == LeftOutline(source, i, now)
             arrived == ArrivedOutline(source, i, page, after, now)
             R == Drop(A, {p, q})
             erased == EraseContainment(store, Ids(source.entries) \cup Ids(page.entries))
  <1>7. /\ p \in DOMAIN A /\ i \in 1 .. Len(source.entries)
        /\ source = LoadOutline(store, PageOf(store, e)) /\ i = PositionOf(source.entries, e)
    BY <1>3 DEF EntryOn
  <1>8. page = LoadOutline(store, store.pages[<<kind, key>>])
    BY <1>6
  <1> HIDE DEF source, page
  <1>9. /\ source.id # page.id /\ after \in Ids(page.entries) \cup {TopLevel}
        /\ Moving(source, page, left, arrived, erased, issued, now)
    BY <1>7, <1>8, MoveOntoIs
  <1>10. 0 .. clock \subseteq 0 .. now /\ TopLevel \notin 1 .. issued /\ issued \in issued .. MaxIds
         /\ 0 .. now \subseteq Nat /\ now \in 0 .. now
    <2>1. 0 .. clock \subseteq 0 .. now
      BY <1>1, BoundsIs
    <2>2. TopLevel \notin 1 .. issued
      BY <1>1, BoundsIs
    <2> QED
      BY <1>1, <2>1, <2>2, MaxIdsAssumption
  <1>11. Paged(A, 1 .. issued, 0 .. now)
    BY <1>1, <1>10, PagedMore
  <1>12. /\ p \in 1 .. issued /\ Outlined(source, p, 1 .. issued, 0 .. now)
         /\ q \in 1 .. issued /\ Outlined(page, q, 1 .. issued, 0 .. now)
    BY <1>7, <1>11, PagedIs DEF source, page
  <1>13. source.id = p /\ page.id = q /\ p # q
    BY <1>9, <1>12 DEF Outlined
  <1>14. Separate(source, page)
    BY <1>7, <1>11, <1>13 DEF Paged, source, page
  <1>15. Paged(R, 1 .. issued, 0 .. now)
    BY <1>11, DropIs
  <1>16. Parted(A, R, p, q, source, page) /\ page # Absent
    BY <1>2, <1>7, <1>13, TwoPages DEF source, page
  <1> DEFINE g == page.page
             des == page.entries
  <1>17. /\ page = [id |-> q, page |-> g, entries |-> des] /\ g \in PageBlocks
         /\ g.updated \in 0 .. now /\ Page(1 .. issued, Seq(STRING), 0 .. now, des)
    BY <1>12 DEF Outlined
  <1>18. Ids(source.entries) \cap Ids(des) = {} /\ after \in Ids(des) \cup {TopLevel}
    BY <1>9, <1>14 DEF Separate
  <1> HIDE DEF g, des
  <1>19. /\ MovedOutlines(p, q, source, g, des, left, arrived, 1 .. issued, 0 .. now)
         /\ MovedWhole(source, page, left, arrived, now)
    BY <1>7, <1>10, <1>12, <1>17, <1>18, MovedOutlinesAre
  <1> HIDE DEF left, arrived, R, erased
  <1>20. Shared(A, p, q, source, page, left, arrived, 1 .. issued, 0 .. now)
    <2>1. g = page.page /\ des = page.entries
      BY DEF g, des
    <2> QED
      BY <1>16, <1>19, <2>1 DEF MovedOutlines, Shared
  <1>21. PageKey(page.page) = PageKey(arrived.page)
    BY <1>19 DEF MovedOutlines, g
  <1>22. erased = EraseContainment(store, Ids(source.entries) \cup Ids(page.entries))
    BY DEF erased
  <1>23. erased = IF page = Absent THEN IndexPage(erased, page) ELSE erased
    BY <1>16
  <1> QED
    BY <1>9, <1>10, <1>12, <1>13, <1>15, <1>16, <1>19, <1>20, <1>21, <1>22, <1>23, CrossRecords

\* The Page of a move to a date that has none yet.
LEMMA OnePage ==
    ASSUME NEW A, World(A), NEW p \in DOMAIN A, NEW q, q \notin DOMAIN A, q \notin EntriesOf(A)
    PROVE  Parted(A, Drop(A, {p}), p, q, A[p], Absent)
  <1> DEFINE R == Drop(A, {p})
             o == A[p]
  <1>1. Paged(A, BlockIds, Nat)
    BY DEF World
  <1>2. DOMAIN R = DOMAIN A \ {p} /\ IsMap(R)
    <2>1. Leaves(R, A, {p})
      BY <1>1, DropIs
    <2> HIDE DEF R
    <2> QED
      BY <2>1 DEF Leaves
  <1>3. o.id = p
    <2>1. Outlined(o, p, BlockIds, Nat)
      BY <1>1, PagedIs
    <2> HIDE DEF o
    <2> QED
      BY <2>1 DEF Outlined
  <1>4. Put(R, o) = A
    BY <1>1, PutBack
  <1> HIDE DEF R, o
  <1>5. Side(Put(R, o), Absent) = A
    BY <1>4 DEF Side
  <1>6. Half(R, p, q, o, Absent)
    BY <1>2, <1>3, <1>5 DEF Half
  <1> QED
    BY <1>5, <1>6 DEF Parted, R, o

\* A subtree moves to a date that has no Page.
LEMMA MoveToDate ==
    ASSUME NEW A, Held(A), NEW now \in Nat, clock <= now, NEW e \in EntryIds(store),
           NEW kind, NEW key, <<kind, key>> \in Destinations, <<kind, key>> \notin DOMAIN store.pages,
           NEW after, MoveEntryToPage(e, kind, key, after, now)
    PROVE  Recording(A)
  <1>1. issued \in 0 .. MaxIds /\ clock \in Nat /\ Paged(A, 1 .. issued, 0 .. clock)
        /\ Holds(store, A)
    BY DEF Held
  <1>2. World(A)
    BY <1>1, WorldIs
  <1>3. PICK p, i : EntryOn(A, e, p, i)
    BY EntryIsOn
  <1> DEFINE m == issued + 1
             g == PageBlock(kind, key, now)
             page == [id |-> m, page |-> g, entries |-> <<>>]
             source == A[p]
             left == LeftOutline(source, i, now)
             arrived == ArrivedOutline(source, i, page, after, now)
             R == Drop(A, {p})
             erased == EraseContainment(store, Ids(source.entries) \cup Ids(page.entries))
  <1>4. /\ p \in DOMAIN A /\ i \in 1 .. Len(source.entries)
        /\ source = LoadOutline(store, PageOf(store, e)) /\ i = PositionOf(source.entries, e)
    BY <1>3 DEF EntryOn
  <1> HIDE DEF source, page, m
  <1>5. page = [id |-> m, page |-> PageBlock(kind, key, now), entries |-> <<>>] /\ m = issued + 1
    BY DEF page, m
  <1>6. /\ kind = "journal" /\ after = TopLevel /\ issued < MaxIds /\ source.id # page.id
        /\ Moving(source, Absent, left, arrived, IndexPage(erased, page), m, now)
    <2>1. MoveEntryToPage(e, kind, key, after, now) /\ <<kind, key>> \notin DOMAIN store.pages
      OBVIOUS
    <2> QED
      BY ONLY <1>4, <1>5, <2>1, MoveToDateIs
  <1>7. key \in Dates
    <2>1. ASSUME NEW d \in Dates, <<kind, key>> = <<"journal", d>>
          PROVE  key \in Dates
      BY <2>1
    <2>2. ASSUME NEW r \in NamedPages(store), <<kind, key>> = PageKey(store.blocks[r])
          PROVE  FALSE
      BY <1>6, <2>2 DEF NamedPages, PageKey
    <2> QED
      BY <2>1, <2>2 DEF Destinations
  <1>8. g \in PageBlocks /\ g.updated \in 0 .. now /\ PageKey(g) = <<kind, key>>
    BY <1>6, <1>7 DEF PageBlock, PageBlocks, PageKey
  <1> HIDE DEF g
  <1>9. page.id = m /\ page.page = g /\ page.entries = <<>>
    BY DEF page
  <1>10. /\ m \in issued .. MaxIds /\ m \in 1 .. m /\ m \notin 1 .. issued
         /\ 0 .. now \subseteq Nat /\ now \in 0 .. now
    BY <1>1, <1>6, MaxIdsAssumption DEF m
  <1>11. /\ 0 .. clock \subseteq 0 .. now /\ 1 .. issued \subseteq 1 .. m
    <2>1. 0 .. clock \subseteq 0 .. now
      BY <1>1, BoundsIs
    <2>2. 1 .. issued \subseteq 1 .. m
      BY <1>1, <1>10, BoundsIs
    <2> QED
      BY <2>1, <2>2
  <1>12. TopLevel \notin 1 .. m
    <2>1. m \in 0 .. MaxIds
      BY <1>1, <1>10, BoundsIs
    <2> QED
      BY <2>1, <1>1, BoundsIs
  <1>13. Paged(A, 1 .. m, 0 .. now)
    BY <1>1, <1>11, <1>12, PagedMore
  <1>14. p \in 1 .. m /\ Outlined(source, p, 1 .. m, 0 .. now)
    BY <1>4, <1>13, PagedIs DEF source
  <1>15. Paged(R, 1 .. m, 0 .. now)
    BY <1>13, DropIs
  <1>16. m \notin DOMAIN A /\ m \notin EntriesOf(A)
    <2>1. DOMAIN A \subseteq 1 .. issued
      BY <1>1 DEF Paged
    <2>2. ASSUME NEW r \in DOMAIN A
          PROVE  Ids(A[r].entries) \subseteq 1 .. issued
      <3>1. Outlined(A[r], r, 1 .. issued, 0 .. clock)
        BY <1>1 DEF Paged
      <3> QED
        BY <3>1, OutlinedIs
    <2>3. EntriesOf(A) \subseteq 1 .. issued
      BY <2>2 DEF EntriesOf
    <2> QED
      BY <1>10, <2>1, <2>3
  <1>17. Parted(A, R, p, m, source, Absent)
    BY <1>2, <1>4, <1>16, OnePage DEF source
  <1>18. Page(1 .. m, Seq(STRING), 0 .. now, <<>>) /\ Ids(<<>>) = {}
    BY <1>12, EmptyPage
  <1>19. Absent.entries = <<>>
    BY DEF Absent
  <1>20. /\ page = [id |-> m, page |-> g, entries |-> <<>>]
         /\ Ids(source.entries) \cap Ids(<<>>) = {} /\ after \in Ids(<<>>) \cup {TopLevel}
    BY <1>6, <1>18 DEF page
  <1>21. /\ MovedOutlines(p, m, source, g, <<>>, left, arrived, 1 .. m, 0 .. now)
         /\ MovedWhole(source, page, left, arrived, now)
    BY <1>4, <1>8, <1>10, <1>14, <1>18, <1>20, MovedOutlinesAre
  <1> HIDE DEF left, arrived, R, erased
  <1>22. \A r \in DOMAIN A : PageKey(A[r].page) # PageKey(arrived.page)
    <2>1. PageKey(arrived.page) = <<kind, key>>
      BY <1>8, <1>21 DEF MovedOutlines
    <2>2. \A r \in DOMAIN A : PageKey(A[r].page) \in DOMAIN store.pages
      BY <1>1 DEF Holds, KeysAre
    <2> QED
      BY <2>1, <2>2
  <1>23. Shared(A, p, m, source, Absent, left, arrived, 1 .. m, 0 .. now)
    BY <1>19, <1>21, <1>22 DEF MovedOutlines, Shared
  <1>24. PageKey(page.page) = PageKey(arrived.page)
    BY <1>9, <1>21 DEF MovedOutlines
  <1>25. erased = EraseContainment(store, Ids(source.entries) \cup Ids(Absent.entries))
    BY <1>9, <1>19 DEF erased
  <1> DEFINE u == IndexPage(erased, page)
             nobody == Absent
  <1>26. u = IF nobody = Absent THEN IndexPage(erased, page) ELSE erased
    OBVIOUS
  <1>27. /\ Parted(A, R, p, m, source, nobody)
         /\ Shared(A, p, m, source, nobody, left, arrived, 1 .. m, 0 .. now)
         /\ erased = EraseContainment(store, Ids(source.entries) \cup Ids(nobody.entries))
         /\ Moving(source, nobody, left, arrived, u, m, now)
         /\ nobody # Absent => page = nobody
    BY <1>6, <1>17, <1>23, <1>25
  <1> HIDE DEF u, nobody
  <1> QED
    BY <1>9, <1>10, <1>14, <1>15, <1>21, <1>24, <1>26, <1>27, CrossRecords

\* A subtree moves to another Page.
LEMMA MoveEntryToPageRecords ==
    ASSUME NEW A, Held(A), NEW now \in Nat, clock <= now, MoveCommand(now)
    PROVE  Recording(A)
  <1>1. PICK e \in EntryIds(store), to \in Destinations :
           \E after \in EntryIds(store) \cup {TopLevel} : MoveEntryToPage(e, to[1], to[2], after, now)
    BY DEF MoveCommand
  <1>2. PICK after : MoveEntryToPage(e, to[1], to[2], after, now)
    BY <1>1
  <1>3. to = <<to[1], to[2]>>
    BY DEF Destinations, PageKey
  <1> DEFINE kind == to[1]
             key == to[2]
  <1>4. /\ MoveEntryToPage(e, kind, key, after, now) /\ <<kind, key>> \in Destinations
    BY <1>2, <1>3
  <1> HIDE DEF kind, key
  <1>5. CASE <<kind, key>> \in DOMAIN store.pages
    BY <1>4, <1>5, MoveOnto
  <1>6. CASE <<kind, key>> \notin DOMAIN store.pages
    BY <1>4, <1>6, MoveToDate
  <1> QED
    BY <1>5, <1>6

-----------------------------------------------------------------------------
\* Every step, and what holds in every reachable state.

\* A command on a Page is recorded, or changes no Page.
LEMMA PageCommandRecords ==
    ASSUME NEW A, Held(A), NEW now \in Nat, clock <= now, PageCommand(now)
    PROVE  Recording(A) \/ Repeating(A)
  <1>1. ASSUME NEW name \in Names, CreatePage(name, now)
        PROVE  Recording(A)
    BY <1>1, CreatePageRecords
  <1>2. ASSUME NEW p \in NamedPages(store), DeletePage(p, now)
        PROVE  Recording(A)
    BY <1>2, DeletePageRecords
  <1>3. ASSUME NEW p \in NamedPages(store), NEW name \in Names, RenamePage(p, name, now)
        PROVE  Recording(A) \/ Repeating(A)
    BY <1>3, RenamePageRecords
  <1>4. ASSUME NEW p \in NamedPages(store), NEW after \in Containers(store, p), NEW text \in Typed,
               InsertPageEntry(p, after, text, now)
        PROVE  Recording(A)
    BY <1>4, InsertPageEntryRecords
  <1>5. ASSUME NEW date \in Dates, NEW text \in Typed,
               NEW after \in Ids(LoadOutlineForDate(store, date).entries) \cup {TopLevel},
               InsertJournalEntry(date, after, text, now)
        PROVE  Recording(A)
    BY <1>5, InsertJournalEntryRecords
  <1> QED
    BY <1>1, <1>2, <1>3, <1>4, <1>5 DEF PageCommand

\* So is every command.
LEMMA CommandRecords ==
    ASSUME NEW A, Held(A), NEW now \in Nat, clock <= now, Command(now)
    PROVE  Recording(A) \/ Repeating(A)
  <1>1. ASSUME PageCommand(now)
        PROVE  Recording(A) \/ Repeating(A)
    BY <1>1, PageCommandRecords
  <1>2. ASSUME NEW e \in EntryIds(store), EntryCommand(PageKind(e), e, now)
        PROVE  Recording(A)
    BY <1>2, EntryCommandRecords
  <1>3. ASSUME NEW p \in PageIds(store),
               NEW ids \in (SUBSET Ids(LoadOutline(store, p).entries)) \ {{}},
               DeleteSubtrees(store.blocks[p].kind, ids, now)
        PROVE  Recording(A)
    <2>1. ids \in SUBSET Ids(LoadOutline(store, p).entries)
      BY <1>3
    <2>2. ids # {}
      BY <1>3
    <2> QED
      BY <1>3, <2>1, <2>2, DeleteSubtreesRecords
  <1>4. ASSUME MoveCommand(now)
        PROVE  Recording(A)
    BY <1>4, MoveEntryToPageRecords
  <1> QED
    BY <1>1, <1>2, <1>3, <1>4 DEF Command

\* A command takes some time.
LEMMA TickRecords ==
    ASSUME NEW A, Held(A), NEW tick \in Ticks, Command(clock + tick)
    PROVE  Recording(A) \/ Repeating(A)
  <1>1. clock \in Nat /\ tick \in Nat
    BY TicksAssumption DEF Held
  <1> DEFINE now == clock + tick
  <1>2. now \in Nat /\ clock <= now
    BY <1>1
  <1>3. Command(now)
    OBVIOUS
  <1> HIDE DEF now
  <1> QED
    BY <1>2, <1>3, CommandRecords

\* Every step keeps the state coherent.
LEMMA NextCoherent ==
    ASSUME Inv, [Next]_vars
    PROVE  Inv'
  <1>1. ASSUME NEW tick \in Ticks, Command(clock + tick)
        PROVE  Inv'
    <2>1. \A A : Held(A) => Recording(A) \/ Repeating(A)
      BY <1>1, TickRecords
    <2> QED
      BY <2>1, CommandCoherent
  <1>2. ASSUME NEW t \in HistoryTracks, UndoEdit(t) \/ RedoEdit(t)
        PROVE  Inv'
    BY <1>2, HistoryCoherent
  <1>3. ASSUME Open \/ Close
        PROVE  Inv'
    BY <1>3, OpenCloseCoherent
  <1>4. ASSUME UNCHANGED vars
        PROVE  Inv'
    BY <1>4 DEF Inv, vars
  <1> QED
    BY <1>1, <1>2, <1>3, <1>4 DEF Next

\* The state is coherent, whatever commands the session runs.
THEOREM CoherentHolds == Spec => []Inv
  <1>1. Init => Inv
    BY InitCoherent
  <1>2. Inv /\ [Next]_vars => Inv'
    BY NextCoherent
  <1> QED
    BY <1>1, <1>2, PTL DEF Spec

\* The cached revision of an open session is that of the last commit, and no Block bears an
\* identifier or a time that was not handed out: every command, undo and redo goes through
\* one place that advances both (incrementCachedRevision).
THEOREM TypeOKHolds == Spec => []TypeOK
  <1>1. Inv => TypeOK
    BY CoherentPromises
  <1> QED
    BY <1>1, CoherentHolds, PTL

\* ADR-0023: whatever is edited, moved, renamed, deleted, undone and redone, each entry has one
\* parent and one rank in both databases, and the chain of its parents ends at one Page.
THEOREM PageRootedContainmentHolds == Spec => []PageRootedContainment
  <1>1. Inv => PageRootedContainment
    BY CoherentPromises
  <1> QED
    BY <1>1, CoherentHolds, PTL

\* pagesByName and journalByDate have every Page under the key it bears and no other Page,
\* though creating, renaming, deleting, materializing and undoing each write them in their own way.
THEOREM PageIndexesAgreeHolds == Spec => []PageIndexesAgree
  <1>1. Inv => PageIndexesAgree
    BY CoherentPromises
  <1> QED
    BY <1>1, CoherentHolds, PTL

\* The action at the end of a deque can always be applied: restoreOutline, restorePageState and
\* applyCrossPageHistory never meet a key that is taken or missing, however undo and redo of the
\* three kinds of actions were interleaved with commands.
THEOREM HistoryNeverStuckHolds == Spec => []HistoryNeverStuck
  <1>1. Inv => HistoryNeverStuck
    BY CoherentPromises
  <1> QED
    BY <1>1, CoherentHolds, PTL
=============================================================================
