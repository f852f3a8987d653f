--------------------------- MODULE Outline_proofs ---------------------------
(**************************************************************************)
(* Lemmas about the edits of an outline. A preorder is seen as a walk: a  *)
(* function D that gives every position the position of its parent, or 0, *)
(* such that the subtrees nest (Walk). Each edit turns the walk of a Page *)
(* into another one: an entry more (GrownWalk), an entry deeper, entries  *)
(* less (ThinnedWalk), two runs that change places (TurnedWalk). The      *)
(* entries before and after name the parents of these walks, so that the  *)
(* edited Page is in preorder again.                                      *)
(*                                                                        *)
(* The first section is about no outline: it shows what is shown by       *)
(* induction. Everything there rests on the library's well-founded        *)
(* orders, so no operator is a parameter.                                 *)
(**************************************************************************)
EXTENDS Outline, FiniteSets, Integers, TLAPS, FiniteSetTheorems, WellFoundedInduction,
        NaturalsInduction, SequenceTheorems

-----------------------------------------------------------------------------
\* What is shown by induction: least numbers, induction for a set of numbers instead
\* of an operator, the values a recursive definition computes, and sums over a finite
\* set (SumFunctionOnSet).  The bytes and the counts of the session history are such
\* sums; BelowAny and Remaining of an outline are such recursions.

\* A set of natural numbers that is not empty has a least element.
LEMMA LeastNumber ==
    ASSUME NEW N \in SUBSET Nat, N # {}
    PROVE  \E x \in N : \A y \in N : x <= y
  <1>1. PICK x \in N : \A y \in N : ~(<<y, x>> \in OpToRel(<, Nat))
    BY NatLessThanWellFounded, WFMin
  <1>2. \A y \in N : ~(y < x)
    BY <1>1 DEF OpToRel
  <1>3. \A y \in N : x <= y
    BY <1>2
  <1> QED
    BY <1>3

\* A set of numbers below a bound has a greatest one.
LEMMA GreatestNumber ==
    ASSUME NEW b \in Nat, NEW S \in SUBSET (1 .. b), S # {}
    PROVE  \E x \in S : \A y \in S : y <= x
  <1> DEFINE N == {b - x : x \in S}
  <1>1. N \in SUBSET Nat /\ N # {}
    <2>1. \A x \in S : x \in 1 .. b /\ b - x \in Nat
      OBVIOUS
    <2>2. N \subseteq Nat
      BY <2>1
    <2>3. PICK x \in S : TRUE
      OBVIOUS
    <2>4. b - x \in N
      OBVIOUS
    <2> QED
      BY <2>2, <2>4
  <1>2. PICK z \in N : \A y \in N : z <= y
    BY <1>1, LeastNumber
  <1>3. PICK x \in S : z = b - x
    OBVIOUS
  <1>4. ASSUME NEW y \in S
        PROVE  y <= x
    <2>1. b - y \in N
      OBVIOUS
    <2>2. b - x <= b - y
      BY <1>2, <1>3, <2>1
    <2> QED
      BY <2>2
  <1> QED
    BY <1>4

\* Induction over the natural numbers, for a set instead of an operator.
LEMMA IndexInduction ==
    ASSUME NEW I, 0 \in I, \A m \in Nat : m \in I => m + 1 \in I
    PROVE  \A m \in Nat : m \in I
  <1> SUFFICES ASSUME NEW k \in Nat, k \notin I
               PROVE  FALSE
    OBVIOUS
  <1> DEFINE N == {m \in Nat : m \notin I}
  <1>1. N \in SUBSET Nat /\ N # {}
    OBVIOUS
  <1>2. PICK x \in N : \A y \in N : x <= y
    <2> HIDE DEF N
    <2> QED
      BY <1>1, LeastNumber
  <1>3. x \in Nat /\ x \notin I /\ x # 0
    BY <1>2
  <1>4. x - 1 \in Nat /\ (x - 1) + 1 = x /\ ~(x <= x - 1)
    BY <1>3
  <1>5. x - 1 \in I
    BY <1>2, <1>4
  <1>6. (x - 1) + 1 \in I
    BY <1>4, <1>5
  <1> QED
    BY <1>3, <1>4, <1>6

\* F computes a value of A from each number up to n and a value of A.
StepsIn(A, F, n) == \A m \in 1 .. n, v \in A : F[m][v] \in A

\* The values computed so, from a and the value before.
StepsFrom(A, a, F, k, g) ==
    g \in [0 .. k -> A] /\ g[0] = a /\ \A m \in 1 .. k : g[m] = F[m][g[m - 1]]

\* One step more.
LEMMA StepMore ==
    ASSUME NEW A, NEW a \in A, NEW F, NEW n \in Nat, StepsIn(A, F, n),
           NEW k \in Nat, k + 1 <= n, NEW g, StepsFrom(A, a, F, k, g)
    PROVE  \E h : StepsFrom(A, a, F, k + 1, h)
  <1> DEFINE h == [m \in 0 .. (k + 1) |-> IF m = k + 1 THEN F[k + 1][g[k]] ELSE g[m]]
  <1>1. g \in [0 .. k -> A] /\ g[0] = a /\ \A m \in 1 .. k : g[m] = F[m][g[m - 1]]
    BY DEF StepsFrom
  <1>2. F[k + 1][g[k]] \in A
    <2>1. k + 1 \in 1 .. n /\ k \in 0 .. k
      OBVIOUS
    <2>2. g[k] \in A
      BY <1>1, <2>1
    <2> QED
      BY <2>1, <2>2 DEF StepsIn
  <1>3. /\ h[k + 1] = F[k + 1][g[k]]
        /\ \A m \in 0 .. k : h[m] = g[m]
    <2>1. k + 1 \in 0 .. (k + 1) /\ \A m \in 0 .. k : m \in 0 .. (k + 1) /\ m # k + 1
      OBVIOUS
    <2> QED
      BY <2>1
  <1>4. h \in [0 .. (k + 1) -> A]
    <2>1. \A m \in 0 .. (k + 1) : m # k + 1 => m \in 0 .. k
      OBVIOUS
    <2>2. \A m \in 0 .. (k + 1) : (IF m = k + 1 THEN F[k + 1][g[k]] ELSE g[m]) \in A
      BY <1>1, <1>2, <2>1
    <2> QED
      BY <2>2
  <1> HIDE DEF h
  <1>5. h[0] = a
    <2>1. 0 \in 0 .. k
      OBVIOUS
    <2> QED
      BY <1>1, <1>3, <2>1
  <1>6. ASSUME NEW m \in 1 .. (k + 1)
        PROVE  h[m] = F[m][h[m - 1]]
    <2>1. CASE m = k + 1
      <3>1. m - 1 = k /\ k \in 0 .. k
        BY <2>1
      <3> QED
        BY <1>3, <2>1, <3>1
    <2>2. CASE m # k + 1
      <3>1. m \in 1 .. k /\ m \in 0 .. k /\ m - 1 \in 0 .. k
        BY <2>2
      <3> QED
        BY <1>1, <1>3, <3>1
    <2> QED
      BY <2>1, <2>2
  <1> QED
    BY <1>4, <1>5, <1>6 DEF StepsFrom

\* A sequence of values, each computed from its number and the one before it, exists.
LEMMA StepsExist ==
    ASSUME NEW A, NEW a \in A, NEW F, NEW n \in Nat, StepsIn(A, F, n)
    PROVE  \E g : StepsFrom(A, a, F, n, g)
  <1> DEFINE I == {k \in Nat : k <= n => \E g : StepsFrom(A, a, F, k, g)}
  <1>1. 0 \in I
    <2> DEFINE g == [m \in 0 .. 0 |-> a]
    <2>1. g \in [0 .. 0 -> A] /\ g[0] = a
      OBVIOUS
    <2>2. 1 .. 0 = {}
      OBVIOUS
    <2> HIDE DEF g
    <2>3. StepsFrom(A, a, F, 0, g)
      BY <2>1, <2>2 DEF StepsFrom
    <2> QED
      BY <2>3
  <1>2. ASSUME NEW k \in Nat, k \in I
        PROVE  k + 1 \in I
    <2>1. ASSUME k + 1 <= n
          PROVE  \E h : StepsFrom(A, a, F, k + 1, h)
      <3>1. k <= n
        BY <2>1
      <3>2. PICK g : StepsFrom(A, a, F, k, g)
        BY <1>2, <3>1
      <3> QED
        BY <2>1, <3>2, StepMore
    <2>2. k + 1 \in Nat
      OBVIOUS
    <2> QED
      BY <2>1, <2>2
  <1>3. \A k \in Nat : k \in I
    <2> HIDE DEF I
    <2> QED
      BY <1>1, <1>2, IndexInduction
  <1>4. n <= n
    OBVIOUS
  <1> QED
    BY <1>3, <1>4
-----------------------------------------------------------------------------
\* Induction over the subsets of a finite set: what holds of a subset when it holds
\* of that subset without any one of its elements, holds of them all.
LEMMA SubsetInduction ==
    ASSUME NEW S, IsFiniteSet(S), NEW I,
           \A T \in SUBSET S : (\A x \in T : T \ {x} \in I) => T \in I
    PROVE  SUBSET S \subseteq I
  <1> DEFINE Out == (SUBSET S) \ I
  <1> SUFFICES ASSUME Out # {}
               PROVE  FALSE
    OBVIOUS
  <1>1. Out \subseteq FiniteSubsetsOf(S)
    <2>1. \A T \in SUBSET S : IsFiniteSet(T)
      BY FS_Subset
    <2> QED
      BY <2>1 DEF FiniteSubsetsOf
  <1>2. PICK T \in Out : \A U \in Out : ~ (<<U, T>> \in StrictSubsetOrdering(S))
    <2>1. IsWellFoundedOn(StrictSubsetOrdering(S), FiniteSubsetsOf(S))
      BY FS_StrictSubsetOrderingWellFounded
    <2> HIDE DEF Out
    <2> QED
      BY <1>1, <2>1, WFMin
  <1>3. ASSUME NEW x \in T
        PROVE  T \ {x} \notin Out
    <2>1. T \ {x} \in SUBSET S /\ T \in SUBSET S /\ T \ {x} \subseteq T /\ T \ {x} # T
      BY <1>2, <1>3
    <2>2. <<T \ {x}, T>> \in StrictSubsetOrdering(S)
      BY <2>1 DEF StrictSubsetOrdering
    <2> HIDE DEF Out
    <2> QED
      BY <1>2, <2>2
  <1>4. \A x \in T : T \ {x} \in I
    BY <1>2, <1>3
  <1> QED
    BY <1>2, <1>4

\* The element the fold takes next.
Chosen(s) == CHOOSE x \in s : TRUE

\* g maps every subset of S to the sum over it.
Summing(f, S, g) ==
  g = [s \in SUBSET S |-> IF s = {} THEN 0 ELSE f[Chosen(s)] + g[s \ {Chosen(s)}]]

\* It is an element of the set.
LEMMA ChosenIn == \A s : s # {} => Chosen(s) \in s
  BY DEF Chosen

\* The sum is the value at S of such a function.
LEMMA SumDef ==
  ASSUME NEW f, NEW S
  PROVE  SumFunctionOnSet(f, S) = (CHOOSE g : Summing(f, S, g))[S]
  BY DEF SumFunctionOnSet, FoldFunctionOnSet, MapThenFoldSet, Summing, Chosen

\* Its values, one element at a time.
LEMMA SummingAt ==
  ASSUME NEW f, NEW S, NEW g, Summing(f, S, g)
  PROVE  /\ DOMAIN g = SUBSET S
         /\ g[{}] = 0
         /\ \A s \in SUBSET S : s # {} => g[s] = f[Chosen(s)] + g[s \ {Chosen(s)}]
  <1>1. DOMAIN g = SUBSET S
    BY DEF Summing
  <1>2. \A s \in SUBSET S : g[s] = IF s = {} THEN 0 ELSE f[Chosen(s)] + g[s \ {Chosen(s)}]
    BY DEF Summing
  <1>3. {} \in SUBSET S
    OBVIOUS
  <1> QED
    BY <1>1, <1>2, <1>3, Zenon


\* A function that satisfies the equations is that function.
LEMMA SummingFrom ==
  ASSUME NEW f, NEW S, NEW g, g = [s \in SUBSET S |-> g[s]],
         g[{}] = 0,
         \A s \in SUBSET S : s # {} => g[s] = f[Chosen(s)] + g[s \ {Chosen(s)}]
  PROVE  Summing(f, S, g)
  <1>1. ASSUME NEW s \in SUBSET S
        PROVE  g[s] = IF s = {} THEN 0 ELSE f[Chosen(s)] + g[s \ {Chosen(s)}]
    OBVIOUS
  <1>2. g = [s \in SUBSET S |-> IF s = {} THEN 0 ELSE f[Chosen(s)] + g[s \ {Chosen(s)}]]
    BY <1>1
  <1> QED
    BY <1>2 DEF Summing

\* Restricted to the subsets of a subset it is that subset's.
LEMMA SummingRestricted ==
  ASSUME NEW f, NEW S, NEW g, Summing(f, S, g), NEW T \in SUBSET S
  PROVE  Summing(f, T, [s \in SUBSET T |-> g[s]])
  <1> DEFINE r == [s \in SUBSET T |-> g[s]]
  <1>1. r[{}] = 0
    BY SummingAt
  <1>2. ASSUME NEW s \in SUBSET T, s # {}
        PROVE  r[s] = f[Chosen(s)] + r[s \ {Chosen(s)}]
    <2>1. s \in SUBSET S /\ s \ {Chosen(s)} \in SUBSET T
      OBVIOUS
    <2>2. r[s] = g[s] /\ r[s \ {Chosen(s)}] = g[s \ {Chosen(s)}]
      BY <2>1
    <2>3. \A u \in SUBSET S : u # {} => g[u] = f[Chosen(u)] + g[u \ {Chosen(u)}]
      BY DEF Summing
    <2>4. g[s] = f[Chosen(s)] + g[s \ {Chosen(s)}]
      BY <1>2, <2>1, <2>3
    <2> QED
      BY <2>2, <2>4
  <1>3. r = [s \in SUBSET T |-> r[s]]
    OBVIOUS
  <1> HIDE DEF r
  <1>4. Summing(f, T, r)
    BY <1>1, <1>2, <1>3, SummingFrom
  <1> QED
    BY <1>4 DEF r

\* There is at most one such function ...
LEMMA SummingUnique ==
  ASSUME NEW f, NEW S, IsFiniteSet(S), NEW g, NEW h, Summing(f, S, g), Summing(f, S, h)
  PROVE  g = h
  <1> DEFINE I == {T \in SUBSET S : g[T] = h[T]}
  <1>1. ASSUME NEW T \in SUBSET S, \A x \in T : T \ {x} \in I
        PROVE  T \in I
    <2>1. CASE T = {}
      BY <2>1, SummingAt
    <2>2. CASE T # {}
      <3>1. Chosen(T) \in T
        BY <2>2, ChosenIn
      <3>2. g[T \ {Chosen(T)}] = h[T \ {Chosen(T)}]
        BY <1>1, <3>1
      <3>3. /\ \A u \in SUBSET S : u # {} => g[u] = f[Chosen(u)] + g[u \ {Chosen(u)}]
            /\ \A u \in SUBSET S : u # {} => h[u] = f[Chosen(u)] + h[u \ {Chosen(u)}]
        BY DEF Summing
      <3>4. /\ g[T] = f[Chosen(T)] + g[T \ {Chosen(T)}]
            /\ h[T] = f[Chosen(T)] + h[T \ {Chosen(T)}]
        BY <2>2, <3>3
      <3> QED
        BY <3>2, <3>4
    <2> QED
      BY <2>1, <2>2
  <1> HIDE DEF I
  <1>2. SUBSET S \subseteq I
    BY <1>1, SubsetInduction
  <1>3. \A T \in SUBSET S : g[T] = h[T]
    BY <1>2 DEF I
  <1>4. g = [T \in SUBSET S |-> g[T]] /\ h = [T \in SUBSET S |-> h[T]]
    BY DEF Summing
  <1> QED
    BY <1>3, <1>4

\* Such a function gives the sum over each subset.
LEMMA SummingIsSum ==
  ASSUME NEW f, NEW S, IsFiniteSet(S), NEW g, Summing(f, S, g), NEW T \in SUBSET S
  PROVE  SumFunctionOnSet(f, T) = g[T]
  <1> DEFINE r == [s \in SUBSET T |-> g[s]]
             c == CHOOSE h : Summing(f, T, h)
  <1>1. Summing(f, T, r)
    BY SummingRestricted
  <1>2. Summing(f, T, c)
    BY <1>1
  <1>3. IsFiniteSet(T)
    BY FS_Subset
  <1>4. r[T] = g[T]
    OBVIOUS
  <1> HIDE DEF r, c
  <1>5. c = r
    BY <1>1, <1>2, <1>3, SummingUnique
  <1>6. SumFunctionOnSet(f, T) = c[T]
    BY SumDef DEF c
  <1> QED
    BY <1>4, <1>5, <1>6

\* ... and, over a finite set, there is one.
LEMMA SummingExists ==
  ASSUME NEW f, NEW S, IsFiniteSet(S)
  PROVE  \E g : Summing(f, S, g)
  <1> DEFINE I == {T \in SUBSET S : \E g : Summing(f, T, g)}
  <1>1. ASSUME NEW T \in SUBSET S, \A x \in T : T \ {x} \in I
        PROVE  T \in I
    <2> DEFINE top == IF T = {} THEN 0 ELSE f[Chosen(T)] + SumFunctionOnSet(f, T \ {Chosen(T)})
               g == [s \in SUBSET T |-> IF s = T THEN top ELSE SumFunctionOnSet(f, s)]
    <2>1. ASSUME NEW s \in SUBSET T, s # T
          PROVE  /\ s = {} => SumFunctionOnSet(f, s) = 0
                 /\ s # {} => SumFunctionOnSet(f, s) =
                                 f[Chosen(s)] + SumFunctionOnSet(f, s \ {Chosen(s)})
      <3>1. PICK x \in T : x \notin s
        BY <2>1
      <3>2. PICK h : Summing(f, T \ {x}, h)
        BY <1>1
      <3>3. IsFiniteSet(T \ {x})
        BY FS_Subset
      <3>4. s \in SUBSET (T \ {x}) /\ s \ {Chosen(s)} \in SUBSET (T \ {x})
        BY <3>1
      <3>5. SumFunctionOnSet(f, s) = h[s] /\ SumFunctionOnSet(f, s \ {Chosen(s)}) = h[s \ {Chosen(s)}]
        BY <3>2, <3>3, <3>4, SummingIsSum
      <3>6. /\ h[{}] = 0
            /\ \A u \in SUBSET (T \ {x}) : u # {} => h[u] = f[Chosen(u)] + h[u \ {Chosen(u)}]
        BY <3>2, SummingAt DEF Summing
      <3>7. s # {} => h[s] = f[Chosen(s)] + h[s \ {Chosen(s)}]
        BY <3>4, <3>6
      <3> QED
        BY <3>5, <3>6, <3>7
    <2>2. g[{}] = 0
      BY <2>1
    <2>3. ASSUME NEW s \in SUBSET T, s # {}
          PROVE  g[s] = f[Chosen(s)] + g[s \ {Chosen(s)}]
      <3>1. Chosen(s) \in s
        BY <2>3, ChosenIn
      <3>2. s \ {Chosen(s)} \in SUBSET T /\ s \ {Chosen(s)} # T
        BY <3>1
      <3>3. g[s \ {Chosen(s)}] = SumFunctionOnSet(f, s \ {Chosen(s)})
        BY <3>2
      <3>4. CASE s = T
        BY <2>3, <3>3, <3>4
      <3>5. CASE s # T
        BY <2>1, <2>3, <3>3, <3>5
      <3> QED
        BY <3>4, <3>5
    <2>4. g = [s \in SUBSET T |-> g[s]]
      OBVIOUS
    <2> HIDE DEF g
    <2>5. Summing(f, T, g)
      BY <2>2, <2>3, <2>4, SummingFrom
    <2> QED
      BY <2>5
  <1> HIDE DEF I
  <1>2. SUBSET S \subseteq I
    BY <1>1, SubsetInduction
  <1> QED
    BY <1>2 DEF I
-----------------------------------------------------------------------------
\* The sum over the empty set is zero.
LEMMA SumEmpty ==
  ASSUME NEW f
  PROVE  SumFunctionOnSet(f, {}) = 0
  <1>1. PICK g : Summing(f, {}, g)
    BY SummingExists, FS_EmptySet
  <1>2. SumFunctionOnSet(f, {}) = g[{}]
    BY <1>1, FS_EmptySet, SummingIsSum
  <1> QED
    BY <1>1, <1>2, SummingAt

\* The sum takes the chosen element first.
LEMMA SumChosen ==
  ASSUME NEW f, NEW S, IsFiniteSet(S), S # {}
  PROVE  SumFunctionOnSet(f, S) = f[Chosen(S)] + SumFunctionOnSet(f, S \ {Chosen(S)})
  <1>1. PICK g : Summing(f, S, g)
    BY SummingExists
  <1>2. SumFunctionOnSet(f, S) = g[S] /\ SumFunctionOnSet(f, S \ {Chosen(S)}) = g[S \ {Chosen(S)}]
    BY <1>1, SummingIsSum
  <1>3. \A u \in SUBSET S : u # {} => g[u] = f[Chosen(u)] + g[u \ {Chosen(u)}]
    BY <1>1 DEF Summing
  <1>4. g[S] = f[Chosen(S)] + g[S \ {Chosen(S)}]
    BY <1>3
  <1> QED
    BY <1>2, <1>4

\* A sum of naturals is a natural.
LEMMA SumIsNat ==
  ASSUME NEW f, NEW S, IsFiniteSet(S), \A x \in S : f[x] \in Nat
  PROVE  SumFunctionOnSet(f, S) \in Nat
  <1> DEFINE I == {T \in SUBSET S : SumFunctionOnSet(f, T) \in Nat}
  <1>1. ASSUME NEW T \in SUBSET S, \A x \in T : T \ {x} \in I
        PROVE  T \in I
    <2>1. CASE T = {}
      BY <2>1, SumEmpty
    <2>2. CASE T # {}
      <3>1. Chosen(T) \in T
        BY <2>2, ChosenIn
      <3>2. SumFunctionOnSet(f, T \ {Chosen(T)}) \in Nat /\ f[Chosen(T)] \in Nat
        BY <1>1, <3>1
      <3>3. SumFunctionOnSet(f, T) = f[Chosen(T)] + SumFunctionOnSet(f, T \ {Chosen(T)})
        BY <2>2, FS_Subset, SumChosen
      <3> QED
        BY <3>2, <3>3
    <2> QED
      BY <2>1, <2>2
  <1> HIDE DEF I
  <1>2. SUBSET S \subseteq I
    BY <1>1, SubsetInduction
  <1> QED
    BY <1>2 DEF I

\* Whichever element is taken first, the sum is the same.
LEMMA SumRemove ==
  ASSUME NEW f, NEW S, IsFiniteSet(S), \A x \in S : f[x] \in Nat, NEW x \in S
  PROVE  SumFunctionOnSet(f, S) = f[x] + SumFunctionOnSet(f, S \ {x})
  <1> DEFINE Total(T) == SumFunctionOnSet(f, T)
             I == {T \in SUBSET S : \A y \in T : Total(T) = f[y] + Total(T \ {y})}
  <1>1. \A T \in SUBSET S : Total(T) \in Nat /\ IsFiniteSet(T)
    BY FS_Subset, SumIsNat
  <1>2. \A T \in SUBSET S : T # {} => Total(T) = f[Chosen(T)] + Total(T \ {Chosen(T)})
    BY <1>1, SumChosen
  <1> HIDE DEF Total
  <1>3. ASSUME NEW T \in SUBSET S, \A y \in T : T \ {y} \in I
        PROVE  T \in I
    <2>1. ASSUME NEW y \in T, y # Chosen(T)
          PROVE  Total(T) = f[y] + Total(T \ {y})
      <3> DEFINE z == Chosen(T)
      <3>1. z \in T /\ Total(T) = f[z] + Total(T \ {z})
        BY <1>2, ChosenIn
      <3> HIDE DEF z
      <3>2. y \in T \ {z} /\ z \in T \ {y} /\ (T \ {z}) \ {y} = (T \ {y}) \ {z}
        BY <2>1, <3>1 DEF z
      <3>3. /\ Total(T \ {z}) = f[y] + Total((T \ {z}) \ {y})
            /\ Total(T \ {y}) = f[z] + Total((T \ {y}) \ {z})
        BY <1>3, <3>1, <3>2
      <3> DEFINE rest == Total((T \ {z}) \ {y})
      <3>4. f[y] \in Nat /\ f[z] \in Nat /\ rest \in Nat
        BY <1>1, <3>1
      <3>5. Total(T \ {z}) = f[y] + rest /\ Total(T \ {y}) = f[z] + rest
        BY <3>2, <3>3
      <3> HIDE DEF rest
      <3>6. f[z] + Total(T \ {z}) = f[y] + Total(T \ {y})
        BY <3>4, <3>5
      <3> QED
        BY <3>1, <3>6
    <2>2. \A y \in T : Total(T) = f[y] + Total(T \ {y})
      BY <1>2, <2>1
    <2> QED
      BY <2>2
  <1> HIDE DEF I
  <1>4. SUBSET S \subseteq I
    BY <1>3, SubsetInduction
  <1>5. Total(S) = f[x] + Total(S \ {x})
    BY <1>4 DEF I
  <1> QED
    BY <1>5 DEF Total

\* The sum depends on the values over the set only.
LEMMA SumExtensional ==
  ASSUME NEW f, NEW h, NEW S, IsFiniteSet(S), \A x \in S : f[x] \in Nat /\ h[x] = f[x]
  PROVE  SumFunctionOnSet(h, S) = SumFunctionOnSet(f, S)
  <1> DEFINE I == {T \in SUBSET S : SumFunctionOnSet(h, T) = SumFunctionOnSet(f, T)}
  <1>1. ASSUME NEW T \in SUBSET S, \A x \in T : T \ {x} \in I
        PROVE  T \in I
    <2>1. CASE T = {}
      BY <2>1, SumEmpty
    <2>2. CASE T # {}
      <3>1. PICK x \in T : TRUE
        BY <2>2
      <3>2. /\ SumFunctionOnSet(f, T) = f[x] + SumFunctionOnSet(f, T \ {x})
            /\ SumFunctionOnSet(h, T) = h[x] + SumFunctionOnSet(h, T \ {x})
        BY FS_Subset, SumRemove
      <3> QED
        BY <1>1, <3>2
    <2> QED
      BY <2>1, <2>2
  <1> HIDE DEF I
  <1>2. SUBSET S \subseteq I
    BY <1>1, SubsetInduction
  <1> QED
    BY <1>2 DEF I

\* A sum of zeros is zero.
LEMMA SumZero ==
  ASSUME NEW f, NEW S, IsFiniteSet(S), \A x \in S : f[x] = 0
  PROVE  SumFunctionOnSet(f, S) = 0
  <1> DEFINE I == {T \in SUBSET S : SumFunctionOnSet(f, T) = 0}
  <1>1. ASSUME NEW T \in SUBSET S, \A x \in T : T \ {x} \in I
        PROVE  T \in I
    <2>1. CASE T = {}
      BY <2>1, SumEmpty
    <2>2. CASE T # {}
      <3>1. PICK x \in T : TRUE
        BY <2>2
      <3>2. SumFunctionOnSet(f, T) = f[x] + SumFunctionOnSet(f, T \ {x})
        BY FS_Subset, SumRemove
      <3> QED
        BY <1>1, <3>2
    <2> QED
      BY <2>1, <2>2
  <1> HIDE DEF I
  <1>2. SUBSET S \subseteq I
    BY <1>1, SubsetInduction
  <1> QED
    BY <1>2 DEF I

\* Raising the value at one element raises the sum by as much.
LEMMA SumRaised ==
  ASSUME NEW f, NEW h, NEW S, IsFiniteSet(S), NEW x \in S, NEW z \in Nat,
         \A y \in S : f[y] \in Nat,
         \A y \in S : h[y] = IF y = x THEN f[y] + z ELSE f[y]
  PROVE  SumFunctionOnSet(h, S) = SumFunctionOnSet(f, S) + z
  <1> DEFINE F == SumFunctionOnSet(f, S \ {x})
             H == SumFunctionOnSet(h, S \ {x})
  <1>1. IsFiniteSet(S \ {x}) /\ \A y \in S : h[y] \in Nat
    BY FS_RemoveElement
  <1>2. F \in Nat /\ H = F
    BY <1>1, SumIsNat, SumExtensional
  <1>3. SumFunctionOnSet(f, S) = f[x] + F /\ SumFunctionOnSet(h, S) = h[x] + H
    BY <1>1, SumRemove
  <1> HIDE DEF F, H
  <1> QED
    BY <1>2, <1>3
-----------------------------------------------------------------------------
\* Entries below others, as BelowAny collects them.

\* The positions above n that are below ids, and n if it is, too.
BelowNext(es, ids, n, above) ==
    IF es[n].parent \in ids \cup {es[k].id : k \in above} THEN above \cup {n} ELSE above

\* What BelowAny computes up to position n: the positions found below ids.
BelowSteps(es, ids, f) ==
    f = [n \in 0 .. Len(es) |->
            IF n = 0 THEN {}
            ELSE LET above == f[n - 1]
                 IN  IF es[n].parent \in ids \cup {es[k].id : k \in above}
                     THEN above \cup {n} ELSE above]

\* There is such a computation, and BelowAny is its last value.
LEMMA BelowStepsExist ==
    ASSUME NEW es, Len(es) \in Nat, NEW ids
    PROVE  \E f : BelowSteps(es, ids, f) /\ BelowAny(es, ids) = f[Len(es)]
  <1> DEFINE n == Len(es)
             A == SUBSET (1 .. n)
             F == [m \in 1 .. n |-> [v \in A |-> BelowNext(es, ids, m, v)]]
             c == CHOOSE f : BelowSteps(es, ids, f)
  <1>1. \A m \in 1 .. n : \A v \in A : F[m][v] = BelowNext(es, ids, m, v)
    OBVIOUS
  <1>2. StepsIn(A, F, n)
    <2>1. ASSUME NEW m \in 1 .. n, NEW v \in A
          PROVE  BelowNext(es, ids, m, v) \in A
      <3>1. v \cup {m} \in A
        OBVIOUS
      <3> QED
        BY <3>1 DEF BelowNext
    <2> HIDE DEF F, A
    <2> QED
      BY <1>1, <2>1 DEF StepsIn
  <1>3. {} \in A
    OBVIOUS
  <1> HIDE DEF A, F
  <1>4. PICK g : StepsFrom(A, {}, F, n, g)
    BY <1>2, <1>3, StepsExist
  <1>5. BelowSteps(es, ids, g)
    <2> DEFINE body(m) == IF m = 0 THEN {} ELSE BelowNext(es, ids, m, g[m - 1])
    <2>1. g \in [0 .. n -> A] /\ g[0] = {} /\ \A m \in 1 .. n : g[m] = F[m][g[m - 1]]
      BY <1>4 DEF StepsFrom
    <2>2. \A m \in 0 .. n : m # 0 => m \in 1 .. n /\ m - 1 \in 0 .. n
      OBVIOUS
    <2>3. ASSUME NEW m \in 0 .. n
          PROVE  g[m] = body(m)
      <3>1. CASE m = 0
        BY <2>1, <3>1
      <3>2. CASE m # 0
        <4>1. m \in 1 .. n /\ g[m - 1] \in A
          BY <2>1, <2>2, <3>2
        <4>2. g[m] = F[m][g[m - 1]]
          BY <2>1, <4>1
        <4>3. F[m][g[m - 1]] = body(m)
          BY <1>1, <3>2, <4>1
        <4> QED
          BY <4>2, <4>3
      <3> QED
        BY <3>1, <3>2
    <2>4. g = [m \in 0 .. n |-> g[m]]
      BY <2>1
    <2> HIDE DEF body
    <2>5. g = [m \in 0 .. n |-> body(m)]
      BY <2>3, <2>4
    <2> QED
      BY <2>5 DEF body, BelowSteps, BelowNext
  <1>6. BelowSteps(es, ids, c)
    BY <1>5
  <1>7. BelowAny(es, ids) = c[n]
    BY DEF BelowAny, BelowSteps
  <1> QED
    BY <1>6, <1>7

\* One step of the computation.
LEMMA BelowStep ==
    ASSUME NEW es, Len(es) \in Nat, NEW ids, NEW f, BelowSteps(es, ids, f)
    PROVE  f[0] = {} /\ \A n \in 1 .. Len(es) : f[n] = BelowNext(es, ids, n, f[n - 1])
  <1> DEFINE body(n) == IF n = 0 THEN {} ELSE BelowNext(es, ids, n, f[n - 1])
  <1>1. f = [n \in 0 .. Len(es) |-> body(n)]
    BY DEF BelowSteps, BelowNext
  <1>2. 0 \in 0 .. Len(es) /\ \A n \in 1 .. Len(es) : n \in 0 .. Len(es) /\ n # 0
    OBVIOUS
  <1> HIDE DEF body
  <1>3. \A n \in 0 .. Len(es) : f[n] = body(n)
    BY <1>1
  <1>4. f[0] = {}
    BY <1>2, <1>3 DEF body
  <1>5. \A n \in 1 .. Len(es) : f[n] = body(n)
    BY <1>2, <1>3
  <1> QED
    BY <1>2, <1>4, <1>5 DEF body

\* The values grow by one position at a time.
LEMMA BelowGrows ==
    ASSUME NEW es, Len(es) \in Nat, NEW ids, NEW f, BelowSteps(es, ids, f), NEW m \in 0 .. Len(es)
    PROVE  f[m] \subseteq 1 .. m /\ \A j \in 0 .. m : f[m] \cap (1 .. j) = f[j]
  <1> DEFINE n == Len(es)
             Good(k) == f[k] \subseteq 1 .. k /\ \A j \in 0 .. k : f[k] \cap (1 .. j) = f[j]
             I == {k \in Nat : k <= n => Good(k)}
  <1>1. f[0] = {} /\ \A k \in 1 .. n : f[k] = f[k - 1] \/ f[k] = f[k - 1] \cup {k}
    <2>1. f[0] = {} /\ \A k \in 1 .. n : f[k] = BelowNext(es, ids, k, f[k - 1])
      BY BelowStep
    <2>2. \A k \in 1 .. n : \/ BelowNext(es, ids, k, f[k - 1]) = f[k - 1]
                            \/ BelowNext(es, ids, k, f[k - 1]) = f[k - 1] \cup {k}
      BY DEF BelowNext
    <2> QED
      BY <2>1, <2>2
  <1>2. 0 \in I
    <2>1. \A j \in 0 .. 0 : j = 0
      OBVIOUS
    <2> QED
      BY <1>1, <2>1
  <1>3. ASSUME NEW k \in Nat, k \in I
        PROVE  k + 1 \in I
    <2> SUFFICES ASSUME k + 1 <= n
                 PROVE  Good(k + 1)
      OBVIOUS
    <2>1. Good(k)
      BY <1>3
    <2>2. k + 1 \in 1 .. n /\ (k + 1) - 1 = k
      OBVIOUS
    <2>3. f[k + 1] = f[k] \/ f[k + 1] = f[k] \cup {k + 1}
      BY <1>1, <2>2
    <2>4. f[k + 1] \subseteq 1 .. (k + 1)
      <3>1. 1 .. k \subseteq 1 .. (k + 1) /\ k + 1 \in 1 .. (k + 1)
        OBVIOUS
      <3> QED
        BY <2>1, <2>3, <3>1
    <2>5. ASSUME NEW j \in 0 .. (k + 1)
          PROVE  f[k + 1] \cap (1 .. j) = f[j]
      <3>1. CASE j = k + 1
        BY <2>4, <3>1
      <3>2. CASE j # k + 1
        <4>1. j \in 0 .. k /\ k + 1 \notin 1 .. j
          BY <3>2
        <4>2. f[k] \cap (1 .. j) = f[j]
          BY <2>1, <4>1
        <4> QED
          BY <2>3, <4>1, <4>2
      <3> QED
        BY <3>1, <3>2
    <2> QED
      BY <2>4, <2>5
  <1>4. \A k \in Nat : k \in I
    <2> HIDE DEF I
    <2> QED
      BY <1>2, <1>3, IndexInduction
  <1>5. m \in Nat /\ m <= n
    OBVIOUS
  <1> QED
    BY <1>4, <1>5

\* The positions below ids, each by the one of its parent.
LEMMA BelowAnyIs ==
    ASSUME NEW es, Len(es) \in Nat, NEW ids
    PROVE  /\ BelowAny(es, ids) \subseteq 1 .. Len(es)
           /\ \A i \in 1 .. Len(es) : i \in BelowAny(es, ids) <=>
                 \/ es[i].parent \in ids
                 \/ \E k \in BelowAny(es, ids) : k < i /\ es[i].parent = es[k].id
  <1> DEFINE n == Len(es)
             B == BelowAny(es, ids)
  <1>1. PICK f : BelowSteps(es, ids, f) /\ B = f[n]
    BY BelowStepsExist
  <1> HIDE DEF B
  <1>2. f[0] = {} /\ \A i \in 1 .. n : f[i] = BelowNext(es, ids, i, f[i - 1])
    BY <1>1, BelowStep
  <1>3. n \in 0 .. n
    OBVIOUS
  <1>4. B \subseteq 1 .. n /\ \A j \in 0 .. n : B \cap (1 .. j) = f[j]
    BY <1>1, <1>3, BelowGrows
  <1>5. ASSUME NEW i \in 1 .. n
        PROVE  i \in B <=> \/ es[i].parent \in ids
                           \/ \E k \in B : k < i /\ es[i].parent = es[k].id
    <2>1. i \in 0 .. n /\ i - 1 \in 0 .. n /\ i \in 1 .. i /\ i \notin 1 .. (i - 1)
      OBVIOUS
    <2>2. B \cap (1 .. i) = f[i] /\ B \cap (1 .. (i - 1)) = f[i - 1]
      BY <1>4, <2>1
    <2>3. i \in B <=> i \in f[i]
      BY <2>1, <2>2
    <2>4. i \notin f[i - 1]
      BY <2>1, <2>2
    <2>5. i \in f[i] <=> es[i].parent \in ids \cup {es[k].id : k \in f[i - 1]}
      BY <1>2, <2>4 DEF BelowNext
    <2>6. \A k \in B : k \in f[i - 1] <=> k < i
      <3>1. \A k \in 1 .. n : k \in 1 .. (i - 1) <=> k < i
        OBVIOUS
      <3> QED
        BY <1>4, <2>2, <3>1
    <2>7. f[i - 1] \subseteq B
      BY <2>2
    <2> QED
      BY <2>3, <2>5, <2>6, <2>7
  <1> QED
    BY <1>4, <1>5 DEF B
-----------------------------------------------------------------------------
\* The entries have identifiers of their own.
Named(es) ==
    /\ \A i, k \in 1 .. Len(es) : es[i].id = es[k].id => i = k
    /\ \A i \in 1 .. Len(es) : es[i].id # TopLevel

\* D gives every position the position of a parent before it, or 0, and no position
\* between an entry and its parent has a parent before that one: a depth-first walk.
Walk(D, n) ==
    /\ D \in [1 .. n -> Nat]
    /\ \A i \in 1 .. n : D[i] < i
    /\ \A i, j \in 1 .. n : D[i] < j /\ j <= i => D[i] <= D[j]

\* The entries name the parents at these positions.
Linked(es, D) ==
    \A i \in 1 .. Len(es) :
        /\ D[i] = 0 => es[i].parent = TopLevel
        /\ D[i] \in 1 .. Len(es) => es[i].parent = es[D[i]].id

Tree(es, D) == Named(es) /\ Walk(D, Len(es)) /\ Linked(es, D)

\* A position has the parent at k exactly when it names it.
LEMMA LinkIs ==
    ASSUME NEW es, Len(es) \in Nat, Named(es), NEW D,
           D \in [1 .. Len(es) -> Nat], \A i \in 1 .. Len(es) : D[i] < i, Linked(es, D),
           NEW i \in 1 .. Len(es)
    PROVE  /\ \A k \in 1 .. Len(es) : es[i].parent = es[k].id <=> D[i] = k
           /\ es[i].parent = TopLevel <=> D[i] = 0
  <1> DEFINE n == Len(es)
  <1>1. D[i] \in Nat /\ D[i] < i
    OBVIOUS
  <1>2. D[i] = 0 \/ D[i] \in 1 .. n
    BY <1>1
  <1>3. 0 \notin 1 .. n
    OBVIOUS
  <1>4. D[i] = 0 => es[i].parent = TopLevel
    BY DEF Linked
  <1>5. D[i] \in 1 .. n => es[i].parent = es[D[i]].id
    BY DEF Linked
  <1>6. /\ \A k, l \in 1 .. n : es[k].id = es[l].id => k = l
        /\ \A k \in 1 .. n : es[k].id # TopLevel
    BY DEF Named
  <1> HIDE DEF n
  <1> QED
    BY <1>2, <1>3, <1>4, <1>5, <1>6 DEF n

\* What is below an entry comes after it.
LEMMA BelowIsLater ==
    ASSUME NEW es, Len(es) \in Nat, Named(es), NEW D,
           D \in [1 .. Len(es) -> Nat], \A j \in 1 .. Len(es) : D[j] < j, Linked(es, D),
           NEW i \in 1 .. Len(es)
    PROVE  LET B == BelowAny(es, {es[i].id})
           IN  /\ B \subseteq (i + 1) .. Len(es)
               /\ \A j \in 1 .. Len(es) : j \in B <=> D[j] = i \/ D[j] \in B
  <1> DEFINE n == Len(es)
             B == BelowAny(es, {es[i].id})
  <1>1. /\ B \subseteq 1 .. n
        /\ \A j \in 1 .. n : j \in B <=>
              \/ es[j].parent = es[i].id
              \/ \E k \in B : k < j /\ es[j].parent = es[k].id
    BY BelowAnyIs
  <1> HIDE DEF B
  <1>2. \A j \in 1 .. n : \A k \in 1 .. n : es[j].parent = es[k].id <=> D[j] = k
    BY LinkIs
  <1>3. \A j \in 1 .. n : D[j] \in Nat /\ D[j] < j
    OBVIOUS
  <1>4. \A j \in 1 .. n : j \in B <=> D[j] = i \/ D[j] \in B
    BY <1>1, <1>2, <1>3
  <1>5. B \subseteq (i + 1) .. n
    <2> SUFFICES ASSUME ~(B \subseteq (i + 1) .. n)
                 PROVE  FALSE
      OBVIOUS
    <2> DEFINE N == {j \in B : j <= i}
    <2>1. N \in SUBSET Nat /\ N # {}
      <3>1. PICK x \in B : x \notin (i + 1) .. n
        OBVIOUS
      <3>2. x \in 1 .. n
        BY <1>1, <3>1
      <3>3. x <= i
        BY <3>1, <3>2
      <3>4. x \in N
        BY <3>1, <3>3
      <3>5. \A y \in N : y \in 1 .. n
        BY <1>1
      <3> HIDE DEF N
      <3> QED
        BY <3>4, <3>5
    <2>2. PICK x \in N : \A y \in N : x <= y
      <3> HIDE DEF N
      <3> QED
        BY <2>1, LeastNumber
    <2>3. x \in 1 .. n /\ x \in B /\ x <= i
      BY <1>1, <2>2
    <2>4. D[x] \in Nat /\ D[x] < x
      BY <1>3, <2>3
    <2>5. D[x] \in B
      BY <1>4, <2>3, <2>4
    <2>6. D[x] \in N
      BY <2>3, <2>4, <2>5
    <2> QED
      BY <2>2, <2>3, <2>4, <2>6
  <1> QED
    BY <1>4, <1>5 DEF B

\* The end of a subtree, in terms of the positions of the parents.
EndOf(D, n, i, e) ==
    /\ e \in (i + 1) .. (n + 1)
    /\ \A j \in (i + 1) .. (e - 1) : i <= D[j]
    /\ e <= n => D[e] < i

\* subtreeEnd stops at the first position that is not below the entry.
LEMMA EndIsFirst ==
    ASSUME NEW es, Len(es) \in Nat, NEW i \in 1 .. Len(es)
    PROVE  LET B == BelowAny(es, {es[i].id})
               e == SubtreeEnd(es, i)
           IN  /\ e \in (i + 1) .. (Len(es) + 1)
               /\ \A j \in (i + 1) .. (e - 1) : j \in B
               /\ e <= Len(es) => e \notin B
  <1> DEFINE n == Len(es)
             B == BelowAny(es, {es[i].id})
             N == {k \in i + 1 .. n : k \notin B} \cup {n + 1}
             e == CHOOSE x \in N : \A y \in N : x <= y
  <1>1. SubtreeEnd(es, i) = e
    BY DEF SubtreeEnd, Min
  <1> HIDE DEF B
  <1>2. N \in SUBSET Nat /\ N # {}
    OBVIOUS
  <1>3. e \in N /\ \A y \in N : e <= y
    <2> HIDE DEF N
    <2>1. \E x \in N : \A y \in N : x <= y
      BY <1>2, LeastNumber
    <2> QED
      BY <2>1
  <1> HIDE DEF e
  <1>4. e \in (i + 1) .. (n + 1)
    BY <1>3
  <1>5. \A j \in (i + 1) .. (e - 1) : j \in B
    <2> SUFFICES ASSUME NEW j \in (i + 1) .. (e - 1), j \notin B
                 PROVE  FALSE
      OBVIOUS
    <2>1. j \in i + 1 .. n /\ ~(e <= j)
      BY <1>4
    <2> QED
      BY <1>3, <2>1
  <1>6. e <= n => e \notin B
    BY <1>3
  <1> QED
    BY <1>1, <1>4, <1>5, <1>6 DEF B

\* In a walk, the end of the subtree is after the positions below it.
LEMMA SubtreeEndIs ==
    ASSUME NEW es, Len(es) \in Nat, NEW D, Tree(es, D), NEW i \in 1 .. Len(es)
    PROVE  EndOf(D, Len(es), i, SubtreeEnd(es, i))
  <1> DEFINE n == Len(es)
             B == BelowAny(es, {es[i].id})
             e == SubtreeEnd(es, i)
  <1>1. /\ Named(es) /\ Linked(es, D)
        /\ D \in [1 .. n -> Nat] /\ \A j \in 1 .. n : D[j] < j
    BY DEF Tree, Walk
  <1>2. /\ B \subseteq (i + 1) .. n
        /\ \A j \in 1 .. n : j \in B <=> D[j] = i \/ D[j] \in B
    BY <1>1, BelowIsLater
  <1>3. /\ e \in (i + 1) .. (n + 1)
        /\ \A j \in (i + 1) .. (e - 1) : j \in B
        /\ e <= n => e \notin B
    BY EndIsFirst
  <1> HIDE DEF B, e, n
  <1>4. n \in Nat /\ i \in 1 .. n
    BY DEF n
  <1>5. ASSUME NEW j \in (i + 1) .. (e - 1)
        PROVE  i <= D[j]
    <2>1. j \in B /\ j \in 1 .. n
      BY <1>3, <1>4
    <2>2. D[j] = i \/ D[j] \in B
      BY <1>2, <2>1
    <2>3. \A k \in (i + 1) .. n : i <= k
      BY <1>4
    <2>4. i <= i
      BY <1>4
    <2> QED
      BY <1>2, <2>2, <2>3, <2>4
  <1>6. ASSUME e <= n
        PROVE  D[e] < i
    <2>1. e \in 1 .. n /\ e \notin B
      BY <1>3, <1>4, <1>6
    <2>2. D[e] # i /\ D[e] \notin B
      BY <1>2, <2>1
    <2>3. D[e] \in Nat /\ D[e] < e
      BY <1>1, <2>1
    <2>4. D[e] \notin (i + 1) .. (e - 1)
      BY <1>3, <2>2
    <2> QED
      BY <1>4, <2>1, <2>2, <2>3, <2>4
  <1> QED
    BY <1>3, <1>5, <1>6 DEF EndOf, e, n

\* There is only one such end.
LEMMA EndUnique ==
    ASSUME NEW n \in Nat, NEW D \in [1 .. n -> Nat], NEW i \in 1 .. n,
           NEW e, NEW x, EndOf(D, n, i, e), EndOf(D, n, i, x)
    PROVE  e = x
  <1>1. ASSUME NEW a, NEW b, EndOf(D, n, i, a), EndOf(D, n, i, b)
        PROVE  ~(a < b)
    <2> SUFFICES ASSUME a < b PROVE FALSE
      OBVIOUS
    <2>1. a \in (i + 1) .. (n + 1) /\ b \in (i + 1) .. (n + 1)
      BY <1>1 DEF EndOf
    <2>2. a \in (i + 1) .. (b - 1) /\ a <= n /\ a \in 1 .. n
      BY <2>1
    <2>3. i <= D[a] /\ D[a] < i
      BY <1>1, <2>2 DEF EndOf
    <2>4. D[a] \in Nat
      BY <2>2
    <2> QED
      BY <2>3, <2>4
  <1>2. e \in (i + 1) .. (n + 1) /\ x \in (i + 1) .. (n + 1)
    BY DEF EndOf
  <1>3. ~(e < x) /\ ~(x < e)
    BY <1>1
  <1> QED
    BY <1>2, <1>3

\* A preorder is a walk with named entries, and the other way round.
LEMMA TreeInPreorder ==
    ASSUME NEW es, Len(es) \in Nat, DOMAIN es = 1 .. Len(es), NEW D, Tree(es, D)
    PROVE  InPreorder(es)
  <1> DEFINE n == Len(es)
  <1>1. /\ Named(es) /\ Linked(es, D)
        /\ D \in [1 .. n -> Nat] /\ \A j \in 1 .. n : D[j] < j
        /\ \A i, j \in 1 .. n : D[i] < j /\ j <= i => D[i] <= D[j]
    BY DEF Tree, Walk
  <1>2. ASSUME NEW i \in 1 .. n, es[i].parent # TopLevel
        PROVE  \E k \in 1 .. i - 1 : es[k].id = es[i].parent /\ i < SubtreeEnd(es, k)
    <2> DEFINE k == D[i]
               e == SubtreeEnd(es, k)
    <2>1. k \in 1 .. i - 1
      BY <1>1, <1>2, LinkIs
    <2>2. k \in 1 .. n
      BY <2>1
    <2>3. es[i].parent = es[k].id
      BY <1>1, <2>2 DEF Linked
    <2> HIDE DEF k
    <2>4. EndOf(D, n, k, e)
      BY <2>2, SubtreeEndIs
    <2> HIDE DEF e
    <2>5. ASSUME ~(i < e)
          PROVE  FALSE
      <3>1. e \in 1 .. n /\ D[e] < k /\ k < e /\ e <= i
        BY <2>2, <2>4, <2>5 DEF EndOf
      <3>2. D[i] <= D[e]
        BY <1>1, <3>1 DEF k
      <3>3. D[e] \in Nat
        BY <1>1, <3>1
      <3> QED
        BY <2>2, <3>1, <3>2, <3>3 DEF k
    <2>6. i < e
      BY <2>5
    <2> QED
      BY <2>1, <2>3, <2>6 DEF e
  <1> QED
    BY <1>1, <1>2 DEF InPreorder, Named

\* A preorder is the walk of a forest: take for the parent of each position the
\* place of the entry it names.
LEMMA PreorderIsTree ==
    ASSUME NEW es, Len(es) \in Nat, DOMAIN es = 1 .. Len(es), InPreorder(es)
    PROVE  \E D : Tree(es, D)
  <1> DEFINE n == Len(es)
             Up(i, k) == es[k].id = es[i].parent /\ i < SubtreeEnd(es, k)
             D == [i \in 1 .. n |-> IF es[i].parent = TopLevel THEN 0
                                    ELSE CHOOSE k \in 1 .. i - 1 : Up(i, k)]
  <1>1. Named(es)
    BY DEF InPreorder, Named
  <1>2. \A i \in 1 .. n : es[i].parent # TopLevel => \E k \in 1 .. i - 1 : Up(i, k)
    BY DEF InPreorder
  <1>3. \A i \in 1 .. n : /\ es[i].parent = TopLevel => D[i] = 0
                          /\ es[i].parent # TopLevel => D[i] \in 1 .. i - 1 /\ Up(i, D[i])
    <2> HIDE DEF Up
    <2> QED
      BY <1>2
  <1>4. D = [i \in 1 .. n |-> D[i]]
    OBVIOUS
  <1> HIDE DEF D
  <1>5. \A i \in 1 .. n : D[i] \in Nat /\ D[i] < i
    BY <1>3
  <1>6. D \in [1 .. n -> Nat]
    BY <1>4, <1>5
  <1>7. Linked(es, D)
    <2> SUFFICES ASSUME NEW i \in 1 .. n
                 PROVE  /\ D[i] = 0 => es[i].parent = TopLevel
                        /\ D[i] \in 1 .. n => es[i].parent = es[D[i]].id
      BY DEF Linked
    <2>1. 0 \notin 1 .. i - 1 /\ 0 \notin 1 .. n
      OBVIOUS
    <2> QED
      BY <1>3, <2>1
  <1>8. ASSUME NEW i \in 1 .. n, NEW j \in 1 .. n, D[i] < j, j <= i
        PROVE  D[i] <= D[j]
    <2>1. CASE D[i] = 0
      BY <1>5, <2>1
    <2>2. CASE D[i] # 0
      <3> DEFINE k == D[i]
                 B == BelowAny(es, {es[k].id})
                 e == SubtreeEnd(es, k)
      <3>1. k \in 1 .. i - 1 /\ i < e
        BY <1>3, <2>2
      <3>2. k \in 1 .. n
        BY <3>1
      <3> HIDE DEF k
      <3>3. /\ B \subseteq (k + 1) .. n
            /\ \A m \in 1 .. n : m \in B <=> D[m] = k \/ D[m] \in B
        BY <1>1, <1>5, <1>6, <1>7, <3>2, BelowIsLater
      <3>4. /\ e \in (k + 1) .. (n + 1)
            /\ \A m \in (k + 1) .. (e - 1) : m \in B
        BY <3>2, EndIsFirst
      <3> HIDE DEF B, e
      <3>5. j \in (k + 1) .. (e - 1)
        BY <1>8, <3>1, <3>2, <3>4 DEF k
      <3>6. D[j] = k \/ D[j] \in B
        BY <3>3, <3>4, <3>5
      <3>7. \A m \in (k + 1) .. n : k <= m
        BY <3>2
      <3>8. k <= k
        BY <3>2
      <3>9. k <= D[j]
        BY <3>3, <3>6, <3>7, <3>8
      <3> QED
        BY <3>9 DEF k
    <2> QED
      BY <2>1, <2>2
  <1>9. Walk(D, n)
    BY <1>5, <1>6, <1>8 DEF Walk
  <1> QED
    BY <1>1, <1>7, <1>9 DEF Tree
-----------------------------------------------------------------------------
\* Where an entry may come in under the parent at q: what lies between is below that
\* parent, and nothing that follows hangs on an entry in between.
Gap(D, n, x, q) ==
    /\ x \in 1 .. (n + 1) /\ q \in 0 .. (x - 1)
    /\ \A j \in (q + 1) .. (x - 1) : q <= D[j]
    /\ \A m \in x .. n : D[m] < x => D[m] <= q

\* The walk with an entry more at x, under the parent at q.
GrownWalk(D, n, x, q) ==
    [j \in 1 .. (n + 1) |->
        IF j < x THEN D[j]
        ELSE IF j = x THEN q
        ELSE IF D[j - 1] < x THEN D[j - 1] ELSE D[j - 1] + 1]

\* The parents in the grown walk, before the new entry, at it and behind it.
LEMMA GrownWalkIs ==
    ASSUME NEW n \in Nat, NEW D, Walk(D, n), NEW x, NEW q, Gap(D, n, x, q)
    PROVE  LET G == GrownWalk(D, n, x, q)
           IN  /\ \A j \in 1 .. (x - 1) : G[j] = D[j]
               /\ G[x] = q
               /\ \A m \in x .. n : G[m + 1] = IF D[m] < x THEN D[m] ELSE D[m] + 1
               /\ G \in [1 .. (n + 1) -> Nat]
               /\ \A j \in 1 .. (n + 1) : G[j] < j
  <1> DEFINE G == GrownWalk(D, n, x, q)
  <1>1. /\ x \in 1 .. (n + 1) /\ q \in 0 .. (x - 1)
        /\ \A j \in 1 .. n : D[j] \in Nat /\ D[j] < j
    BY DEF Gap, Walk
  <1>2. G = [j \in 1 .. (n + 1) |-> G[j]]
    BY DEF GrownWalk
  <1>3. \A j \in 1 .. (n + 1) :
           G[j] = IF j < x THEN D[j]
                  ELSE IF j = x THEN q
                  ELSE IF D[j - 1] < x THEN D[j - 1] ELSE D[j - 1] + 1
    BY DEF GrownWalk
  <1> HIDE DEF G
  <1>4. \A j \in 1 .. (x - 1) : j \in 1 .. (n + 1) /\ j \in 1 .. n /\ j < x
    BY <1>1
  <1>5. \A j \in 1 .. (x - 1) : G[j] = D[j]
    BY <1>3, <1>4
  <1>6. G[x] = q
    BY <1>1, <1>3
  <1>7. \A m \in x .. n : /\ m + 1 \in 1 .. (n + 1) /\ m \in 1 .. n
                          /\ ~(m + 1 < x) /\ m + 1 # x /\ (m + 1) - 1 = m
    BY <1>1
  <1>8. \A m \in x .. n : G[m + 1] = IF D[m] < x THEN D[m] ELSE D[m] + 1
    BY <1>3, <1>7
  <1>9. ASSUME NEW j \in 1 .. (n + 1)
        PROVE  G[j] \in Nat /\ G[j] < j
    <2>1. CASE j < x
      BY <1>1, <1>4, <1>5, <2>1
    <2>2. CASE j = x
      BY <1>1, <1>6, <2>2
    <2>3. CASE x < j
      <3> DEFINE m == j - 1
      <3>1. m \in x .. n /\ j = m + 1 /\ m \in 1 .. n
        BY <1>1, <2>3
      <3> HIDE DEF m
      <3>2. D[m] \in Nat /\ D[m] < m
        BY <1>1, <3>1
      <3>3. G[j] = IF D[m] < x THEN D[m] ELSE D[m] + 1
        BY <1>8, <3>1
      <3> QED
        BY <3>1, <3>2, <3>3
    <2> QED
      BY <1>1, <2>1, <2>2, <2>3
  <1>10. G \in [1 .. (n + 1) -> Nat]
    BY <1>2, <1>9
  <1> QED
    BY <1>5, <1>6, <1>8, <1>9, <1>10 DEF G

\* It is a walk.
LEMMA GrownWalks ==
    ASSUME NEW n \in Nat, NEW D, Walk(D, n), NEW x, NEW q, Gap(D, n, x, q)
    PROVE  Walk(GrownWalk(D, n, x, q), n + 1)
  <1> DEFINE G == GrownWalk(D, n, x, q)
  <1>1. /\ \A j \in 1 .. (x - 1) : G[j] = D[j]
        /\ G[x] = q
        /\ \A m \in x .. n : G[m + 1] = IF D[m] < x THEN D[m] ELSE D[m] + 1
        /\ G \in [1 .. (n + 1) -> Nat]
        /\ \A j \in 1 .. (n + 1) : G[j] < j
    BY GrownWalkIs
  <1> HIDE DEF G
  <1>2. /\ \A j \in 1 .. n : D[j] \in Nat /\ D[j] < j
        /\ \A i, j \in 1 .. n : D[i] < j /\ j <= i => D[i] <= D[j]
    BY DEF Walk
  <1>3. /\ x \in 1 .. (n + 1) /\ q \in 0 .. (x - 1)
        /\ \A j \in (q + 1) .. (x - 1) : q <= D[j]
        /\ \A m \in x .. n : D[m] < x => D[m] <= q
    BY DEF Gap
  <1>4. ASSUME NEW i \in 1 .. (n + 1), NEW j \in 1 .. (n + 1), G[i] < j, j <= i
        PROVE  G[i] <= G[j]
    <2>1. CASE i < x
      <3>1. i \in 1 .. (x - 1) /\ j \in 1 .. (x - 1) /\ i \in 1 .. n /\ j \in 1 .. n
        BY <1>3, <1>4, <2>1
      <3> QED
        BY <1>1, <1>2, <1>4, <3>1
    <2>2. CASE i = x
      <3>1. j = x \/ j \in (q + 1) .. (x - 1)
        BY <1>1, <1>3, <1>4, <2>2
      <3>2. CASE j = x
        BY <1>1, <1>3, <2>2, <3>2
      <3>3. CASE j \in (q + 1) .. (x - 1)
        <4>1. j \in 1 .. (x - 1)
          BY <1>3, <3>3
        <4>2. G[j] = D[j] /\ q <= D[j]
          BY <1>1, <1>3, <3>3, <4>1
        <4> QED
          BY <1>1, <2>2, <4>2
      <3> QED
        BY <3>1, <3>2, <3>3
    <2>3. CASE x < i
      <3> DEFINE k == i - 1
      <3>1. k \in x .. n /\ k \in 1 .. n /\ i = k + 1
        BY <1>3, <2>3
      <3> HIDE DEF k
      <3>2. G[i] = (IF D[k] < x THEN D[k] ELSE D[k] + 1) /\ D[k] \in Nat
        BY <1>1, <1>2, <3>1
      <3>3. CASE j < x
        <4>1. j \in 1 .. (x - 1) /\ j \in 1 .. n /\ j <= k
          BY <1>3, <3>1, <3>3
        <4>2. D[k] < x /\ G[i] = D[k]
          BY <1>3, <1>4, <3>2, <3>3
        <4>3. D[k] <= D[j]
          BY <1>2, <1>4, <3>1, <4>1, <4>2
        <4> QED
          BY <1>1, <4>1, <4>2, <4>3
      <3>4. CASE j = x
        <4>1. D[k] < x /\ G[i] = D[k]
          BY <1>3, <1>4, <3>2, <3>4
        <4> QED
          BY <1>1, <1>3, <3>1, <3>4, <4>1
      <3>5. CASE x < j
        <4> DEFINE l == j - 1
        <4>1. l \in x .. n /\ l \in 1 .. n /\ j = l + 1
          BY <1>3, <3>5
        <4> HIDE DEF l
        <4>2. G[j] = (IF D[l] < x THEN D[l] ELSE D[l] + 1) /\ D[l] \in Nat
          BY <1>1, <1>2, <4>1
        <4>3. D[k] < l /\ l <= k
          BY <1>3, <1>4, <3>1, <3>2, <4>1
        <4>4. D[k] <= D[l]
          BY <1>2, <3>1, <4>1, <4>3
        <4> QED
          BY <1>3, <3>2, <4>2, <4>4
      <3> QED
        BY <1>3, <3>3, <3>4, <3>5
    <2> QED
      BY <1>3, <2>1, <2>2, <2>3
  <1> QED
    BY <1>1, <1>4 DEF Walk, G

\* The place after a subtree is one for a sibling of its root.
LEMMA SiblingGap ==
    ASSUME NEW n \in Nat, NEW D, Walk(D, n), NEW i \in 1 .. n, NEW e, EndOf(D, n, i, e)
    PROVE  Gap(D, n, e, D[i])
  <1>1. /\ \A j \in 1 .. n : D[j] \in Nat /\ D[j] < j
        /\ \A k, j \in 1 .. n : D[k] < j /\ j <= k => D[k] <= D[j]
    BY DEF Walk
  <1>2. /\ e \in (i + 1) .. (n + 1)
        /\ \A j \in (i + 1) .. (e - 1) : i <= D[j]
        /\ e <= n => D[e] < i
    BY DEF EndOf
  <1>3. D[i] \in Nat /\ D[i] < i
    BY <1>1
  <1>4. ASSUME NEW j \in (D[i] + 1) .. (e - 1)
        PROVE  D[i] <= D[j]
    <2>1. j \in 1 .. n /\ D[i] < j
      BY <1>2, <1>3
    <2>2. CASE j <= i
      BY <1>1, <2>1, <2>2
    <2>3. CASE i < j
      <3>1. j \in (i + 1) .. (e - 1)
        BY <1>2, <2>1, <2>3
      <3>2. i <= D[j] /\ D[j] \in Nat
        BY <1>1, <1>2, <2>1, <3>1
      <3> QED
        BY <1>3, <3>2
    <2> QED
      BY <1>2, <2>1, <2>2, <2>3
  <1>5. ASSUME NEW m \in e .. n, D[m] < e
        PROVE  D[m] <= D[i]
    <2>1. m \in 1 .. n /\ e \in 1 .. n /\ e <= m /\ i <= m
      BY <1>2
    <2>2. D[m] <= D[e]
      BY <1>1, <1>5, <2>1
    <2>3. D[e] < i
      BY <1>2, <2>1
    <2>4. D[m] < i
      BY <1>1, <2>1, <2>2, <2>3
    <2> QED
      BY <1>1, <2>1, <2>4
  <1>6. e \in 1 .. (n + 1) /\ D[i] \in 0 .. (e - 1)
    BY <1>2, <1>3
  <1> QED
    BY <1>4, <1>5, <1>6 DEF Gap

\* So is the place after the last entry for one directly under the Page.
LEMMA LastGap ==
    ASSUME NEW n \in Nat, NEW D, Walk(D, n)
    PROVE  Gap(D, n, n + 1, 0)
  <1>1. \A j \in 1 .. n : D[j] \in Nat
    BY DEF Walk
  <1>2. \A j \in (0 + 1) .. ((n + 1) - 1) : j \in 1 .. n
    OBVIOUS
  <1>3. (n + 1) .. n = {}
    OBVIOUS
  <1>4. \A j \in 1 .. n : 0 <= D[j]
    BY <1>1
  <1> QED
    BY <1>2, <1>3, <1>4 DEF Gap
-----------------------------------------------------------------------------
\* The previous sibling of the entry at i: the last entry before it with its parent.
PreviousSibling(D, i, k) ==
    /\ k \in 1 .. (i - 1) /\ D[k] = D[i]
    /\ \A j \in (k + 1) .. (i - 1) : D[j] # D[i]

\* Everything between two neighbouring siblings is below the first one.
LEMMA BetweenSiblings ==
    ASSUME NEW n \in Nat, NEW D, Walk(D, n), NEW i \in 1 .. n, NEW k, PreviousSibling(D, i, k)
    PROVE  EndOf(D, n, k, i)
  <1>1. /\ \A j \in 1 .. n : D[j] \in Nat /\ D[j] < j
        /\ \A l, j \in 1 .. n : D[l] < j /\ j <= l => D[l] <= D[j]
    BY DEF Walk
  <1>2. /\ k \in 1 .. (i - 1) /\ k \in 1 .. n /\ D[k] = D[i]
        /\ \A j \in (k + 1) .. (i - 1) : D[j] # D[i]
    BY DEF PreviousSibling
  <1>3. ASSUME NEW j \in (k + 1) .. (i - 1)
        PROVE  k <= D[j]
    <2>1. j \in 1 .. n /\ D[i] < j /\ j <= i
      BY <1>1, <1>2
    <2>2. D[i] <= D[j] /\ D[j] # D[i]
      BY <1>1, <1>2, <2>1
    <2>3. ASSUME D[j] < k
          PROVE  FALSE
      <3>1. D[j] <= D[k]
        BY <1>1, <1>2, <2>1, <2>3
      <3> QED
        BY <1>1, <1>2, <2>1, <2>2, <3>1
    <2> QED
      BY <1>1, <1>2, <2>1, <2>3
  <1>4. i \in (k + 1) .. (n + 1) /\ D[i] < k
    BY <1>1, <1>2
  <1> QED
    BY <1>3, <1>4 DEF EndOf

\* An entry that goes under its previous sibling leaves a walk.
LEMMA IndentedWalks ==
    ASSUME NEW n \in Nat, NEW D, Walk(D, n), NEW i \in 1 .. n, NEW k, PreviousSibling(D, i, k)
    PROVE  Walk([D EXCEPT ![i] = k], n)
  <1> DEFINE G == [D EXCEPT ![i] = k]
  <1>1. /\ D \in [1 .. n -> Nat]
        /\ \A j \in 1 .. n : D[j] \in Nat /\ D[j] < j
        /\ \A l, j \in 1 .. n : D[l] < j /\ j <= l => D[l] <= D[j]
    BY DEF Walk
  <1>2. k \in 1 .. (i - 1) /\ k \in 1 .. n /\ k \in Nat /\ D[k] = D[i]
    BY DEF PreviousSibling
  <1>3. \A j \in (k + 1) .. (i - 1) : k <= D[j]
    BY BetweenSiblings DEF EndOf
  <1>4. /\ G \in [1 .. n -> Nat]
        /\ \A j \in 1 .. n : G[j] = IF j = i THEN k ELSE D[j]
    BY <1>1, <1>2
  <1> HIDE DEF G
  <1>5. \A j \in 1 .. n : G[j] < j
    BY SMTT(30), <1>1, <1>2, <1>4
  <1>6. ASSUME NEW l \in 1 .. n, NEW j \in 1 .. n, G[l] < j, j <= l
        PROVE  G[l] <= G[j]
    <2>1. CASE l = i
      <3>1. j = i \/ j \in (k + 1) .. (i - 1)
        BY <1>2, <1>4, <1>6, <2>1
      <3>2. CASE j = i
        BY <1>2, <1>4, <2>1, <3>2
      <3>3. CASE j \in (k + 1) .. (i - 1)
        <4>1. j # i
          BY <3>3
        <4> QED
          BY <1>3, <1>4, <2>1, <3>3, <4>1
      <3> QED
        BY <3>1, <3>2, <3>3
    <2>2. CASE l # i
      <3>1. G[l] = D[l] /\ D[l] < j /\ D[l] <= D[j]
        BY <1>1, <1>4, <1>6, <2>2
      <3>2. CASE j = i
        <4>1. G[j] = k /\ D[i] < k
          BY <1>1, <1>2, <1>4, <3>2
        <4> QED
          BY <1>1, <1>2, <3>1, <3>2, <4>1
      <3>3. CASE j # i
        BY <1>4, <3>1, <3>3
      <3> QED
        BY <3>2, <3>3
    <2> QED
      BY <2>1, <2>2
  <1> QED
    BY <1>4, <1>5, <1>6 DEF Walk, G

\* The places that are kept of a walk: s gives each of the first m positions the one
\* it had among n, in order, and the parent of a kept one is kept.
Thinning(D, n, m, s) ==
    /\ s \in [0 .. m -> 0 .. n] /\ s[0] = 0
    /\ \A i, j \in 0 .. m : i < j => s[i] < s[j]
    /\ \A j \in 1 .. m : \E k \in 0 .. m : s[k] = D[s[j]]

ThinnedWalk(D, m, s) == [j \in 1 .. m |-> CHOOSE k \in 0 .. m : s[k] = D[s[j]]]

\* A walk without some subtrees is a walk.
LEMMA ThinnedWalks ==
    ASSUME NEW n \in Nat, NEW D, Walk(D, n), NEW m \in Nat, NEW s, Thinning(D, n, m, s)
    PROVE  /\ Walk(ThinnedWalk(D, m, s), m)
           /\ \A j \in 1 .. m : s[ThinnedWalk(D, m, s)[j]] = D[s[j]]
  <1> DEFINE G == ThinnedWalk(D, m, s)
  <1>1. /\ \A j \in 1 .. n : D[j] \in Nat /\ D[j] < j
        /\ \A l, j \in 1 .. n : D[l] < j /\ j <= l => D[l] <= D[j]
    BY DEF Walk
  <1>2. /\ s \in [0 .. m -> 0 .. n] /\ s[0] = 0
        /\ \A i, j \in 0 .. m : i < j => s[i] < s[j]
        /\ \A j \in 1 .. m : \E k \in 0 .. m : s[k] = D[s[j]]
    BY DEF Thinning
  <1>3. \A j \in 1 .. m : G[j] \in 0 .. m /\ s[G[j]] = D[s[j]]
    BY <1>2 DEF ThinnedWalk
  <1>4. G \in [1 .. m -> Nat]
    <2>1. G = [j \in 1 .. m |-> G[j]]
      BY DEF ThinnedWalk
    <2>2. \A j \in 1 .. m : G[j] \in Nat
      BY <1>3
    <2> HIDE DEF G
    <2> QED
      BY <2>1, <2>2
  <1> HIDE DEF G
  <1>5. \A j \in 1 .. m : s[j] \in 1 .. n
    <2> SUFFICES ASSUME NEW j \in 1 .. m
                 PROVE  s[j] \in 1 .. n
      OBVIOUS
    <2>1. 0 \in 0 .. m /\ j \in 0 .. m /\ 0 < j
      OBVIOUS
    <2>2. s[j] \in 0 .. n /\ 0 < s[j]
      BY <1>2, <2>1
    <2> QED
      BY <2>2
  <1>6. \A i, j \in 0 .. m : (s[i] < s[j] => i < j) /\ (s[i] <= s[j] => i <= j)
    <2> SUFFICES ASSUME NEW i \in 0 .. m, NEW j \in 0 .. m
                 PROVE  (s[i] < s[j] => i < j) /\ (s[i] <= s[j] => i <= j)
      OBVIOUS
    <2>1. s[i] \in 0 .. n /\ s[j] \in 0 .. n
      BY <1>2
    <2>2. i < j \/ i = j \/ j < i
      OBVIOUS
    <2>3. (i < j => s[i] < s[j]) /\ (j < i => s[j] < s[i])
      BY <1>2
    <2> QED
      BY <2>1, <2>2, <2>3
  <1>7. ASSUME NEW j \in 1 .. m
        PROVE  G[j] < j
    <2>1. D[s[j]] < s[j] /\ j \in 0 .. m
      BY <1>1, <1>5
    <2>2. s[G[j]] < s[j] /\ G[j] \in 0 .. m
      BY <1>3, <2>1
    <2> QED
      BY <1>6, <2>1, <2>2
  <1>8. ASSUME NEW i \in 1 .. m, NEW j \in 1 .. m, G[i] < j, j <= i
        PROVE  G[i] <= G[j]
    <2>1. /\ i \in 0 .. m /\ j \in 0 .. m /\ G[i] \in 0 .. m /\ G[j] \in 0 .. m
      BY <1>3
    <2>2. s[G[i]] < s[j]
      BY <1>2, <1>8, <2>1
    <2>3. s[j] <= s[i]
      <3>1. j = i \/ j < i
        BY <1>8
      <3>2. j < i => s[j] < s[i]
        BY <1>2, <2>1
      <3>3. s[i] \in 0 .. n /\ s[j] \in 0 .. n
        BY <1>2, <2>1
      <3> QED
        BY <3>1, <3>2, <3>3
    <2>4. D[s[i]] < s[j]
      BY <1>3, <2>2
    <2>5. D[s[i]] <= D[s[j]]
      BY <1>1, <1>5, <2>3, <2>4
    <2>6. s[G[i]] <= s[G[j]]
      BY <1>3, <2>5
    <2> QED
      BY <1>6, <2>1, <2>6
  <1> QED
    BY <1>3, <1>4, <1>7, <1>8 DEF Walk, G
-----------------------------------------------------------------------------
\* Two runs of positions, from a and from b up to c, may change places when the first
\* is a subtree that can go under the parent at g, nothing in the second hangs on the
\* first, and nothing after them hangs on either.
Turnable(D, n, a, b, c, g) ==
    /\ a \in 1 .. n /\ b \in (a + 1) .. (n + 1) /\ c \in b .. (n + 1) /\ g \in 0 .. (a - 1)
    /\ \A j \in (a + 1) .. (b - 1) : a <= D[j]
    /\ \A j \in b .. (c - 1) : g <= D[j] /\ (D[j] < a \/ b <= D[j])
    /\ \A j \in (g + 1) .. (a - 1) : g <= D[j]
    /\ \A m \in c .. n : D[m] <= g \/ c <= D[m]

\* Where a position comes from when the runs change places, and where it goes.
Origin(a, b, c, j) ==
    IF j < a THEN j
    ELSE IF j < a + (c - b) THEN j + (b - a)
    ELSE IF j < c THEN j - (c - b)
    ELSE j

Placed(a, b, c, k) ==
    IF k < a THEN k
    ELSE IF k < b THEN k + (c - b)
    ELSE IF k < c THEN k - (b - a)
    ELSE k

TurnedWalk(D, n, a, b, c, g) ==
    [j \in 1 .. n |-> IF Origin(a, b, c, j) = a THEN g ELSE Placed(a, b, c, D[Origin(a, b, c, j)])]

\* The two maps are each other's inverse.
LEMMA OriginPlaced ==
    ASSUME NEW n \in Nat, NEW a \in 1 .. n, NEW b \in (a + 1) .. (n + 1), NEW c \in b .. (n + 1)
    PROVE  /\ \A j \in 1 .. n : /\ Origin(a, b, c, j) \in 1 .. n
                                /\ Placed(a, b, c, Origin(a, b, c, j)) = j
           /\ \A k \in 1 .. n : /\ Placed(a, b, c, k) \in 1 .. n
                                /\ Origin(a, b, c, Placed(a, b, c, k)) = k
  BY DEF Origin, Placed

\* The parents after the turn, run by run.
LEMMA TurnedWalkIs ==
    ASSUME NEW n \in Nat, NEW D, Walk(D, n), NEW a, NEW b, NEW c, NEW g, Turnable(D, n, a, b, c, g)
    PROVE  LET G == TurnedWalk(D, n, a, b, c, g)
           IN  /\ \A j \in 1 .. (a - 1) : G[j] = D[j]
               /\ \A j \in b .. (c - 1) : G[j - (b - a)] = IF D[j] < a THEN D[j] ELSE D[j] - (b - a)
               /\ G[a + (c - b)] = g
               /\ \A j \in (a + 1) .. (b - 1) : G[j + (c - b)] = D[j] + (c - b)
               /\ \A j \in c .. n : G[j] = D[j]
               /\ G \in [1 .. n -> Nat]
               /\ \A j \in 1 .. n : G[j] < j
  <1> DEFINE G == TurnedWalk(D, n, a, b, c, g)
  <1>1. /\ a \in 1 .. n /\ b \in (a + 1) .. (n + 1) /\ c \in b .. (n + 1) /\ g \in 0 .. (a - 1)
        /\ \A j \in (a + 1) .. (b - 1) : a <= D[j]
        /\ \A j \in b .. (c - 1) : D[j] < a \/ b <= D[j]
        /\ \A m \in c .. n : D[m] <= g \/ c <= D[m]
    BY DEF Turnable
  <1>2. \A j \in 1 .. n : D[j] \in Nat /\ D[j] < j
    BY DEF Walk
  <1>3. G = [j \in 1 .. n |-> G[j]]
    BY DEF TurnedWalk
  <1>4. \A j \in 1 .. n :
           G[j] = IF Origin(a, b, c, j) = a THEN g ELSE Placed(a, b, c, D[Origin(a, b, c, j)])
    BY DEF TurnedWalk
  <1> HIDE DEF G
  <1>5. ASSUME NEW j \in 1 .. (a - 1)
        PROVE  G[j] = D[j] /\ G[j] \in Nat /\ G[j] < j
    <2>1. j \in 1 .. n /\ Origin(a, b, c, j) = j /\ j # a
      BY <1>1 DEF Origin
    <2>2. D[j] \in Nat /\ D[j] < j /\ Placed(a, b, c, D[j]) = D[j]
      BY <1>1, <1>2, <2>1 DEF Placed
    <2> QED
      BY <1>4, <2>1, <2>2
  <1>6. ASSUME NEW j \in b .. (c - 1)
        PROVE  /\ G[j - (b - a)] = IF D[j] < a THEN D[j] ELSE D[j] - (b - a)
               /\ G[j - (b - a)] \in Nat /\ G[j - (b - a)] < j - (b - a)
    <2>1. /\ j \in 1 .. n /\ j # a /\ j - (b - a) \in 1 .. n
          /\ Origin(a, b, c, j - (b - a)) = j
      BY <1>1 DEF Origin
    <2>2. D[j] \in Nat /\ D[j] < j /\ (D[j] < a \/ b <= D[j])
      BY <1>1, <1>2, <2>1
    <2>3. Placed(a, b, c, D[j]) = IF D[j] < a THEN D[j] ELSE D[j] - (b - a)
      BY <1>1, <2>2 DEF Placed
    <2>4. G[j - (b - a)] = IF D[j] < a THEN D[j] ELSE D[j] - (b - a)
      BY <1>4, <2>1, <2>3
    <2> QED
      BY <1>1, <2>2, <2>4
  <1>7. G[a + (c - b)] = g /\ g \in Nat /\ g < a + (c - b)
    <2>1. a + (c - b) \in 1 .. n /\ Origin(a, b, c, a + (c - b)) = a
      BY <1>1 DEF Origin
    <2> QED
      BY <1>1, <1>4, <2>1
  <1>8. ASSUME NEW j \in (a + 1) .. (b - 1)
        PROVE  /\ G[j + (c - b)] = D[j] + (c - b)
               /\ G[j + (c - b)] \in Nat /\ G[j + (c - b)] < j + (c - b)
    <2>1. /\ j \in 1 .. n /\ j # a /\ j + (c - b) \in 1 .. n
          /\ Origin(a, b, c, j + (c - b)) = j
      BY <1>1 DEF Origin
    <2>2. D[j] \in Nat /\ D[j] < j /\ a <= D[j]
      BY <1>1, <1>2, <2>1
    <2>3. Placed(a, b, c, D[j]) = D[j] + (c - b)
      BY <1>1, <2>2 DEF Placed
    <2>4. G[j + (c - b)] = D[j] + (c - b)
      BY <1>4, <2>1, <2>3
    <2> QED
      BY <1>1, <2>2, <2>4
  <1>9. ASSUME NEW j \in c .. n
        PROVE  G[j] = D[j] /\ G[j] \in Nat /\ G[j] < j
    <2>1. j \in 1 .. n /\ Origin(a, b, c, j) = j /\ j # a
      BY <1>1 DEF Origin
    <2>2. D[j] \in Nat /\ D[j] < j /\ (D[j] <= g \/ c <= D[j])
      BY <1>1, <1>2, <2>1
    <2>3. Placed(a, b, c, D[j]) = D[j]
      BY <1>1, <2>2 DEF Placed
    <2> QED
      BY <1>4, <2>1, <2>2, <2>3
  <1>10. ASSUME NEW j \in 1 .. n
         PROVE  G[j] \in Nat /\ G[j] < j
    <2>1. CASE j < a
      <3>1. j \in 1 .. (a - 1)
        BY <1>1, <2>1
      <3> QED
        BY <1>5, <3>1
    <2>2. CASE a <= j /\ j < a + (c - b)
      <3> DEFINE k == j + (b - a)
      <3>1. k \in b .. (c - 1) /\ j = k - (b - a)
        BY <1>1, <2>2
      <3> HIDE DEF k
      <3> QED
        BY <1>6, <3>1
    <2>3. CASE j = a + (c - b)
      BY <1>7, <2>3
    <2>4. CASE a + (c - b) < j /\ j < c
      <3> DEFINE k == j - (c - b)
      <3>1. k \in (a + 1) .. (b - 1) /\ j = k + (c - b)
        BY <1>1, <2>4
      <3> HIDE DEF k
      <3> QED
        BY <1>8, <3>1
    <2>5. CASE c <= j
      <3>1. j \in c .. n
        BY <1>1, <2>5
      <3> QED
        BY <1>9, <3>1
    <2> QED
      BY <1>1, <2>1, <2>2, <2>3, <2>4, <2>5
  <1>11. G \in [1 .. n -> Nat]
    BY <1>3, <1>10
  <1> QED
    BY <1>5, <1>6, <1>7, <1>8, <1>9, <1>10, <1>11 DEF G

\* After the turn it is still a walk.
LEMMA TurnedWalks ==
    ASSUME NEW n \in Nat, NEW D, Walk(D, n), NEW a, NEW b, NEW c, NEW g, Turnable(D, n, a, b, c, g)
    PROVE  Walk(TurnedWalk(D, n, a, b, c, g), n)
  <1> DEFINE G == TurnedWalk(D, n, a, b, c, g)
  <1>1. /\ a \in 1 .. n /\ b \in (a + 1) .. (n + 1) /\ c \in b .. (n + 1) /\ g \in 0 .. (a - 1)
        /\ \A j \in (a + 1) .. (b - 1) : a <= D[j]
        /\ \A j \in b .. (c - 1) : g <= D[j] /\ (D[j] < a \/ b <= D[j])
        /\ \A j \in (g + 1) .. (a - 1) : g <= D[j]
        /\ \A m \in c .. n : D[m] <= g \/ c <= D[m]
    BY DEF Turnable
  <1>2. /\ \A j \in 1 .. n : D[j] \in Nat /\ D[j] < j
        /\ \A k, j \in 1 .. n : D[k] < j /\ j <= k => D[k] <= D[j]
    BY DEF Walk
  <1>3. /\ \A j \in 1 .. (a - 1) : G[j] = D[j]
        /\ \A j \in b .. (c - 1) : G[j - (b - a)] = IF D[j] < a THEN D[j] ELSE D[j] - (b - a)
        /\ G[a + (c - b)] = g
        /\ \A j \in (a + 1) .. (b - 1) : G[j + (c - b)] = D[j] + (c - b)
        /\ \A j \in c .. n : G[j] = D[j]
        /\ G \in [1 .. n -> Nat]
        /\ \A j \in 1 .. n : G[j] < j
    BY TurnedWalkIs
  <1> HIDE DEF G
  <1>4. ASSUME NEW i \in 1 .. n, NEW j \in 1 .. n, G[i] < j, j <= i
        PROVE  G[i] <= G[j]
    <2>1. CASE i < a
      <3>1. i \in 1 .. (a - 1) /\ j \in 1 .. (a - 1)
        BY <1>1, <1>4, <2>1
      <3> QED
        BY <1>2, <1>3, <1>4, <3>1
    <2>2. CASE a <= i /\ i < a + (c - b)
      <3> DEFINE k == i + (b - a)
      <3>1. k \in b .. (c - 1) /\ k \in 1 .. n /\ i = k - (b - a)
        BY <1>1, <2>2
      <3> HIDE DEF k
      <3>2. G[i] = (IF D[k] < a THEN D[k] ELSE D[k] - (b - a)) /\ D[k] \in Nat
        BY <1>2, <1>3, <3>1
      <3>3. D[k] < a \/ b <= D[k]
        BY <1>1, <3>1
      <3>4. CASE j < a
        <4>1. j \in 1 .. (a - 1) /\ j <= k /\ G[j] = D[j]
          BY <1>1, <1>3, <3>1, <3>4
        <4>2. G[i] = D[k] /\ D[k] < j
          BY <1>1, <1>4, <3>2, <3>3, <3>4
        <4> QED
          BY <1>2, <3>1, <4>1, <4>2
      <3>5. CASE a <= j
        <4> DEFINE l == j + (b - a)
        <4>1. l \in b .. (c - 1) /\ l \in 1 .. n /\ j = l - (b - a) /\ l <= k
          BY <1>1, <1>4, <3>1, <3>5
        <4> HIDE DEF l
        <4>2. G[j] = (IF D[l] < a THEN D[l] ELSE D[l] - (b - a)) /\ D[l] \in Nat
          BY <1>2, <1>3, <4>1
        <4>3. D[l] < a \/ b <= D[l]
          BY <1>1, <4>1
        <4>4. D[k] < l
          BY <1>1, <1>4, <3>2, <3>3, <4>1
        <4>5. D[k] <= D[l]
          BY <1>2, <3>1, <4>1, <4>4
        <4> QED
          BY <1>1, <3>2, <3>3, <4>2, <4>3, <4>5
      <3> QED
        BY <1>1, <3>4, <3>5
    <2>3. CASE i = a + (c - b)
      <3>1. G[i] = g
        BY <1>3, <2>3
      <3>2. CASE j < a
        <4>1. j \in 1 .. (a - 1) /\ j \in (g + 1) .. (a - 1)
          BY <1>1, <1>4, <3>1, <3>2
        <4> QED
          BY <1>1, <1>3, <3>1, <4>1
      <3>3. CASE a <= j /\ j < a + (c - b)
        <4> DEFINE l == j + (b - a)
        <4>1. l \in b .. (c - 1) /\ l \in 1 .. n /\ j = l - (b - a)
          BY <1>1, <3>3
        <4> HIDE DEF l
        <4>2. G[j] = (IF D[l] < a THEN D[l] ELSE D[l] - (b - a)) /\ D[l] \in Nat
          BY <1>2, <1>3, <4>1
        <4>3. g <= D[l] /\ (D[l] < a \/ b <= D[l])
          BY <1>1, <4>1
        <4> QED
          BY <1>1, <3>1, <4>2, <4>3
      <3>4. CASE j = a + (c - b)
        BY <1>1, <2>3, <3>1, <3>4
      <3> QED
        BY <1>1, <1>4, <2>3, <3>2, <3>3, <3>4
    <2>4. CASE a + (c - b) < i /\ i < c
      <3> DEFINE k == i - (c - b)
      <3>1. k \in (a + 1) .. (b - 1) /\ k \in 1 .. n /\ i = k + (c - b)
        BY <1>1, <2>4
      <3> HIDE DEF k
      <3>2. G[i] = D[k] + (c - b) /\ D[k] \in Nat /\ a <= D[k]
        BY <1>1, <1>2, <1>3, <3>1
      <3> DEFINE l == j - (c - b)
      <3>3. l \in (a + 1) .. (b - 1) /\ l \in 1 .. n /\ j = l + (c - b) /\ l <= k /\ D[k] < l
        BY <1>1, <1>4, <3>1, <3>2
      <3> HIDE DEF l
      <3>4. G[j] = D[l] + (c - b) /\ D[l] \in Nat
        BY <1>2, <1>3, <3>3
      <3>5. D[k] <= D[l]
        BY <1>2, <3>1, <3>3
      <3> QED
        BY <1>1, <3>2, <3>4, <3>5
    <2>5. CASE c <= i
      <3>1. i \in c .. n /\ G[i] = D[i] /\ D[i] \in Nat
        BY <1>1, <1>2, <1>3, <2>5
      <3>2. D[i] <= g \/ c <= D[i]
        BY <1>1, <3>1
      <3>3. CASE j < a
        <4>1. j \in 1 .. (a - 1) /\ G[j] = D[j]
          BY <1>1, <1>3, <3>3
        <4> QED
          BY <1>2, <1>4, <3>1, <4>1
      <3>4. CASE a <= j /\ j < a + (c - b)
        <4> DEFINE l == j + (b - a)
        <4>1. l \in b .. (c - 1) /\ l \in 1 .. n /\ j = l - (b - a)
          BY <1>1, <3>4
        <4> HIDE DEF l
        <4>2. G[j] = (IF D[l] < a THEN D[l] ELSE D[l] - (b - a)) /\ D[l] \in Nat
          BY <1>2, <1>3, <4>1
        <4>3. g <= D[l] /\ (D[l] < a \/ b <= D[l])
          BY <1>1, <4>1
        <4>4. D[i] <= g
          BY <1>1, <1>4, <3>1, <3>2, <4>1
        <4> QED
          BY <1>1, <3>1, <4>2, <4>3, <4>4
      <3>5. CASE j = a + (c - b)
        <4>1. D[i] <= g
          BY <1>1, <1>4, <3>1, <3>2, <3>5
        <4> QED
          BY <1>3, <3>1, <3>5, <4>1
      <3>6. CASE a + (c - b) < j /\ j < c
        <4> DEFINE l == j - (c - b)
        <4>1. l \in (a + 1) .. (b - 1) /\ l \in 1 .. n /\ j = l + (c - b)
          BY <1>1, <3>6
        <4> HIDE DEF l
        <4>2. G[j] = D[l] + (c - b) /\ D[l] \in Nat /\ a <= D[l]
          BY <1>1, <1>2, <1>3, <4>1
        <4>3. D[i] <= g
          BY <1>1, <1>4, <3>1, <3>2, <3>6
        <4> QED
          BY <1>1, <3>1, <4>2, <4>3
      <3>7. CASE c <= j
        <4>1. j \in c .. n /\ G[j] = D[j]
          BY <1>1, <1>3, <3>7
        <4> QED
          BY <1>2, <1>4, <3>1, <4>1
      <3> QED
        BY <1>1, <3>3, <3>4, <3>5, <3>6, <3>7
    <2> QED
      BY <1>1, <2>1, <2>2, <2>3, <2>4, <2>5
  <1> QED
    BY <1>3, <1>4 DEF Walk, G
-----------------------------------------------------------------------------
\* Neighbouring siblings can change places with their subtrees.
LEMMA SwapTurns ==
    ASSUME NEW n \in Nat, NEW D, Walk(D, n), NEW i \in 1 .. n, NEW k, PreviousSibling(D, i, k),
           NEW e, EndOf(D, n, i, e)
    PROVE  Turnable(D, n, k, i, e, D[k])
  <1>1. /\ \A j \in 1 .. n : D[j] \in Nat /\ D[j] < j
        /\ \A l, j \in 1 .. n : D[l] < j /\ j <= l => D[l] <= D[j]
    BY DEF Walk
  <1>2. k \in 1 .. (i - 1) /\ k \in 1 .. n /\ D[k] = D[i]
    BY DEF PreviousSibling
  <1>3. \A j \in (k + 1) .. (i - 1) : k <= D[j]
    BY BetweenSiblings DEF EndOf
  <1>4. e \in (i + 1) .. (n + 1) /\ \A j \in (i + 1) .. (e - 1) : i <= D[j]
    BY DEF EndOf
  <1>5. \A m \in e .. n : D[m] < e => D[m] <= D[i]
    BY SiblingGap DEF Gap
  <1>6. D[k] \in Nat /\ D[k] < k
    BY <1>1, <1>2
  <1>7. ASSUME NEW j \in i .. (e - 1)
        PROVE  D[k] <= D[j] /\ (D[j] < k \/ i <= D[j])
    <2>1. CASE j = i
      BY <1>2, <1>6, <2>1
    <2>2. CASE j # i
      <3>1. j \in (i + 1) .. (e - 1) /\ j \in 1 .. n
        BY <1>4, <2>2
      <3>2. i <= D[j] /\ D[j] \in Nat
        BY <1>1, <1>4, <3>1
      <3> QED
        BY <1>2, <1>6, <3>2
    <2> QED
      BY <2>1, <2>2
  <1>8. ASSUME NEW j \in (D[k] + 1) .. (k - 1)
        PROVE  D[k] <= D[j]
    <2>1. j \in 1 .. n /\ D[k] < j /\ j <= k
      BY <1>2, <1>6
    <2> QED
      BY <1>1, <1>2, <2>1
  <1>9. ASSUME NEW m \in e .. n
        PROVE  D[m] <= D[k] \/ e <= D[m]
    <2>1. m \in 1 .. n /\ D[m] \in Nat
      BY <1>1, <1>4
    <2> QED
      BY <1>2, <1>4, <1>5, <2>1
  <1>10. /\ i \in (k + 1) .. (n + 1) /\ e \in i .. (n + 1) /\ D[k] \in 0 .. (k - 1)
    BY <1>2, <1>4, <1>6
  <1> QED
    BY <1>2, <1>3, <1>7, <1>8, <1>9, <1>10 DEF Turnable

\* A subtree can go behind that of its parent.
LEMMA OutdentTurns ==
    ASSUME NEW n \in Nat, NEW D, Walk(D, n), NEW i \in 1 .. n, D[i] # 0,
           NEW e, EndOf(D, n, i, e), NEW y, EndOf(D, n, D[i], y)
    PROVE  /\ D[i] \in 1 .. (i - 1) /\ e <= y
           /\ Turnable(D, n, i, e, y, D[D[i]])
  <1> DEFINE p == D[i]
             g == D[p]
  <1>1. /\ \A j \in 1 .. n : D[j] \in Nat /\ D[j] < j
        /\ \A l, j \in 1 .. n : D[l] < j /\ j <= l => D[l] <= D[j]
    BY DEF Walk
  <1>2. /\ e \in (i + 1) .. (n + 1)
        /\ \A j \in (i + 1) .. (e - 1) : i <= D[j]
        /\ e <= n => D[e] < i
    BY DEF EndOf
  <1>3. /\ y \in (p + 1) .. (n + 1)
        /\ \A j \in (p + 1) .. (y - 1) : p <= D[j]
        /\ y <= n => D[y] < p
    BY DEF EndOf
  <1>4. p \in 1 .. (i - 1) /\ p \in 1 .. n
    BY <1>1
  <1>5. \A m \in e .. n : D[m] < e => D[m] <= p
    BY SiblingGap DEF Gap
  <1> HIDE DEF p
  <1>6. \A m \in y .. n : D[m] < y => D[m] <= g
    <2>1. EndOf(D, n, p, y)
      BY DEF p
    <2> QED
      BY <1>4, <2>1, SiblingGap DEF Gap
  <1>7. g \in Nat /\ g < p
    BY <1>1, <1>4
  <1>8. e <= y
    <2> SUFFICES ASSUME y < e PROVE FALSE
      BY <1>2, <1>3, <1>4
    <2>1. y \in 1 .. n /\ D[y] < p
      BY <1>2, <1>3, <1>4
    <2>2. CASE y <= i
      <3>1. p <= D[y]
        BY <1>1, <1>3, <1>4, <2>1, <2>2 DEF p
      <3> QED
        BY <1>1, <1>4, <2>1, <3>1
    <2>3. CASE i < y
      <3>1. y \in (i + 1) .. (e - 1)
        BY <1>2, <2>1, <2>3
      <3>2. i <= D[y]
        BY <1>2, <3>1
      <3> QED
        BY <1>1, <1>4, <2>1, <3>2
    <2> QED
      BY <1>4, <2>1, <2>2, <2>3
  <1>9. ASSUME NEW j \in e .. (y - 1)
        PROVE  g <= D[j] /\ (D[j] < i \/ e <= D[j])
    <2>1. j \in 1 .. n /\ j \in (p + 1) .. (y - 1) /\ j \in e .. n
      BY <1>2, <1>3, <1>4
    <2>2. p <= D[j] /\ D[j] \in Nat
      BY <1>1, <1>3, <2>1
    <2>3. D[j] < e => D[j] <= p
      BY <1>5, <2>1
    <2> QED
      BY <1>2, <1>4, <1>7, <2>2, <2>3
  <1>10. ASSUME NEW j \in (g + 1) .. (i - 1)
         PROVE  g <= D[j]
    <2>1. j \in 1 .. n /\ g < j /\ D[j] \in Nat
      BY <1>1, <1>7
    <2>2. CASE j <= p
      BY <1>1, <1>4, <2>1, <2>2
    <2>3. CASE p < j
      <3>1. p <= D[j]
        BY <1>1, <2>1, <2>3 DEF p
      <3> QED
        BY <1>4, <1>7, <2>1, <3>1
    <2> QED
      BY <1>4, <2>1, <2>2, <2>3
  <1>11. ASSUME NEW m \in y .. n
         PROVE  D[m] <= g \/ y <= D[m]
    <2>1. m \in 1 .. n /\ D[m] \in Nat
      BY <1>1, <1>3, <1>4
    <2> QED
      BY <1>3, <1>6, <2>1
  <1>12. y \in e .. (n + 1) /\ g \in 0 .. (i - 1)
    BY <1>2, <1>3, <1>4, <1>7, <1>8
  <1>13. Turnable(D, n, i, e, y, g)
    BY <1>2, <1>9, <1>10, <1>11, <1>12 DEF Turnable
  <1> QED
    BY <1>4, <1>8, <1>13 DEF p
-----------------------------------------------------------------------------
\* The edits as sequences: the entry at each position.
LEMMA SliceIs ==
    ASSUME NEW E, NEW es \in Seq(E), NEW a \in 1 .. (Len(es) + 1), NEW b \in a .. (Len(es) + 1)
    PROVE  /\ Slice(es, a, b) \in Seq(E)
           /\ Len(Slice(es, a, b)) = b - a
           /\ \A j \in 1 .. (b - a) : Slice(es, a, b)[j] = es[j + a - 1]
  <1>1. a - 1 \in 0 .. Len(es) /\ Len(es) \in Nat
    OBVIOUS
  <1>2. \A i \in a .. (b - 1) : es[i] \in E
    OBVIOUS
  <1> QED
    BY <1>1, <1>2 DEF Slice

\* Two sequences put together.
LEMMA ConcatIs ==
    ASSUME NEW E, NEW s \in Seq(E), NEW t \in Seq(E)
    PROVE  /\ s \o t \in Seq(E) /\ Len(s \o t) = Len(s) + Len(t)
           /\ \A j \in 1 .. Len(s) : (s \o t)[j] = s[j]
           /\ \A j \in 1 .. Len(t) : (s \o t)[Len(s) + j] = t[j]
  <1>1. Len(s) \in Nat /\ Len(t) \in Nat
    BY LenProperties
  <1>2. s \o t \in Seq(E) /\ Len(s \o t) = Len(s) + Len(t)
    BY ConcatProperties
  <1>3. ASSUME NEW j \in 1 .. Len(s)
        PROVE  (s \o t)[j] = s[j]
    BY <1>1, ConcatProperties
  <1>4. ASSUME NEW j \in 1 .. Len(t)
        PROVE  (s \o t)[Len(s) + j] = t[j]
    <2>1. Len(s) + j \in 1 .. (Len(s) + Len(t)) /\ ~(Len(s) + j <= Len(s)) /\ Len(s) + j - Len(s) = j
      BY <1>1
    <2> QED
      BY <2>1, ConcatProperties
  <1> QED
    BY <1>2, <1>3, <1>4

\* What is before x.
LEMMA HeadIs ==
    ASSUME NEW E, NEW es \in Seq(E), NEW x \in 1 .. (Len(es) + 1)
    PROVE  /\ Slice(es, 1, x) \in Seq(E) /\ Len(Slice(es, 1, x)) = x - 1
           /\ \A j \in 1 .. (x - 1) : Slice(es, 1, x)[j] = es[j]
  <1>1. 1 \in 1 .. (Len(es) + 1) /\ x \in 1 .. (Len(es) + 1) /\ Len(es) \in Nat
    OBVIOUS
  <1>2. /\ Slice(es, 1, x) \in Seq(E)
        /\ Len(Slice(es, 1, x)) = x - 1
        /\ \A j \in 1 .. (x - 1) : Slice(es, 1, x)[j] = es[j + 1 - 1]
    BY <1>1, SliceIs
  <1>3. \A j \in 1 .. (x - 1) : j + 1 - 1 = j
    BY <1>1
  <1> QED
    BY <1>2, <1>3

\* What is from x on.
LEMMA TailIs ==
    ASSUME NEW E, NEW es \in Seq(E), NEW x \in 1 .. (Len(es) + 1)
    PROVE  /\ Slice(es, x, Len(es) + 1) \in Seq(E)
           /\ Len(Slice(es, x, Len(es) + 1)) = Len(es) + 1 - x
           /\ \A j \in 1 .. (Len(es) + 1 - x) : Slice(es, x, Len(es) + 1)[j] = es[j + x - 1]
  <1> DEFINE b == Len(es) + 1
  <1>1. b \in x .. (Len(es) + 1)
    OBVIOUS
  <1> HIDE DEF b
  <1>2. /\ Slice(es, x, b) \in Seq(E) /\ Len(Slice(es, x, b)) = b - x
        /\ \A j \in 1 .. (b - x) : Slice(es, x, b)[j] = es[j + x - 1]
    BY <1>1, SliceIs
  <1> QED
    BY <1>2 DEF b

\* The entries with others put in at x.
SplicedAs(E, es, x, t, r) ==
    /\ r \in Seq(E) /\ Len(r) = Len(es) + Len(t)
    /\ \A j \in 1 .. (x - 1) : r[j] = es[j]
    /\ \A j \in 1 .. Len(t) : r[x - 1 + j] = t[j]
    /\ \A j \in x .. Len(es) : r[j + Len(t)] = es[j]

\* That is what Spliced makes.
LEMMA SplicedIs ==
    ASSUME NEW E, NEW es \in Seq(E), NEW x \in 1 .. (Len(es) + 1), NEW t \in Seq(E)
    PROVE  SplicedAs(E, es, x, t, Spliced(es, x, t))
  <1> DEFINE n == Len(es)
             l == Len(t)
             u == Slice(es, 1, x)
             v == Slice(es, x, Len(es) + 1)
             w == u \o t
             r == Spliced(es, x, t)
  <1>1. n \in Nat /\ x \in 1 .. (n + 1) /\ l \in Nat /\ Len(t) = l
    OBVIOUS
  <1>2. u \in Seq(E) /\ Len(u) = x - 1 /\ \A j \in 1 .. (x - 1) : u[j] = es[j]
    BY HeadIs
  <1>3. v \in Seq(E) /\ Len(v) = n + 1 - x /\ \A j \in 1 .. (n + 1 - x) : v[j] = es[j + x - 1]
    BY TailIs
  <1>4. r = w \o v
    BY DEF Spliced
  <1>m. u \in Seq(E) /\ v \in Seq(E)
    BY <1>2, <1>3
  <1> HIDE DEF u, v, r, n, l
  <1>5. /\ w \in Seq(E) /\ Len(w) = Len(u) + Len(t)
        /\ \A j \in 1 .. Len(u) : w[j] = u[j]
        /\ \A j \in 1 .. Len(t) : w[Len(u) + j] = t[j]
    BY <1>m, ConcatIs
  <1>i. Len(u) = x - 1 /\ Len(w) = (x - 1) + l /\ Len(v) = n + 1 - x
    BY <1>1, <1>2, <1>3, <1>5
  <1>m1. w \in Seq(E)
    BY <1>5
  <1> HIDE DEF w
  <1>6. /\ r \in Seq(E) /\ Len(r) = Len(w) + Len(v)
        /\ \A j \in 1 .. Len(w) : r[j] = w[j]
        /\ \A j \in 1 .. Len(v) : r[Len(w) + j] = v[j]
    BY <1>m, <1>4, <1>m1, ConcatIs
  <1>7. Len(r) = n + l /\ r \in Seq(E)
    BY <1>1, <1>6, <1>i
  <1>8. ASSUME NEW j \in 1 .. (x - 1)
        PROVE  r[j] = es[j]
    <2>1. j \in 1 .. Len(w) /\ j \in 1 .. Len(u)
      BY <1>1, <1>i
    <2> QED
      BY <1>2, <1>5, <1>6, <2>1
  <1>9. ASSUME NEW j \in 1 .. l
        PROVE  r[x - 1 + j] = t[j]
    <2>1. x - 1 + j \in 1 .. Len(w) /\ x - 1 + j = Len(u) + j /\ j \in 1 .. Len(t)
      BY <1>1, <1>i
    <2>2. w[Len(u) + j] = t[j]
      BY <1>5, <2>1
    <2> QED
      BY <1>6, <2>1, <2>2
  <1>10. ASSUME NEW j \in x .. n
         PROVE  r[j + l] = es[j]
    <2> DEFINE k == j + 1 - x
    <2>1. /\ k \in 1 .. (n + 1 - x) /\ k \in 1 .. Len(v)
          /\ Len(w) + k = j + l /\ k + x - 1 = j
      BY <1>1, <1>i
    <2> HIDE DEF k
    <2> QED
      BY <1>3, <1>6, <2>1
  <1> QED
    BY <1>7, <1>8, <1>9, <1>10 DEF SplicedAs, r, n, l

\* A run taken out: what stands before it stays, what follows it moves up.
LEMMA WithoutIs ==
    ASSUME NEW E, NEW es \in Seq(E), NEW a \in 1 .. (Len(es) + 1), NEW b \in a .. (Len(es) + 1)
    PROVE  LET r == Without(es, a, b)
           IN  /\ r \in Seq(E) /\ Len(r) = Len(es) - (b - a)
               /\ \A j \in 1 .. (a - 1) : r[j] = es[j]
               /\ \A j \in b .. Len(es) : r[j - (b - a)] = es[j]
  <1> DEFINE n == Len(es)
             u == Slice(es, 1, a)
             v == Slice(es, b, Len(es) + 1)
             r == Without(es, a, b)
  <1>1. n \in Nat /\ a \in 1 .. (n + 1) /\ b \in a .. (n + 1) /\ b \in 1 .. (n + 1)
    OBVIOUS
  <1>2. u \in Seq(E) /\ Len(u) = a - 1 /\ \A j \in 1 .. (a - 1) : u[j] = es[j]
    BY HeadIs
  <1>3. v \in Seq(E) /\ Len(v) = n + 1 - b /\ \A j \in 1 .. (n + 1 - b) : v[j] = es[j + b - 1]
    BY <1>1, TailIs
  <1>4. r = u \o v
    BY DEF Without
  <1>m. u \in Seq(E) /\ v \in Seq(E)
    BY <1>2, <1>3
  <1> HIDE DEF u, v, r, n
  <1>5. /\ r \in Seq(E) /\ Len(r) = Len(u) + Len(v)
        /\ \A j \in 1 .. Len(u) : r[j] = u[j]
        /\ \A j \in 1 .. Len(v) : r[Len(u) + j] = v[j]
    BY <1>m, <1>4, ConcatIs
  <1>i. Len(u) = a - 1 /\ Len(v) = n + 1 - b
    BY <1>2, <1>3
  <1>6. Len(r) = n - (b - a) /\ \A j \in 1 .. (a - 1) : r[j] = es[j]
    BY <1>1, <1>2, <1>5, <1>i
  <1>7. ASSUME NEW j \in b .. n
        PROVE  r[j - (b - a)] = es[j]
    <2> DEFINE k == j + 1 - b
    <2>1. /\ k \in 1 .. (n + 1 - b) /\ k \in 1 .. Len(v)
          /\ Len(u) + k = j - (b - a) /\ k + b - 1 = j
      BY <1>1, <1>i
    <2> HIDE DEF k
    <2> QED
      BY <1>3, <1>5, <2>1
  <1> QED
    BY <1>5, <1>6, <1>7 DEF r, n

\* Two runs that have changed places, entry by entry.
LEMMA RotatedIs ==
    ASSUME NEW E, NEW es \in Seq(E), NEW a \in 1 .. Len(es), NEW b \in (a + 1) .. (Len(es) + 1),
           NEW c \in b .. (Len(es) + 1)
    PROVE  LET r == Rotated(es, a, b, c)
           IN  /\ r \in Seq(E) /\ Len(r) = Len(es)
               /\ \A j \in 1 .. Len(es) : r[j] = es[Origin(a, b, c, j)]
  <1> DEFINE n == Len(es)
             s == Slice(es, 1, a)
             t == Slice(es, b, c)
             u == Slice(es, a, b)
             v == Slice(es, c, Len(es) + 1)
             r == Rotated(es, a, b, c)
  <1>1. /\ n \in Nat /\ a \in 1 .. (n + 1) /\ b \in 1 .. (n + 1)
        /\ b \in a .. (n + 1) /\ c \in 1 .. (n + 1)
        /\ a \in 1 .. n /\ b \in (a + 1) .. (n + 1) /\ c \in b .. (n + 1)
    OBVIOUS
  <1>2. s \in Seq(E) /\ Len(s) = a - 1 /\ \A j \in 1 .. (a - 1) : s[j] = es[j]
    BY <1>1, HeadIs
  <1>3. t \in Seq(E) /\ Len(t) = c - b /\ \A j \in 1 .. (c - b) : t[j] = es[j + b - 1]
    BY <1>1, SliceIs
  <1>4. u \in Seq(E) /\ Len(u) = b - a /\ \A j \in 1 .. (b - a) : u[j] = es[j + a - 1]
    BY <1>1, SliceIs
  <1>5. v \in Seq(E) /\ Len(v) = n + 1 - c /\ \A j \in 1 .. (n + 1 - c) : v[j] = es[j + c - 1]
    BY <1>1, TailIs
  <1>6. r = ((s \o t) \o u) \o v
    BY DEF Rotated
  <1>m. s \in Seq(E) /\ t \in Seq(E) /\ u \in Seq(E) /\ v \in Seq(E)
    BY <1>2, <1>3, <1>4, <1>5
  <1> HIDE DEF s, t, u, v, r, n
  <1> DEFINE st == s \o t
  <1>7. /\ st \in Seq(E) /\ Len(st) = Len(s) + Len(t)
        /\ \A j \in 1 .. Len(s) : st[j] = s[j]
        /\ \A j \in 1 .. Len(t) : st[Len(s) + j] = t[j]
    BY <1>m, ConcatIs
  <1>m1. st \in Seq(E)
    BY <1>7
  <1> HIDE DEF st
  <1> DEFINE stu == st \o u
  <1>8. /\ stu \in Seq(E) /\ Len(stu) = Len(st) + Len(u)
        /\ \A j \in 1 .. Len(st) : stu[j] = st[j]
        /\ \A j \in 1 .. Len(u) : stu[Len(st) + j] = u[j]
    BY <1>m, <1>m1, ConcatIs
  <1>m2. stu \in Seq(E)
    BY <1>8
  <1> HIDE DEF stu
  <1> DEFINE w == stu \o v
  <1>9. /\ w \in Seq(E) /\ Len(w) = Len(stu) + Len(v)
        /\ \A j \in 1 .. Len(stu) : w[j] = stu[j]
        /\ \A j \in 1 .. Len(v) : w[Len(stu) + j] = v[j]
    BY <1>m, <1>m2, ConcatIs
  <1>i. /\ Len(s) = a - 1 /\ Len(t) = c - b /\ Len(u) = b - a /\ Len(v) = n + 1 - c
        /\ Len(st) = (a - 1) + (c - b) /\ Len(stu) = c - 1 /\ Len(w) = n
    <2>1. Len(s) = a - 1 /\ Len(t) = c - b /\ Len(u) = b - a /\ Len(v) = n + 1 - c
      BY <1>2, <1>3, <1>4, <1>5
    <2>2. Len(st) = Len(s) + Len(t) /\ Len(stu) = Len(st) + Len(u) /\ Len(w) = Len(stu) + Len(v)
      BY <1>7, <1>8, <1>9
    <2> QED
      BY <1>1, <2>1, <2>2
  <1> HIDE DEF w
  <1>10. ASSUME NEW j \in 1 .. n
         PROVE  w[j] = es[Origin(a, b, c, j)]
    <2>1. CASE j < a
      <3>1. j \in 1 .. Len(stu) /\ j \in 1 .. Len(st) /\ j \in 1 .. Len(s) /\ j \in 1 .. (a - 1)
        BY <1>1, <1>i, <2>1
      <3>2. Origin(a, b, c, j) = j
        BY <2>1 DEF Origin
      <3> QED
        BY <1>2, <1>7, <1>8, <1>9, <3>1, <3>2
    <2>2. CASE a <= j /\ j < a + (c - b)
      <3> DEFINE k == j - (a - 1)
      <3>1. /\ j \in 1 .. Len(stu) /\ j \in 1 .. Len(st)
            /\ k \in 1 .. (c - b) /\ k \in 1 .. Len(t) /\ Len(s) + k = j /\ k + b - 1 = j + (b - a)
        BY <1>1, <1>i, <2>2
      <3> HIDE DEF k
      <3>2. Origin(a, b, c, j) = j + (b - a)
        BY <1>1, <2>2 DEF Origin
      <3>3. t[k] = es[j + (b - a)]
        BY <1>3, <3>1
      <3>4. st[j] = t[k]
        BY <1>7, <3>1
      <3> QED
        BY <1>8, <1>9, <3>1, <3>2, <3>3, <3>4
    <2>3. CASE a + (c - b) <= j /\ j < c
      <3> DEFINE k == j - ((a - 1) + (c - b))
      <3>1. /\ j \in 1 .. Len(stu)
            /\ k \in 1 .. (b - a) /\ k \in 1 .. Len(u) /\ Len(st) + k = j /\ k + a - 1 = j - (c - b)
        BY <1>1, <1>i, <2>3
      <3> HIDE DEF k
      <3>2. Origin(a, b, c, j) = j - (c - b)
        BY <1>1, <2>3 DEF Origin
      <3>3. u[k] = es[j - (c - b)]
        BY <1>4, <3>1
      <3>4. stu[j] = u[k]
        BY <1>8, <3>1
      <3> QED
        BY <1>9, <3>1, <3>2, <3>3, <3>4
    <2>4. CASE c <= j
      <3> DEFINE k == j - (c - 1)
      <3>1. /\ k \in 1 .. (n + 1 - c) /\ k \in 1 .. Len(v)
            /\ Len(stu) + k = j /\ k + c - 1 = j
        BY <1>1, <1>i, <2>4
      <3> HIDE DEF k
      <3>2. Origin(a, b, c, j) = j
        BY <1>1, <2>4 DEF Origin
      <3>3. v[k] = es[j]
        BY <1>5, <3>1
      <3> QED
        BY <1>9, <3>1, <3>2, <3>3
    <2> QED
      BY <1>1, <2>1, <2>2, <2>3, <2>4
  <1>11. r = w
    BY <1>6 DEF w, stu, st
  <1> QED
    BY <1>9, <1>10, <1>11, <1>i DEF r, n
-----------------------------------------------------------------------------
\* Entries carried over from one walk to another, o giving the position each had: an
\* entry keeps its identifier, and its parent with its place, or has a new parent.
Carried(es, D, r, G, o) ==
    \A i \in 1 .. Len(r) :
        /\ o[i] \in 1 .. Len(es) /\ r[i].id = es[o[i]].id
        /\ \A k \in 1 .. Len(r) : o[i] = o[k] => i = k
        /\ \/ /\ r[i].parent = es[o[i]].parent
              /\ D[o[i]] = 0 => G[i] = 0
              /\ D[o[i]] # 0 => G[i] \in 1 .. Len(r) /\ o[G[i]] = D[o[i]]
           \/ G[i] = 0 /\ r[i].parent = TopLevel
           \/ G[i] \in 1 .. Len(r) /\ r[i].parent = r[G[i]].id

\* They name the parents of the new walk.
LEMMA CarriedTree ==
    ASSUME NEW es, Len(es) \in Nat, NEW D, Tree(es, D), NEW r, Len(r) \in Nat,
           NEW G, Walk(G, Len(r)), NEW o, Carried(es, D, r, G, o)
    PROVE  Tree(r, G)
  <1> DEFINE n == Len(es)
             l == Len(r)
  <1>1. Named(es) /\ Linked(es, D) /\ \A i \in 1 .. n : D[i] \in Nat /\ D[i] < i
    BY DEF Tree, Walk
  <1>2. n \in Nat /\ l \in Nat
    OBVIOUS
  <1>3. Named(r)
    <2>1. ASSUME NEW i \in 1 .. l, NEW k \in 1 .. l, r[i].id = r[k].id
          PROVE  i = k
      <3>1. /\ o[i] \in 1 .. n /\ r[i].id = es[o[i]].id
            /\ o[k] \in 1 .. n /\ r[k].id = es[o[k]].id
            /\ o[i] = o[k] => i = k
        BY DEF Carried
      <3> QED
        BY <1>1, <2>1, <3>1 DEF Named
    <2>2. ASSUME NEW i \in 1 .. l
          PROVE  r[i].id # TopLevel
      <3>1. o[i] \in 1 .. n /\ r[i].id = es[o[i]].id
        BY DEF Carried
      <3> QED
        BY <1>1, <3>1 DEF Named
    <2> QED
      BY <2>1, <2>2 DEF Named
  <1>4. ASSUME NEW i \in 1 .. l
        PROVE  /\ G[i] = 0 => r[i].parent = TopLevel
               /\ G[i] \in 1 .. l => r[i].parent = r[G[i]].id
    <2>1. o[i] \in 1 .. n /\ D[o[i]] \in Nat /\ D[o[i]] < o[i]
      BY <1>1 DEF Carried
    <2>2. CASE /\ r[i].parent = es[o[i]].parent
               /\ D[o[i]] = 0 => G[i] = 0
               /\ D[o[i]] # 0 => G[i] \in 1 .. l /\ o[G[i]] = D[o[i]]
      <3>1. CASE D[o[i]] = 0
        <4>1. es[o[i]].parent = TopLevel
          BY <1>1, <2>1, <3>1 DEF Linked
        <4>2. G[i] = 0
          BY <2>2, <3>1
        <4> QED
          BY <1>2, <2>2, <4>1, <4>2
      <3>2. CASE D[o[i]] # 0
        <4>1. D[o[i]] \in 1 .. n
          BY <1>2, <2>1, <3>2
        <4>2. es[o[i]].parent = es[D[o[i]]].id
          BY <1>1, <2>1, <4>1 DEF Linked
        <4>3. G[i] \in 1 .. l /\ o[G[i]] = D[o[i]]
          BY <2>2, <3>2
        <4>4. r[G[i]].id = es[o[G[i]]].id
          BY <4>3 DEF Carried
        <4>5. G[i] # 0
          BY <1>2, <4>3
        <4> QED
          BY <2>2, <4>2, <4>3, <4>4, <4>5
      <3> QED
        BY <3>1, <3>2
    <2>3. CASE G[i] = 0 /\ r[i].parent = TopLevel
      BY <1>2, <2>3
    <2>4. CASE G[i] \in 1 .. l /\ r[i].parent = r[G[i]].id
      BY <1>2, <2>4
    <2> QED
      BY <2>2, <2>3, <2>4 DEF Carried
  <1> QED
    BY <1>3, <1>4 DEF Tree, Linked

\* Entries that keep their places, identifiers and parents.
LEMMA SameTree ==
    ASSUME NEW es, Len(es) \in Nat, NEW D, Tree(es, D), NEW r, Len(r) = Len(es),
           \A i \in 1 .. Len(es) : r[i].id = es[i].id /\ r[i].parent = es[i].parent
    PROVE  Tree(r, D)
  BY DEF Tree, Named, Linked

\* An entry more, with a new identifier, where there is a place for it.
LEMMA SplicedTree ==
    ASSUME NEW E, NEW es \in Seq(E), NEW D, Tree(es, D), NEW x, NEW q, Gap(D, Len(es), x, q),
           NEW e \in E, e.id # TopLevel, \A i \in 1 .. Len(es) : es[i].id # e.id,
           e.parent = IF q = 0 THEN TopLevel ELSE es[q].id
    PROVE  LET r == Spliced(es, x, <<e>>)
           IN  r \in Seq(E) /\ Len(r) = Len(es) + 1 /\ Tree(r, GrownWalk(D, Len(es), x, q))
  <1> DEFINE n == Len(es)
             r == Spliced(es, x, <<e>>)
             t == <<e>>
             G == GrownWalk(D, n, x, q)
             M(j) == IF j < x THEN j ELSE j + 1
  <1>1. n \in Nat /\ x \in 1 .. (n + 1) /\ q \in 0 .. (x - 1)
    BY DEF Gap
  <1>2. /\ Named(es) /\ Linked(es, D) /\ Walk(D, n)
        /\ \A i \in 1 .. n : D[i] \in Nat /\ D[i] < i
    BY DEF Tree, Walk
  <1>3. /\ r \in Seq(E) /\ Len(r) = n + 1
        /\ \A j \in 1 .. (x - 1) : r[j] = es[j]
        /\ r[x] = e
        /\ \A j \in x .. n : r[j + 1] = es[j]
    <2>1. t \in Seq(E) /\ Len(t) = 1 /\ t[1] = e
      OBVIOUS
    <2>m. t \in Seq(E) /\ x \in 1 .. (Len(es) + 1)
      BY <1>1, <2>1
    <2> HIDE DEF t, r, n, G
    <2>2. /\ Spliced(es, x, t) \in Seq(E) /\ Len(Spliced(es, x, t)) = Len(es) + Len(t)
          /\ \A j \in 1 .. (x - 1) : Spliced(es, x, t)[j] = es[j]
          /\ \A j \in 1 .. Len(t) : Spliced(es, x, t)[x - 1 + j] = t[j]
          /\ \A j \in x .. Len(es) : Spliced(es, x, t)[j + Len(t)] = es[j]
      BY SMTT(30), <2>m, SplicedIs DEF SplicedAs
    <2>3. Spliced(es, x, t) = r
      BY DEF t, r
    <2>4. 1 \in 1 .. Len(t) /\ x - 1 + 1 = x
      BY <1>1, <2>1
    <2>5. r[x - 1 + 1] = e
      BY <2>1, <2>2, <2>3, <2>4
    <2> QED
      BY <2>1, <2>2, <2>3, <2>4, <2>5 DEF n
  <1>4. /\ \A j \in 1 .. (x - 1) : G[j] = D[j]
        /\ G[x] = q
        /\ \A m \in x .. n : G[m + 1] = IF D[m] < x THEN D[m] ELSE D[m] + 1
        /\ \A j \in 1 .. (n + 1) : G[j] \in Nat /\ G[j] < j
    BY <1>1, <1>2, GrownWalkIs
  <1>5. Walk(G, n + 1)
    BY <1>1, <1>2, GrownWalks
  <1> HIDE DEF r, G, n
  <1>6. ASSUME NEW i \in 1 .. (n + 1), i # x
        PROVE  \E j \in 1 .. n : /\ i = M(j) /\ r[i] = es[j]
                                 /\ G[i] = M(D[j])
    <2>1. CASE i < x
      <3>1. i \in 1 .. n /\ i \in 1 .. (x - 1)
        BY <1>1, <2>1
      <3>2. D[i] < x /\ G[i] = D[i] /\ r[i] = es[i]
        BY <1>1, <1>2, <1>3, <1>4, <3>1
      <3> QED
        BY <2>1, <3>1, <3>2
    <2>2. CASE x < i
      <3> DEFINE j == i - 1
      <3>1. j \in 1 .. n /\ j \in x .. n /\ i = j + 1 /\ ~(j < x)
        BY <1>1, <2>2
      <3> HIDE DEF j
      <3>2. G[i] = M(D[j]) /\ r[i] = es[j]
        BY <1>3, <1>4, <3>1
      <3> QED
        BY <3>1, <3>2
    <2> QED
      BY <1>1, <1>6, <2>1, <2>2
  <1>7. ASSUME NEW j \in 1 .. n
        PROVE  M(j) \in 1 .. (n + 1) /\ M(j) # x /\ r[M(j)] = es[j]
    <2>1. CASE j < x
      BY <1>1, <1>3, <2>1
    <2>2. CASE ~(j < x)
      <3>1. j \in x .. n /\ M(j) = j + 1
        BY <1>1, <2>2
      <3> QED
        BY <1>1, <1>3, <3>1
    <2> QED
      BY <2>1, <2>2
  <1>8. Named(r)
    <2>1. ASSUME NEW i \in 1 .. (n + 1), NEW k \in 1 .. (n + 1), r[i].id = r[k].id
          PROVE  i = k
      <3>1. CASE i = x /\ k = x
        BY <3>1
      <3>2. CASE i = x /\ k # x
        BY <1>3, <1>6, <2>1, <3>2 DEF n
      <3>3. CASE i # x /\ k = x
        BY <1>3, <1>6, <2>1, <3>3 DEF n
      <3>4. CASE i # x /\ k # x
        <4>1. PICK j \in 1 .. n : i = M(j) /\ r[i] = es[j]
          BY <1>6, <3>4
        <4>2. PICK l \in 1 .. n : k = M(l) /\ r[k] = es[l]
          BY <1>6, <3>4
        <4>3. j = l
          BY <1>2, <2>1, <4>1, <4>2 DEF Named, n
        <4> QED
          BY <4>1, <4>2, <4>3
      <3> QED
        BY <3>1, <3>2, <3>3, <3>4
    <2>2. ASSUME NEW i \in 1 .. (n + 1)
          PROVE  r[i].id # TopLevel
      <3>1. CASE i = x
        BY <1>3, <3>1
      <3>2. CASE i # x
        <4>1. PICK j \in 1 .. n : i = M(j) /\ r[i] = es[j]
          BY <1>6, <3>2
        <4> QED
          BY <1>2, <4>1 DEF Named, n
      <3> QED
        BY <3>1, <3>2
    <2> QED
      BY <1>3, <2>1, <2>2 DEF Named
  <1>9. ASSUME NEW i \in 1 .. (n + 1)
        PROVE  /\ G[i] = 0 => r[i].parent = TopLevel
               /\ G[i] \in 1 .. (n + 1) => r[i].parent = r[G[i]].id
    <2>1. CASE i = x
      <3>1. CASE q = 0
        BY <1>1, <1>3, <1>4, <2>1, <3>1
      <3>2. CASE q # 0
        <4>1. q \in 1 .. (x - 1) /\ r[q] = es[q]
          BY <1>1, <1>3, <3>2
        <4> QED
          BY <1>1, <1>3, <1>4, <2>1, <3>2, <4>1
      <3> QED
        BY <3>1, <3>2
    <2>2. CASE i # x
      <3>1. PICK j \in 1 .. n : i = M(j) /\ r[i] = es[j] /\ G[i] = M(D[j])
        BY <1>6, <2>2
      <3>2. D[j] \in Nat /\ D[j] < j
        BY <1>2
      <3>3. CASE D[j] = 0
        <4>1. G[i] = 0 /\ es[j].parent = TopLevel
          BY <1>1, <1>2, <3>1, <3>3 DEF Linked, n
        <4> QED
          BY <1>1, <3>1, <4>1
      <3>4. CASE D[j] # 0
        <4>1. D[j] \in 1 .. n
          BY <1>1, <3>2, <3>4
        <4>2. es[j].parent = es[D[j]].id
          BY <1>2, <4>1 DEF Linked, n
        <4>3. r[M(D[j])] = es[D[j]] /\ M(D[j]) \in 1 .. (n + 1)
          BY <1>7, <4>1
        <4>4. M(D[j]) # 0
          BY <1>1, <4>3
        <4> QED
          BY <3>1, <4>2, <4>3, <4>4
      <3> QED
        BY <3>3, <3>4
    <2> QED
      BY <2>1, <2>2
  <1>10. Tree(r, G)
    BY <1>3, <1>5, <1>8, <1>9 DEF Tree, Linked
  <1> QED
    BY <1>3, <1>10 DEF r, G, n

\* A run of entries less, on which no other entry hangs.
KeptPlace(a, b, j) == IF j < a THEN j ELSE j + (b - a)

SubtreesApart(D, n, a, b) == \A j \in 1 .. n : j \notin a .. (b - 1) => D[j] \notin a .. (b - 1)

\* The walk that is left.
Remains(es, D, a, b, G) ==
    /\ Tree(Without(es, a, b), G)
    /\ \A j \in 1 .. (Len(es) - (b - a)) :
          /\ G[j] \in 0 .. (j - 1)
          /\ D[KeptPlace(a, b, j)] = IF G[j] = 0 THEN 0 ELSE KeptPlace(a, b, G[j])

\* A run on which nothing outside depends can be taken out.
LEMMA WithoutTree ==
    ASSUME NEW E, NEW es \in Seq(E), NEW D, Tree(es, D),
           NEW a \in 1 .. Len(es), NEW b \in (a + 1) .. (Len(es) + 1),
           SubtreesApart(D, Len(es), a, b)
    PROVE  /\ Without(es, a, b) \in Seq(E) /\ Len(Without(es, a, b)) = Len(es) - (b - a)
           /\ \A j \in 1 .. (Len(es) - (b - a)) :
                 Without(es, a, b)[j] = es[KeptPlace(a, b, j)]
           /\ \E G : Remains(es, D, a, b, G)
  <1> DEFINE n == Len(es)
             m == n - (b - a)
             r == Without(es, a, b)
             s == [j \in 0 .. m |-> IF j < a THEN j ELSE j + (b - a)]
             G == ThinnedWalk(D, m, s)
  <1>1. n \in Nat /\ a \in 1 .. n /\ b \in (a + 1) .. (n + 1) /\ m \in Nat
    OBVIOUS
  <1>2. Walk(D, n) /\ \A i \in 1 .. n : D[i] \in Nat /\ D[i] < i
    BY DEF Tree, Walk
  <1>3. /\ r \in Seq(E) /\ Len(r) = m
        /\ \A j \in 1 .. (a - 1) : r[j] = es[j]
        /\ \A j \in b .. n : r[j - (b - a)] = es[j]
    <2>1. a \in 1 .. (Len(es) + 1) /\ b \in a .. (Len(es) + 1)
      OBVIOUS
    <2> QED
      BY <2>1, WithoutIs
  <1>4. ASSUME NEW j \in 1 .. n, j \notin a .. (b - 1)
        PROVE  D[j] \notin a .. (b - 1)
    BY <1>4 DEF SubtreesApart
  <1> HIDE DEF r, m, n
  <1>5. \A j \in 0 .. m : s[j] = KeptPlace(a, b, j)
    BY DEF KeptPlace
  <1>6. /\ \A j \in 0 .. m : j < a => s[j] = j
        /\ \A j \in 0 .. m : a <= j => s[j] = j + (b - a)
    BY <1>1 DEF m
  <1>7. s \in [0 .. m -> 0 .. n] /\ s[0] = 0 /\ \A i, j \in 0 .. m : i < j => s[i] < s[j]
    <2>1. ASSUME NEW j \in 0 .. m
          PROVE  s[j] \in 0 .. n
      BY <1>1 DEF m
    <2>2. 0 \in 0 .. m /\ s[0] = 0
      BY <1>1, <1>6
    <2>3. ASSUME NEW i \in 0 .. m, NEW j \in 0 .. m, i < j
          PROVE  s[i] < s[j]
      <3>1. CASE j < a
        BY <1>1, <1>6, <2>3, <3>1
      <3>2. CASE a <= i
        BY <1>1, <1>6, <2>3, <3>2
      <3>3. CASE i < a /\ a <= j
        <4>1. s[i] = i /\ s[j] = j + (b - a)
          BY <1>6, <3>3
        <4> QED
          BY <1>1, <2>3, <4>1
      <3> QED
        BY <1>1, <2>3, <3>1, <3>2, <3>3
    <2> QED
      BY <2>1, <2>2, <2>3
  <1> HIDE DEF s
  <1>8. ASSUME NEW j \in 1 .. m
        PROVE  s[j] \in 1 .. n /\ s[j] \notin a .. (b - 1) /\ r[j] = es[s[j]]
    <2>1. CASE j < a
      BY <1>1, <1>3, <1>6, <2>1 DEF m
    <2>2. CASE a <= j
      <3> DEFINE k == j + (b - a)
      <3>1. k \in b .. n /\ j = k - (b - a) /\ s[j] = k /\ k \notin a .. (b - 1)
        BY <1>1, <1>6, <2>2 DEF m
      <3> HIDE DEF k
      <3>2. r[j] = es[k] /\ k \in 1 .. n
        BY <1>1, <1>3, <3>1
      <3> QED
        BY <3>1, <3>2
    <2> QED
      BY <1>1, <2>1, <2>2
  <1>9. ASSUME NEW i \in 0 .. n, i \notin a .. (b - 1)
        PROVE  \E k \in 0 .. m : s[k] = i
    <2>1. CASE i < a
      BY <1>1, <1>6, <2>1 DEF m
    <2>2. CASE ~(i < a)
      <3> DEFINE k == i - (b - a)
      <3>1. k \in 0 .. m /\ a <= k /\ k + (b - a) = i
        BY <1>1, <1>9, <2>2 DEF m
      <3> HIDE DEF k
      <3> QED
        BY <1>6, <3>1
    <2> QED
      BY <2>1, <2>2
  <1>10. Thinning(D, n, m, s)
    <2>1. ASSUME NEW j \in 1 .. m
          PROVE  \E k \in 0 .. m : s[k] = D[s[j]]
      <3> DEFINE k == s[j]
      <3>k. k \in 1 .. n /\ k \notin a .. (b - 1)
        BY <1>8
      <3> HIDE DEF k
      <3>l. D[k] \notin a .. (b - 1)
        BY <1>4, <3>k
      <3>m. D[k] \in 0 .. n
        BY <1>1, <1>2, <3>k
      <3>1. D[s[j]] \notin a .. (b - 1) /\ D[s[j]] \in 0 .. n
        BY <3>l, <3>m DEF k
      <3> QED
        BY <1>9, <3>1
    <2> QED
      BY <1>7, <2>1 DEF Thinning
  <1>11. Walk(G, m) /\ \A j \in 1 .. m : s[G[j]] = D[s[j]]
    BY <1>1, <1>2, <1>10, ThinnedWalks
  <1> HIDE DEF G
  <1>12. \A j \in 1 .. m : G[j] \in Nat /\ G[j] < j
    BY <1>11 DEF Walk
  <1>13. Tree(r, G)
    <2>1. ASSUME NEW i \in 1 .. m
          PROVE  /\ s[i] \in 1 .. n /\ r[i].id = es[s[i]].id
                 /\ \A k \in 1 .. m : s[i] = s[k] => i = k
                 /\ r[i].parent = es[s[i]].parent
                 /\ D[s[i]] = 0 => G[i] = 0
                 /\ D[s[i]] # 0 => G[i] \in 1 .. m /\ s[G[i]] = D[s[i]]
      <3>1. s[i] \in 1 .. n /\ r[i].id = es[s[i]].id /\ r[i].parent = es[s[i]].parent
        BY <1>8
      <3>2. ASSUME NEW k \in 1 .. m, s[i] = s[k]
            PROVE  i = k
        <4>1. i \in 0 .. m /\ k \in 0 .. m /\ s[i] \in 0 .. n
          BY <1>1, <1>7
        <4>2. ~(s[i] < s[k]) /\ ~(s[k] < s[i])
          BY <3>2, <4>1
        <4> QED
          BY <1>1, <1>7, <4>1, <4>2
      <3>3. G[i] \in 0 .. m /\ s[G[i]] = D[s[i]]
        BY <1>1, <1>11, <1>12
      <3>4. G[i] # 0 => s[0] < s[G[i]]
        BY <1>1, <1>7, <3>3
      <3>5. G[i] = 0 => s[G[i]] = 0
        BY <1>7
      <3> QED
        BY <1>1, <1>7, <3>1, <3>2, <3>3, <3>4, <3>5
    <2>2. Carried(es, D, r, G, s)
      BY <1>3, <2>1 DEF Carried, n
    <2>3. Len(es) \in Nat /\ Len(r) \in Nat /\ Walk(G, Len(r))
      BY <1>1, <1>3, <1>11 DEF n
    <2> QED
      BY <2>2, <2>3, CarriedTree
  <1>14. ASSUME NEW j \in 1 .. m
         PROVE  /\ G[j] \in 0 .. (j - 1)
                /\ D[KeptPlace(a, b, j)] = IF G[j] = 0 THEN 0 ELSE KeptPlace(a, b, G[j])
    <2>1. G[j] \in 0 .. (j - 1) /\ G[j] \in 0 .. m /\ j \in 0 .. m
      BY <1>1, <1>12
    <2>2. D[KeptPlace(a, b, j)] = s[G[j]] /\ s[G[j]] = KeptPlace(a, b, G[j])
      BY <1>5, <1>11, <2>1
    <2> QED
      BY <1>7, <2>1, <2>2
  <1>15. \A j \in 1 .. m : r[j] = es[KeptPlace(a, b, j)]
    BY <1>1, <1>5, <1>8
  <1> QED
    BY <1>3, <1>13, <1>14, <1>15 DEF Remains, r, m, n
-----------------------------------------------------------------------------
\* Two runs that changed places, the first one under the parent at g.
LEMMA TurnedTree ==
    ASSUME NEW es, Len(es) \in Nat, NEW D, Tree(es, D),
           NEW a, NEW b, NEW c, NEW g, Turnable(D, Len(es), a, b, c, g),
           NEW r, Len(r) = Len(es),
           \A j \in 1 .. Len(es) :
               LET o == Origin(a, b, c, j)
               IN  /\ r[j].id = es[o].id
                   /\ r[j].parent = IF o # a THEN es[o].parent
                                    ELSE IF g = 0 THEN TopLevel ELSE es[g].id
    PROVE  Tree(r, TurnedWalk(D, Len(es), a, b, c, g))
  <1> DEFINE n == Len(es)
             o == [j \in 1 .. n |-> Origin(a, b, c, j)]
             G == TurnedWalk(D, n, a, b, c, g)
  <1>1. /\ n \in Nat /\ a \in 1 .. n /\ b \in (a + 1) .. (n + 1) /\ c \in b .. (n + 1)
        /\ g \in 0 .. (a - 1)
    BY DEF Turnable
  <1>2. Walk(D, n) /\ \A i \in 1 .. n : D[i] \in Nat /\ D[i] < i
    BY DEF Tree, Walk
  <1>3. \A j \in 1 .. n : o[j] = Origin(a, b, c, j)
    OBVIOUS
  <1>4. /\ \A j \in 1 .. n : Origin(a, b, c, j) \in 1 .. n /\ Placed(a, b, c, Origin(a, b, c, j)) = j
        /\ \A k \in 1 .. n : Placed(a, b, c, k) \in 1 .. n /\ Origin(a, b, c, Placed(a, b, c, k)) = k
    <2> HIDE DEF n, o, G
    <2> QED
      BY ZenonT(40), <1>1, OriginPlaced
  <1>5. \A j \in 1 .. n : G[j] = IF Origin(a, b, c, j) = a THEN g
                                 ELSE Placed(a, b, c, D[Origin(a, b, c, j)])
    BY DEF TurnedWalk
  <1>6. ASSUME NEW j \in 1 .. n
        PROVE  /\ r[j].id = es[o[j]].id
               /\ r[j].parent = IF o[j] # a THEN es[o[j]].parent
                                ELSE IF g = 0 THEN TopLevel ELSE es[g].id
    BY <1>3
  <1>7. Walk(G, n)
    BY <1>1, <1>2, TurnedWalks
  <1>8. \A j \in 1 .. n : j < a => Origin(a, b, c, j) = j
    BY DEF Origin
  <1>9. Placed(a, b, c, 0) = 0
    BY <1>1 DEF Placed
  <1> HIDE DEF o, G, n
  <1>10. ASSUME NEW i \in 1 .. n
         PROVE  /\ o[i] \in 1 .. n /\ r[i].id = es[o[i]].id
                /\ \A k \in 1 .. n : o[i] = o[k] => i = k
                /\ \/ /\ r[i].parent = es[o[i]].parent
                      /\ D[o[i]] = 0 => G[i] = 0
                      /\ D[o[i]] # 0 => G[i] \in 1 .. n /\ o[G[i]] = D[o[i]]
                   \/ G[i] = 0 /\ r[i].parent = TopLevel
                   \/ G[i] \in 1 .. n /\ r[i].parent = r[G[i]].id
    <2>1. o[i] \in 1 .. n /\ r[i].id = es[o[i]].id /\ o[i] = Origin(a, b, c, i)
      BY <1>3, <1>4, <1>6
    <2>2. ASSUME NEW k \in 1 .. n, o[i] = o[k]
          PROVE  i = k
      <3>1. Origin(a, b, c, i) = Origin(a, b, c, k)
        BY <1>3, <2>2
      <3>2. Placed(a, b, c, Origin(a, b, c, i)) = i /\ Placed(a, b, c, Origin(a, b, c, k)) = k
        BY <1>4
      <3> QED
        BY <3>1, <3>2
    <2>3. CASE o[i] # a
      <3>1. r[i].parent = es[o[i]].parent /\ G[i] = Placed(a, b, c, D[o[i]])
        BY <1>5, <1>6, <2>1, <2>3
      <3>2. D[o[i]] \in Nat /\ D[o[i]] < o[i]
        BY <1>2, <2>1
      <3>3. D[o[i]] = 0 => G[i] = 0
        BY <1>9, <3>1
      <3>4. ASSUME D[o[i]] # 0
            PROVE  G[i] \in 1 .. n /\ o[G[i]] = D[o[i]]
        <4>1. D[o[i]] \in 1 .. n
          BY <1>1, <2>1, <3>2, <3>4
        <4>2. G[i] \in 1 .. n /\ Origin(a, b, c, G[i]) = D[o[i]]
          BY <1>4, <3>1, <4>1
        <4> QED
          BY <1>3, <4>2
      <3> QED
        BY <2>1, <2>2, <3>1, <3>3, <3>4
    <2>4. CASE o[i] = a
      <3>1. G[i] = g
        BY <1>5, <2>1, <2>4
      <3>2. CASE g = 0
        BY <1>6, <2>1, <2>2, <2>4, <3>1, <3>2
      <3>3. CASE g # 0
        <4>1. g \in 1 .. n /\ g < a
          BY <1>1, <3>3
        <4>2. o[g] = g
          BY <1>3, <1>8, <4>1
        <4>3. r[g].id = es[g].id /\ r[i].parent = es[g].id
          BY <1>6, <2>4, <3>3, <4>1, <4>2
        <4> QED
          BY <2>1, <2>2, <3>1, <4>1, <4>3
      <3> QED
        BY <3>2, <3>3
    <2> QED
      BY <2>3, <2>4
  <1>11. Carried(es, D, r, G, o)
    BY <1>10 DEF Carried, n
  <1>12. Len(r) \in Nat /\ Walk(G, Len(r))
    BY <1>1, <1>7 DEF n
  <1>13. Tree(r, G)
    BY <1>11, <1>12, CarriedTree
  <1> QED
    BY <1>13 DEF G, n
-----------------------------------------------------------------------------
\* What the entries of a Page are made of.
Entry(I, T, U) == [id : I, text : T, updated : U, parent : I \cup {TopLevel}]

\* An entry with another parent.
WithParent(e, p) == [e EXCEPT !.parent = p]

\* Only the parent differs, and giving the old one back restores the entry.
LEMMA WithParentIs ==
    ASSUME NEW I, NEW T, NEW U, NEW e \in Entry(I, T, U), NEW p \in I \cup {TopLevel}
    PROVE  /\ WithParent(e, p) \in Entry(I, T, U)
           /\ WithParent(e, p).id = e.id /\ WithParent(e, p).parent = p
           /\ WithParent(WithParent(e, p), e.parent) = e
  BY DEF Entry, WithParent

\* A Page's entries, in preorder.
Page(I, T, U, es) ==
    /\ TopLevel \notin I
    /\ es \in Seq(Entry(I, T, U))
    /\ \E D : Tree(es, D)

\* What the parent of an entry is.
LEMMA ParentIs ==
    ASSUME NEW es, NEW D, Tree(es, D), Len(es) \in Nat, NEW i \in 1 .. Len(es)
    PROVE  /\ D[i] \in 0 .. (i - 1)
           /\ es[i].parent = IF D[i] = 0 THEN TopLevel ELSE es[D[i]].id
  <1>1. D[i] \in Nat /\ D[i] < i
    BY DEF Tree, Walk
  <1>2. D[i] = 0 \/ D[i] \in 1 .. Len(es)
    BY <1>1
  <1> QED
    BY <1>1, <1>2 DEF Tree, Linked

\* The position of an identifier.
LEMMA PositionIs ==
    ASSUME NEW es, DOMAIN es = 1 .. Len(es), NEW id \in Ids(es)
    PROVE  PositionOf(es, id) \in 1 .. Len(es) /\ es[PositionOf(es, id)].id = id
  BY DEF PositionOf, Ids

\* An entry put after another one, or at the end of the Page.
LEMMA InsertedPage ==
    ASSUME NEW I, NEW T, NEW U, NEW es, Page(I, T, U, es),
           NEW after \in Ids(es) \cup {TopLevel}, NEW e \in Entry(I, T, U), e.id \notin Ids(es)
    PROVE  Page(I, T, U, Inserted(es, after, e)) /\ Len(Inserted(es, after, e)) = Len(es) + 1
  <1> DEFINE E == Entry(I, T, U)
             n == Len(es)
             p == InsertionPoint(es, after)
             f == [e EXCEPT !.parent = p.parent]
  <1>1. es \in Seq(E) /\ n \in Nat /\ DOMAIN es = 1 .. n /\ TopLevel \notin I
    BY DEF Page
  <1>2. PICK D : Tree(es, D)
    BY DEF Page
  <1>3. Walk(D, n) /\ Named(es)
    BY <1>2 DEF Tree
  <1>4. \E q : /\ Gap(D, n, p.at, q) /\ p.parent \in I \cup {TopLevel}
               /\ p.parent = IF q = 0 THEN TopLevel ELSE es[q].id
    <2>1. CASE after = TopLevel
      <3>1. p.at = n + 1 /\ p.parent = TopLevel
        BY <2>1 DEF InsertionPoint
      <3>2. Gap(D, n, n + 1, 0)
        BY <1>1, <1>3, LastGap
      <3> QED
        BY <3>1, <3>2
    <2>2. CASE after # TopLevel
      <3> DEFINE i == PositionOf(es, after)
      <3>1. p.at = SubtreeEnd(es, i) /\ p.parent = es[i].parent
        BY <2>2 DEF InsertionPoint
      <3>2. i \in 1 .. n
        BY <1>1, <2>2, PositionIs
      <3> HIDE DEF i
      <3>3. EndOf(D, n, i, SubtreeEnd(es, i))
        BY <1>1, <1>2, <3>2, SubtreeEndIs
      <3>4. Gap(D, n, SubtreeEnd(es, i), D[i])
        BY <1>1, <1>3, <3>2, <3>3, SiblingGap
      <3>5. es[i].parent = IF D[i] = 0 THEN TopLevel ELSE es[D[i]].id
        BY <1>1, <1>2, <3>2, ParentIs
      <3>6. es[i].parent \in I \cup {TopLevel}
        <4>1. es[i] \in E
          BY <1>1, <3>2
        <4> QED
          BY <4>1 DEF Entry
      <3> QED
        BY <3>1, <3>4, <3>5, <3>6
    <2> QED
      BY <2>1, <2>2
  <1> HIDE DEF p
  <1>5. PICK q : /\ Gap(D, n, p.at, q) /\ p.parent \in I \cup {TopLevel}
                 /\ p.parent = IF q = 0 THEN TopLevel ELSE es[q].id
    BY <1>4
  <1>6. f \in E /\ f.id = e.id /\ f.parent = p.parent /\ e.id \in I
    BY <1>5 DEF Entry
  <1>7. Inserted(es, after, e) = Spliced(es, p.at, <<f>>)
    BY DEF Inserted, p
  <1>8. f.id # TopLevel /\ \A i \in 1 .. Len(es) : es[i].id # f.id
    BY <1>1, <1>6 DEF Ids
  <1> HIDE DEF f, E
  <1>9. f.parent = IF q = 0 THEN TopLevel ELSE es[q].id
    BY <1>5, <1>6
  <1>10. /\ Spliced(es, p.at, <<f>>) \in Seq(E) /\ Len(Spliced(es, p.at, <<f>>)) = n + 1
         /\ Tree(Spliced(es, p.at, <<f>>), GrownWalk(D, n, p.at, q))
    BY <1>1, <1>2, <1>5, <1>6, <1>8, <1>9, SplicedTree
  <1> QED
    BY <1>1, <1>7, <1>10 DEF Page, E

\* A stamped entry changes its text and time only.
LEMMA StampedPage ==
    ASSUME NEW I, NEW T, NEW U, NEW es, Page(I, T, U, es), NEW id, NEW text \in T, NEW now \in U
    PROVE  LET r == Stamped(es, id, text, now)
           IN  /\ r \in Seq(Entry(I, T, U)) /\ Len(r) = Len(es)
               /\ \A j \in 1 .. Len(es) : r[j].id = es[j].id /\ r[j].parent = es[j].parent
               /\ \A D : Tree(es, D) => Tree(r, D)
  <1> DEFINE E == Entry(I, T, U)
             n == Len(es)
             r == Stamped(es, id, text, now)
  <1>1. es \in Seq(E) /\ n \in Nat /\ DOMAIN es = 1 .. n /\ \A j \in 1 .. n : es[j] \in E
    BY DEF Page
  <1>2. r = [j \in 1 .. n |-> IF es[j].id = id THEN [es[j] EXCEPT !.text = text, !.updated = now]
                              ELSE es[j]]
    BY <1>1 DEF Stamped
  <1> HIDE DEF r
  <1>3. ASSUME NEW j \in 1 .. n
        PROVE  r[j] \in E /\ r[j].id = es[j].id /\ r[j].parent = es[j].parent
    <2>1. es[j] \in E /\ r[j] = IF es[j].id = id THEN [es[j] EXCEPT !.text = text, !.updated = now]
                                ELSE es[j]
      BY <1>1, <1>2
    <2> QED
      BY <2>1 DEF Entry
  <1> HIDE DEF E
  <1>4. r \in Seq(E) /\ Len(r) = n
    <2>1. r \in [1 .. n -> E] /\ DOMAIN r = 1 .. n
      BY <1>2, <1>3
    <2>2. r \in Seq(E)
      BY <1>1, <2>1, SeqDef
    <2> QED
      BY <1>1, <2>1, <2>2, LenProperties
  <1>5. ASSUME NEW D, Tree(es, D)
        PROVE  Tree(r, D)
    BY <1>1, <1>3, <1>4, <1>5, SameTree
  <1> QED
    BY <1>3, <1>4, <1>5 DEF E, r

\* An entry cut in two.
LEMMA SplitPage ==
    ASSUME NEW I, NEW T, NEW U, NEW es, Page(I, T, U, es), NEW i \in 1 .. Len(es),
           NEW text, NEW cut, SubSeq(text, 1, cut) \in T, SubSeq(text, cut + 1, Len(text)) \in T,
           NEW new \in I \ Ids(es), NEW now \in U
    PROVE  LET r == Split(es, i, text, cut, new, now)
           IN  Page(I, T, U, r) /\ Len(r) = Len(es) + 1
  <1> DEFINE E == Entry(I, T, U)
             n == Len(es)
             kept == Stamped(es, es[i].id, SubSeq(text, 1, cut), now)
             rest == [id |-> new, text |-> SubSeq(text, cut + 1, Len(text)),
                      updated |-> now, parent |-> es[i].parent]
             x == SubtreeEnd(es, i)
  <1>1. es \in Seq(E) /\ n \in Nat /\ DOMAIN es = 1 .. n /\ TopLevel \notin I
    BY DEF Page
  <1>2. PICK D : Tree(es, D)
    BY DEF Page
  <1>3. Split(es, i, text, cut, new, now) = Spliced(kept, x, <<rest>>)
    BY DEF Split
  <1>4. es[i].parent \in I \cup {TopLevel}
    <2>1. es[i] \in E
      BY <1>1
    <2> QED
      BY <2>1 DEF Entry
  <1>5. rest \in E /\ rest.id = new /\ rest.parent = es[i].parent
    BY <1>4 DEF Entry
  <1>6. /\ kept \in Seq(E) /\ Len(kept) = n /\ Tree(kept, D)
        /\ \A j \in 1 .. n : kept[j].id = es[j].id
    <2> DEFINE id == es[i].id
               t == SubSeq(text, 1, cut)
               s == Stamped(es, id, t, now)
    <2>1. t \in T
      OBVIOUS
    <2> HIDE DEF id, t
    <2>2. /\ s \in Seq(Entry(I, T, U)) /\ Len(s) = Len(es)
          /\ \A j \in 1 .. Len(es) : s[j].id = es[j].id /\ s[j].parent = es[j].parent
          /\ \A F : Tree(es, F) => Tree(s, F)
      BY <2>1, StampedPage
    <2>3. kept = s
      BY DEF id, t
    <2> QED
      BY <1>2, <2>2, <2>3
  <1>7. /\ rest.id # TopLevel
        /\ \A j \in 1 .. Len(kept) : kept[j].id # rest.id
    BY <1>1, <1>5, <1>6 DEF Ids
  <1> HIDE DEF kept, rest, E
  <1>8. EndOf(D, n, i, x)
    BY <1>1, <1>2, SubtreeEndIs
  <1>9. Gap(D, n, x, D[i])
    <2>1. Walk(D, n)
      BY <1>2 DEF Tree
    <2> QED
      BY <1>1, <1>8, <2>1, SiblingGap
  <1>10. rest.parent = IF D[i] = 0 THEN TopLevel ELSE kept[D[i]].id
    <2>1. /\ D[i] \in 0 .. (i - 1)
          /\ es[i].parent = IF D[i] = 0 THEN TopLevel ELSE es[D[i]].id
      BY <1>1, <1>2, ParentIs
    <2>2. D[i] # 0 => D[i] \in 1 .. n
      BY <1>1, <2>1
    <2> QED
      BY <1>5, <1>6, <2>1, <2>2
  <1> HIDE DEF x
  <1>11. Gap(D, Len(kept), x, D[i])
    BY <1>6, <1>9
  <1>12. /\ Spliced(kept, x, <<rest>>) \in Seq(E) /\ Len(Spliced(kept, x, <<rest>>)) = Len(kept) + 1
         /\ Tree(Spliced(kept, x, <<rest>>), GrownWalk(D, Len(kept), x, D[i]))
    BY <1>5, <1>6, <1>7, <1>10, <1>11, SplicedTree
  <1> QED
    BY <1>1, <1>3, <1>6, <1>12 DEF Page, E
-----------------------------------------------------------------------------
\* The Page's entries and the walk they are.
LEMMA PageIs ==
    ASSUME NEW I, NEW T, NEW U, NEW es, Page(I, T, U, es)
    PROVE  /\ TopLevel \notin I /\ es \in Seq(Entry(I, T, U)) /\ Len(es) \in Nat
           /\ DOMAIN es = 1 .. Len(es)
           /\ \A i \in 1 .. Len(es) : /\ es[i] \in Entry(I, T, U)
                                      /\ es[i].id \in I
                                      /\ es[i].parent \in I \cup {TopLevel}
  <1>1. TopLevel \notin I /\ es \in Seq(Entry(I, T, U))
    BY DEF Page
  <1>2. \A i \in 1 .. Len(es) : es[i] \in Entry(I, T, U)
    BY <1>1
  <1>3. Len(es) \in Nat /\ DOMAIN es = 1 .. Len(es)
    BY <1>1
  <1> QED
    BY <1>1, <1>2, <1>3 DEF Entry

\* An entry no other hangs on leaves.
LEMMA ErasedPage ==
    ASSUME NEW I, NEW T, NEW U, NEW es, Page(I, T, U, es), NEW i \in 1 .. Len(es), CanErase(es, i)
    PROVE  Page(I, T, U, Erased(es, i)) /\ Len(Erased(es, i)) = Len(es) - 1
  <1> DEFINE E == Entry(I, T, U)
             n == Len(es)
             b == i + 1
  <1>1. TopLevel \notin I /\ es \in Seq(E) /\ n \in Nat /\ DOMAIN es = 1 .. n
    BY PageIs
  <1>2. PICK D : Tree(es, D)
    BY DEF Page
  <1>3. \A j \in 1 .. n : es[j].parent # es[i].id
    BY <1>1 DEF CanErase, HasChildren
  <1>4. ASSUME NEW j \in 1 .. n
        PROVE  D[j] # i
    <2>1. es[j].parent = IF D[j] = 0 THEN TopLevel ELSE es[D[j]].id
      BY <1>1, <1>2, ParentIs
    <2> QED
      BY <1>1, <1>3, <2>1
  <1>5. \A j \in 1 .. n : D[j] \in Nat
    BY <1>2 DEF Tree, Walk
  <1>6. SubtreesApart(D, n, i, b)
    BY <1>4, <1>5 DEF SubtreesApart
  <1>7. b \in (i + 1) .. (Len(es) + 1) /\ b - i = 1
    BY <1>1
  <1> HIDE DEF b, E
  <1>8. /\ Without(es, i, b) \in Seq(E) /\ Len(Without(es, i, b)) = Len(es) - (b - i)
        /\ \E G : Tree(Without(es, i, b), G)
    <2>1. es \in Seq(E) /\ b \in (i + 1) .. (Len(es) + 1) /\ SubtreesApart(D, Len(es), i, b)
      BY <1>1, <1>6, <1>7
    <2> HIDE DEF n
    <2>2. /\ Without(es, i, b) \in Seq(E) /\ Len(Without(es, i, b)) = Len(es) - (b - i)
          /\ \E G : Remains(es, D, i, b, G)
      BY <1>2, <2>1, WithoutTree
    <2> QED
      BY <2>2 DEF Remains
  <1>9. Erased(es, i) = Without(es, i, b)
    BY DEF Erased, b
  <1> QED
    BY <1>1, <1>7, <1>8, <1>9 DEF Page, E

\* So does one whose text goes to the entry before it.
LEMMA JoinedPage ==
    ASSUME NEW I, NEW T, NEW U, NEW es, Page(I, T, U, es), NEW i \in 1 .. Len(es), CanJoin(es, i),
           NEW text, es[i - 1].text \o text \in T, NEW now \in U
    PROVE  LET r == Joined(es, i, text, now)
           IN  Page(I, T, U, r) /\ Len(r) = Len(es) - 1
  <1> DEFINE id == es[i - 1].id
             t == es[i - 1].text \o text
             s == Stamped(es, id, t, now)
  <1>1. t \in T
    OBVIOUS
  <1>2. Joined(es, i, text, now) = Erased(s, i)
    BY DEF Joined, Erased
  <1>3. /\ TopLevel \notin I /\ Len(es) \in Nat /\ DOMAIN es = 1 .. Len(es)
        /\ \A j \in 1 .. Len(es) : es[j].parent # es[i].id
    <2>1. DOMAIN es = 1 .. Len(es) /\ TopLevel \notin I /\ Len(es) \in Nat
      BY PageIs
    <2> QED
      BY <2>1 DEF CanJoin, HasChildren
  <1> HIDE DEF id, t, s
  <1>4. /\ s \in Seq(Entry(I, T, U)) /\ Len(s) = Len(es)
        /\ \A j \in 1 .. Len(es) : s[j].id = es[j].id /\ s[j].parent = es[j].parent
        /\ \A D : Tree(es, D) => Tree(s, D)
    BY <1>1, StampedPage DEF s
  <1>5. Page(I, T, U, s)
    BY <1>3, <1>4 DEF Page
  <1>6. i \in 1 .. Len(s) /\ DOMAIN s = 1 .. Len(s)
    BY <1>4
  <1>7. CanErase(s, i)
    BY <1>3, <1>4, <1>6 DEF CanErase, HasChildren
  <1>8. Page(I, T, U, Erased(s, i)) /\ Len(Erased(s, i)) = Len(s) - 1
    BY <1>5, <1>6, <1>7, ErasedPage
  <1> QED
    BY <1>2, <1>4, <1>8

\* A set of numbers below a bound has a greatest one.
LEMMA MaxIs ==
    ASSUME NEW b \in Nat, NEW S \in SUBSET (1 .. b), S # {}
    PROVE  Max(S) \in S /\ \A y \in S : y <= Max(S)
  <1>1. PICK x \in S : \A y \in S : y <= x
    BY GreatestNumber
  <1>2. Max(S) \in S /\ \A y \in S : Max(S) >= y
    BY <1>1 DEF Max
  <1> QED
    BY <1>2

\* Entries name the same parent exactly when they have the same one.
LEMMA SameParent ==
    ASSUME NEW es, Len(es) \in Nat, NEW D, Tree(es, D),
           NEW i \in 1 .. Len(es), NEW k \in 1 .. Len(es)
    PROVE  es[k].parent = es[i].parent <=> D[k] = D[i]
  <1> DEFINE n == Len(es)
  <1>1. ASSUME NEW j \in 1 .. n
        PROVE  /\ D[j] \in 0 .. (j - 1) /\ (D[j] # 0 => D[j] \in 1 .. n)
               /\ D[j] = 0 => es[j].parent = TopLevel
               /\ D[j] # 0 => es[j].parent = es[D[j]].id /\ es[j].parent # TopLevel
    <2>1. D[j] \in 0 .. (j - 1) /\ es[j].parent = IF D[j] = 0 THEN TopLevel ELSE es[D[j]].id
      BY ParentIs
    <2>2. D[j] # 0 => D[j] \in 1 .. n
      BY <2>1
    <2>3. D[j] # 0 => es[D[j]].id # TopLevel
      BY <2>2 DEF Tree, Named
    <2> QED
      BY <2>1, <2>2, <2>3
  <1>2. ASSUME D[i] # 0, D[k] # 0, es[k].parent = es[i].parent
        PROVE  D[k] = D[i]
    <2>1. es[D[k]].id = es[D[i]].id /\ D[k] \in 1 .. n /\ D[i] \in 1 .. n
      BY <1>1, <1>2
    <2> QED
      BY <2>1 DEF Tree, Named
  <1> QED
    BY <1>1, <1>2

\* The nearest of the earlier siblings.
LEMMA PreviousIs ==
    ASSUME NEW es, Len(es) \in Nat, NEW D, Tree(es, D), NEW i \in 1 .. Len(es),
           EarlierSiblings(es, i) # {}
    PROVE  PreviousSibling(D, i, Max(EarlierSiblings(es, i)))
  <1> DEFINE S == EarlierSiblings(es, i)
             n == Len(es)
  <1>1. ASSUME NEW k \in 1 .. (i - 1)
        PROVE  k \in S <=> D[k] = D[i]
    <2>1. k \in 1 .. n
      OBVIOUS
    <2>2. k \in S <=> es[k].parent = es[i].parent
      BY DEF EarlierSiblings
    <2> QED
      BY <2>1, <2>2, SameParent
  <1>2. S \in SUBSET (1 .. (i - 1)) /\ i - 1 \in Nat
    BY DEF EarlierSiblings
  <1> DEFINE b == i - 1
             k == Max(S)
  <1>3. b \in Nat /\ S \in SUBSET (1 .. b) /\ S # {}
    BY <1>2
  <1> HIDE DEF S, b
  <1>4. k \in S /\ \A y \in S : y <= k
    BY <1>3, MaxIs
  <1> HIDE DEF k
  <1>5. k \in 1 .. (i - 1) /\ D[k] = D[i]
    BY <1>1, <1>2, <1>4
  <1>6. ASSUME NEW j \in (k + 1) .. (i - 1)
        PROVE  D[j] # D[i]
    <2>1. j \in 1 .. (i - 1) /\ ~(j <= k)
      BY <1>5
    <2> QED
      BY <1>1, <1>4, <2>1
  <1>7. PreviousSibling(D, i, k)
    BY <1>5, <1>6 DEF PreviousSibling
  <1> QED
    BY <1>7 DEF k, S

\* An entry under its previous sibling.
IndentedAs(E, es, i, k, r) ==
    /\ r \in Seq(E) /\ Len(r) = Len(es)
    /\ \A j \in 1 .. Len(es) : j # i => r[j] = es[j]
    /\ r[i] = WithParent(es[i], es[k].id)

\* The entries and the walk they are then.
LEMMA IndentedTree ==
    ASSUME NEW I, NEW T, NEW U, NEW es, Page(I, T, U, es), NEW D, Tree(es, D),
           NEW i \in 1 .. Len(es), NEW k, PreviousSibling(D, i, k)
    PROVE  LET r == [es EXCEPT ![i].parent = es[k].id]
           IN  IndentedAs(Entry(I, T, U), es, i, k, r) /\ Tree(r, [D EXCEPT ![i] = k])
  <1> DEFINE E == Entry(I, T, U)
             n == Len(es)
             r == [es EXCEPT ![i].parent = es[k].id]
  <1>1. /\ TopLevel \notin I /\ es \in Seq(E) /\ n \in Nat /\ DOMAIN es = 1 .. n
        /\ \A j \in 1 .. n : es[j] \in E /\ es[j].id \in I
    BY PageIs
  <1>5. k \in 1 .. (i - 1) /\ k \in 1 .. n
    BY <1>1 DEF PreviousSibling
  <1>6. /\ \A j \in 1 .. n : j # i => r[j] = es[j]
        /\ r[i] = WithParent(es[i], es[k].id)
        /\ r \in Seq(E) /\ Len(r) = n
    <2>1. DOMAIN r = 1 .. n /\ \A j \in 1 .. n : j # i => r[j] = es[j]
      BY <1>1
    <2>2. r[i] = WithParent(es[i], es[k].id)
      BY <1>1 DEF WithParent
    <2>3. WithParent(es[i], es[k].id) \in E
      BY <1>1, <1>5, WithParentIs
    <2>4. r = [j \in 1 .. n |-> r[j]] /\ \A j \in 1 .. n : r[j] \in E
      BY <1>1, <2>1, <2>2, <2>3
    <2> HIDE DEF r, E
    <2>5. r \in [1 .. n -> E]
      BY <2>4
    <2>6. r \in Seq(E)
      BY <1>1, <2>5, SeqDef
    <2> QED
      BY <1>1, <2>1, <2>2, <2>6, LenProperties
  <1>7. r[i].id = es[i].id /\ r[i].parent = es[k].id
    BY <1>1, <1>5, <1>6, WithParentIs
  <1> HIDE DEF r
  <1> DEFINE G == [D EXCEPT ![i] = k]
             o == [j \in 1 .. n |-> j]
  <1>8. Walk(D, n) /\ D \in [1 .. n -> Nat]
    BY DEF Tree, Walk
  <1>9. Walk(G, n)
    BY <1>1, <1>8, IndentedWalks
  <1>10. G[i] = k /\ \A j \in 1 .. n : j # i => G[j] = D[j]
    BY <1>8
  <1>11. \A j \in 1 .. n : o[j] = j
    OBVIOUS
  <1> HIDE DEF G, o
  <1>12. ASSUME NEW j \in 1 .. n
         PROVE  /\ o[j] \in 1 .. n /\ r[j].id = es[o[j]].id
                /\ \A l \in 1 .. n : o[j] = o[l] => j = l
                /\ \/ /\ r[j].parent = es[o[j]].parent
                      /\ D[o[j]] = 0 => G[j] = 0
                      /\ D[o[j]] # 0 => G[j] \in 1 .. n /\ o[G[j]] = D[o[j]]
                   \/ G[j] = 0 /\ r[j].parent = TopLevel
                   \/ G[j] \in 1 .. n /\ r[j].parent = r[G[j]].id
    <2>1. o[j] = j /\ \A l \in 1 .. n : o[l] = l
      BY <1>11
    <2>2. CASE j = i
      <3>1. r[k] = es[k]
        BY <1>1, <1>5, <1>6
      <3> QED
        BY <1>5, <1>7, <1>10, <2>1, <2>2, <3>1
    <2>3. CASE j # i
      <3>1. D[j] \in 0 .. (j - 1) /\ G[j] = D[j] /\ r[j] = es[j]
        BY <1>1, <1>6, <1>10, <2>3, ParentIs
      <3>2. D[j] # 0 => D[j] \in 1 .. n
        BY <1>1, <3>1
      <3> QED
        BY <2>1, <3>1, <3>2
    <2> QED
      BY <2>2, <2>3
  <1>13. Carried(es, D, r, G, o)
    BY <1>6, <1>12 DEF Carried
  <1>14. Tree(r, G)
    BY <1>1, <1>6, <1>9, <1>13, CarriedTree
  <1> QED
    BY <1>6, <1>14 DEF IndentedAs, r, G

\* An indented entry leaves a Page.
LEMMA IndentedPage ==
    ASSUME NEW I, NEW T, NEW U, NEW es, Page(I, T, U, es), NEW i \in 1 .. Len(es), CanIndent(es, i)
    PROVE  Page(I, T, U, Indented(es, i)) /\ Len(Indented(es, i)) = Len(es)
  <1> DEFINE k == Max(EarlierSiblings(es, i))
             r == [es EXCEPT ![i].parent = es[k].id]
  <1>1. TopLevel \notin I /\ Len(es) \in Nat
    BY PageIs
  <1>2. PICK D : Tree(es, D)
    BY DEF Page
  <1>3. PreviousSibling(D, i, k)
    BY <1>1, <1>2, PreviousIs DEF CanIndent
  <1>4. r = Indented(es, i)
    BY DEF Indented
  <1> HIDE DEF k
  <1>5. IndentedAs(Entry(I, T, U), es, i, k, r) /\ Tree(r, [D EXCEPT ![i] = k])
    BY <1>2, <1>3, IndentedTree
  <1> HIDE DEF r
  <1> QED
    BY <1>1, <1>4, <1>5 DEF Page, IndentedAs
-----------------------------------------------------------------------------
\* Runs of entries that changed places.
LEMMA RotatedTree ==
    ASSUME NEW I, NEW T, NEW U, NEW es, Page(I, T, U, es), NEW D, Tree(es, D),
           NEW a, NEW b, NEW c, Turnable(D, Len(es), a, b, c, D[a])
    PROVE  /\ Rotated(es, a, b, c) \in Seq(Entry(I, T, U)) /\ Len(Rotated(es, a, b, c)) = Len(es)
           /\ \A j \in 1 .. Len(es) : Rotated(es, a, b, c)[j] = es[Origin(a, b, c, j)]
           /\ Tree(Rotated(es, a, b, c), TurnedWalk(D, Len(es), a, b, c, D[a]))
  <1> DEFINE E == Entry(I, T, U)
             n == Len(es)
             g == D[a]
             r == Rotated(es, a, b, c)
  <1>1. TopLevel \notin I /\ es \in Seq(E) /\ n \in Nat
    BY PageIs
  <1>2. a \in 1 .. n /\ b \in (a + 1) .. (n + 1) /\ c \in b .. (n + 1)
    BY DEF Turnable
  <1> HIDE DEF E
  <1>3. r \in Seq(E) /\ Len(r) = n /\ \A j \in 1 .. n : r[j] = es[Origin(a, b, c, j)]
    BY <1>1, <1>2, RotatedIs
  <1>4. es[a].parent = IF g = 0 THEN TopLevel ELSE es[g].id
    BY <1>1, <1>2, ParentIs
  <1>5. Turnable(D, n, a, b, c, g)
    OBVIOUS
  <1> HIDE DEF r, g
  <1>6. \A j \in 1 .. Len(es) :
            LET o == Origin(a, b, c, j)
            IN  /\ r[j].id = es[o].id
                /\ r[j].parent = IF o # a THEN es[o].parent
                                 ELSE IF g = 0 THEN TopLevel ELSE es[g].id
    BY <1>3, <1>4
  <1>7. Tree(r, TurnedWalk(D, Len(es), a, b, c, g))
    BY <1>1, <1>3, <1>5, <1>6, TurnedTree
  <1> QED
    BY <1>3, <1>7 DEF E, r, g

\* Two runs that change places as siblings leave a Page.
LEMMA RotatedPage ==
    ASSUME NEW I, NEW T, NEW U, NEW es, Page(I, T, U, es), NEW D, Tree(es, D),
           NEW a, NEW b, NEW c, Turnable(D, Len(es), a, b, c, D[a])
    PROVE  Page(I, T, U, Rotated(es, a, b, c)) /\ Len(Rotated(es, a, b, c)) = Len(es)
  BY RotatedTree, PageIs DEF Page

\* Two neighbouring siblings that changed places.
LEMMA MovedUpPage ==
    ASSUME NEW I, NEW T, NEW U, NEW es, Page(I, T, U, es), NEW i \in 1 .. Len(es), CanMoveUp(es, i)
    PROVE  Page(I, T, U, MovedUp(es, i)) /\ Len(MovedUp(es, i)) = Len(es)
  <1> DEFINE n == Len(es)
             k == Max(EarlierSiblings(es, i))
             e == SubtreeEnd(es, i)
  <1>1. n \in Nat
    BY PageIs
  <1>2. PICK D : Tree(es, D)
    BY DEF Page
  <1>3. Walk(D, n)
    BY <1>2 DEF Tree
  <1>4. PreviousSibling(D, i, k)
    BY <1>1, <1>2, PreviousIs DEF CanMoveUp
  <1>5. EndOf(D, n, i, e)
    BY <1>1, <1>2, SubtreeEndIs
  <1>6. Turnable(D, n, k, i, e, D[k])
    BY <1>1, <1>3, <1>4, <1>5, SwapTurns
  <1>7. MovedUp(es, i) = Rotated(es, k, i, e)
    BY DEF MovedUp
  <1> HIDE DEF k, e
  <1> QED
    BY <1>2, <1>6, <1>7, RotatedPage

\* The entry after a subtree is the root's next sibling if it has its parent.
LEMMA NextSibling ==
    ASSUME NEW es, Len(es) \in Nat, NEW D, Tree(es, D), NEW i \in 1 .. Len(es),
           NEW e, EndOf(D, Len(es), i, e), e <= Len(es), es[e].parent = es[i].parent
    PROVE  e \in 1 .. Len(es) /\ PreviousSibling(D, e, i)
  <1> DEFINE n == Len(es)
  <1>1. e \in (i + 1) .. (n + 1) /\ (\A j \in (i + 1) .. (e - 1) : i <= D[j]) /\ D[e] < i
    BY DEF EndOf
  <1>2. e \in 1 .. n
    BY <1>1
  <1>3. D[e] \in 0 .. (e - 1) /\ D[i] \in 0 .. (i - 1)
    BY <1>2, ParentIs
  <1>5. D[e] = D[i]
    BY <1>2, SameParent
  <1>6. \A j \in (i + 1) .. (e - 1) : D[j] # D[e]
    BY <1>1, <1>3
  <1> QED
    BY <1>1, <1>2, <1>5, <1>6 DEF PreviousSibling

\* An entry moved down leaves a Page.
LEMMA MovedDownPage ==
    ASSUME NEW I, NEW T, NEW U, NEW es, Page(I, T, U, es), NEW i \in 1 .. Len(es), CanMoveDown(es, i)
    PROVE  Page(I, T, U, MovedDown(es, i)) /\ Len(MovedDown(es, i)) = Len(es)
  <1> DEFINE n == Len(es)
             e == SubtreeEnd(es, i)
             y == SubtreeEnd(es, e)
  <1>1. n \in Nat
    BY PageIs
  <1>2. PICK D : Tree(es, D)
    BY DEF Page
  <1>3. Walk(D, n)
    BY <1>2 DEF Tree
  <1>4. e <= Len(es) /\ es[e].parent = es[i].parent
    BY DEF CanMoveDown
  <1>5. EndOf(D, n, i, e)
    BY <1>1, <1>2, SubtreeEndIs
  <1>7. MovedDown(es, i) = Rotated(es, i, e, y)
    BY DEF MovedDown
  <1> HIDE DEF e
  <1>8. e \in 1 .. n /\ PreviousSibling(D, e, i)
    BY <1>1, <1>2, <1>4, <1>5, NextSibling
  <1>9. EndOf(D, n, e, y)
    BY <1>1, <1>2, <1>8, SubtreeEndIs
  <1> HIDE DEF y
  <1>10. Turnable(D, n, i, e, y, D[i])
    BY <1>1, <1>3, <1>8, <1>9, SwapTurns
  <1> QED
    BY <1>2, <1>7, <1>10, RotatedPage

\* Without a subtree, that of an entry around it ends so much earlier.
LEMMA EndWithout ==
    ASSUME NEW es, Len(es) \in Nat, NEW D, Tree(es, D), NEW i \in 1 .. Len(es),
           NEW e, EndOf(D, Len(es), i, e), D[i] # 0, NEW y, EndOf(D, Len(es), D[i], y), e <= y,
           NEW G, Remains(es, D, i, e, G)
    PROVE  EndOf(G, Len(es) - (e - i), D[i], y - (e - i))
  <1> DEFINE n == Len(es)
             d == e - i
             p == D[i]
  <1>1. /\ n \in Nat /\ d \in Nat /\ d >= 1 /\ e = i + d /\ e \in (i + 1) .. (n + 1)
        /\ p \in 1 .. (i - 1)
        /\ y \in e .. (n + 1)
        /\ \A j \in (p + 1) .. (y - 1) : p <= D[j]
        /\ y <= n => D[y] < p
    <2>1. p \in 1 .. (i - 1)
      BY ParentIs
    <2> QED
      BY <2>1 DEF EndOf
  <1>2. \A j \in 1 .. n : D[j] \in 0 .. (j - 1)
    BY ParentIs
  <1>3. \A j \in 1 .. (n - d) :
            /\ G[j] \in 0 .. (j - 1)
            /\ D[KeptPlace(i, e, j)] = IF G[j] = 0 THEN 0 ELSE KeptPlace(i, e, G[j])
    BY DEF Remains
  <1> HIDE DEF d, p
  <1>4. /\ \A j \in 1 .. (n - d) : j < i => KeptPlace(i, e, j) = j
        /\ \A j \in 1 .. (n - d) : i <= j => KeptPlace(i, e, j) = j + d
    BY <1>1 DEF KeptPlace
  <1>5. ASSUME NEW j \in (p + 1) .. (y - d - 1)
        PROVE  p <= G[j]
    <2>1. j \in 1 .. (n - d)
      BY <1>1
    <2>2. G[j] \in 0 .. (j - 1)
      BY <1>3, <2>1
    <2> DEFINE k == KeptPlace(i, e, j)
    <2>3. k \in (p + 1) .. (y - 1)
      BY <1>1, <1>4, <2>1
    <2>4. D[k] = IF G[j] = 0 THEN 0 ELSE KeptPlace(i, e, G[j])
      BY <1>3, <2>1
    <2> HIDE DEF k
    <2>5. p <= D[k]
      BY <1>1, <2>3
    <2>6. G[j] # 0
      BY <1>1, <2>4, <2>5
    <2>7. G[j] \in 1 .. (n - d)
      BY <2>1, <2>2, <2>6, <1>1
    <2>8. CASE G[j] < i
      BY <1>4, <2>4, <2>5, <2>6, <2>7, <2>8
    <2>9. CASE i <= G[j]
      BY <1>1, <2>9, <2>2
    <2> QED
      BY <1>1, <2>2, <2>8, <2>9
  <1>6. ASSUME y - d <= n - d
        PROVE  G[y - d] < p
    <2> DEFINE j == y - d
    <2>1. j \in 1 .. (n - d) /\ i <= j /\ j + d = y /\ y <= n
      BY <1>1, <1>6
    <2> HIDE DEF j
    <2>2. G[j] \in 0 .. (j - 1)
      BY <1>3, <2>1
    <2>3. KeptPlace(i, e, j) = y
      BY <1>4, <2>1
    <2>4. D[y] = IF G[j] = 0 THEN 0 ELSE KeptPlace(i, e, G[j])
      BY <1>3, <2>1, <2>3
    <2>5. CASE G[j] = 0
      BY <1>1, <2>5 DEF j
    <2>6. CASE G[j] # 0
      <3>1. G[j] \in 1 .. (n - d) /\ D[y] < p /\ D[y] = KeptPlace(i, e, G[j])
        BY <1>1, <2>1, <2>2, <2>4, <2>6
      <3>2. ~(i <= G[j])
        BY <1>1, <1>4, <3>1
      <3> QED
        BY <1>1, <1>4, <3>1, <3>2 DEF j
    <2> QED
      BY <2>5, <2>6
  <1>7. y - d \in (p + 1) .. (n - d + 1)
    BY <1>1
  <1>8. EndOf(G, n - d, p, y - d)
    BY <1>5, <1>6, <1>7 DEF EndOf
  <1> QED
    BY <1>8 DEF d, p
-----------------------------------------------------------------------------
\* What is left of the first n entries, from what is left of those before.
LeftNext(es, gone, n, left) ==
    IF es[n].id \in gone THEN left ELSE Append(left, es[n])

LeftSteps(es, gone, f) ==
    f = [n \in 0 .. Len(es) |->
            IF n = 0 THEN <<>>
            ELSE IF es[n].id \in gone THEN f[n - 1] ELSE Append(f[n - 1], es[n])]

\* There is such a computation, and Remaining is its last value.
LEMMA LeftStepsExist ==
    ASSUME NEW E, NEW es \in Seq(E), NEW gone
    PROVE  \E f : LeftSteps(es, gone, f) /\ Remaining(es, gone) = f[Len(es)]
  <1> DEFINE n == Len(es)
             A == Seq(E)
             F == [m \in 1 .. n |-> [v \in A |-> LeftNext(es, gone, m, v)]]
             c == CHOOSE f : LeftSteps(es, gone, f)
  <1>n. n \in Nat
    OBVIOUS
  <1>1. \A m \in 1 .. n : \A v \in A : F[m][v] = LeftNext(es, gone, m, v)
    OBVIOUS
  <1>2. StepsIn(A, F, n)
    <2>1. ASSUME NEW m \in 1 .. n, NEW v \in A
          PROVE  LeftNext(es, gone, m, v) \in A
      <3>1. es[m] \in E
        OBVIOUS
      <3>2. Append(v, es[m]) \in A
        BY <3>1
      <3> QED
        BY <3>2 DEF LeftNext
    <2> HIDE DEF F, A
    <2> QED
      BY <1>1, <2>1 DEF StepsIn
  <1>3. <<>> \in A
    OBVIOUS
  <1> HIDE DEF A, F
  <1>4. PICK g : StepsFrom(A, <<>>, F, n, g)
    BY <1>n, <1>2, <1>3, StepsExist
  <1>5. LeftSteps(es, gone, g)
    <2> DEFINE body(m) == IF m = 0 THEN <<>> ELSE LeftNext(es, gone, m, g[m - 1])
    <2>1. g \in [0 .. n -> A] /\ g[0] = <<>> /\ \A m \in 1 .. n : g[m] = F[m][g[m - 1]]
      BY <1>4 DEF StepsFrom
    <2>2. \A m \in 0 .. n : m # 0 => m \in 1 .. n /\ m - 1 \in 0 .. n
      BY <1>n
    <2>3. ASSUME NEW m \in 0 .. n
          PROVE  g[m] = body(m)
      <3>1. CASE m = 0
        BY <2>1, <3>1
      <3>2. CASE m # 0
        <4>1. m \in 1 .. n /\ g[m - 1] \in A
          BY <2>1, <2>2, <3>2
        <4>2. g[m] = F[m][g[m - 1]]
          BY <2>1, <4>1
        <4>3. F[m][g[m - 1]] = body(m)
          BY <1>1, <3>2, <4>1
        <4> QED
          BY <4>2, <4>3
      <3> QED
        BY <3>1, <3>2
    <2>4. g = [m \in 0 .. n |-> g[m]]
      BY <2>1
    <2> HIDE DEF body
    <2>5. g = [m \in 0 .. n |-> body(m)]
      BY <2>3, <2>4
    <2> QED
      BY <2>5 DEF body, LeftSteps, LeftNext
  <1>6. LeftSteps(es, gone, c)
    BY <1>5
  <1>7. Remaining(es, gone) = c[n]
    BY DEF Remaining, LeftSteps
  <1> QED
    BY <1>6, <1>7

\* One step of the computation.
LEMMA LeftStep ==
    ASSUME NEW es, Len(es) \in Nat, NEW gone, NEW f, LeftSteps(es, gone, f)
    PROVE  f[0] = <<>> /\ \A n \in 1 .. Len(es) : f[n] = LeftNext(es, gone, n, f[n - 1])
  <1> DEFINE body(n) == IF n = 0 THEN <<>> ELSE LeftNext(es, gone, n, f[n - 1])
  <1>1. f = [n \in 0 .. Len(es) |-> body(n)]
    BY DEF LeftSteps, LeftNext
  <1>2. 0 \in 0 .. Len(es) /\ \A n \in 1 .. Len(es) : n \in 0 .. Len(es) /\ n # 0
    OBVIOUS
  <1> HIDE DEF body
  <1>3. \A n \in 0 .. Len(es) : f[n] = body(n)
    BY <1>1
  <1>4. f[0] = <<>>
    BY <1>2, <1>3 DEF body
  <1>5. \A n \in 1 .. Len(es) : f[n] = body(n)
    BY <1>2, <1>3
  <1> QED
    BY <1>2, <1>4, <1>5 DEF body

\* The entries of r are those of the first k that stay, s giving their places.
Selection(es, gone, r, k, m, s) ==
    /\ s \in [0 .. m -> 0 .. k] /\ s[0] = 0
    /\ \A i, j \in 0 .. m : i < j => s[i] < s[j]
    /\ \A j \in 1 .. m : r[j] = es[s[j]] /\ es[s[j]].id \notin gone
    /\ \A i \in 1 .. k : es[i].id \notin gone => \E j \in 1 .. m : s[j] = i

Selected(E, es, gone, r, k) ==
    r \in Seq(E) /\ \E s : Selection(es, gone, r, k, Len(r), s)

\* One entry more.
LEMMA SelectMore ==
    ASSUME NEW E, NEW es \in Seq(E), NEW gone, NEW k \in Nat, k + 1 <= Len(es),
           NEW r, Selected(E, es, gone, r, k)
    PROVE  Selected(E, es, gone, LeftNext(es, gone, k + 1, r), k + 1)
  <1> DEFINE l == k + 1
             m == Len(r)
  <1>1. r \in Seq(E) /\ m \in Nat /\ l \in 1 .. Len(es) /\ es[l] \in E
    BY DEF Selected
  <1>2. PICK s : Selection(es, gone, r, k, m, s)
    BY DEF Selected
  <1>3. /\ s \in [0 .. m -> 0 .. k] /\ s[0] = 0
        /\ \A i, j \in 0 .. m : i < j => s[i] < s[j]
        /\ \A j \in 1 .. m : r[j] = es[s[j]] /\ es[s[j]].id \notin gone
        /\ \A i \in 1 .. k : es[i].id \notin gone => \E j \in 1 .. m : s[j] = i
    BY <1>2 DEF Selection
  <1>4. CASE es[l].id \in gone
    <2>1. LeftNext(es, gone, l, r) = r
      BY <1>4 DEF LeftNext
    <2>2. ASSUME NEW i \in 1 .. l, es[i].id \notin gone
          PROVE  \E j \in 1 .. m : s[j] = i
      <3>1. i \in 1 .. k
        BY <1>4, <2>2
      <3> QED
        BY <1>3, <2>2, <3>1
    <2>3. s \in [0 .. m -> 0 .. l]
      BY <1>3
    <2> HIDE DEF l
    <2>4. Selection(es, gone, r, l, m, s)
      BY <1>3, <2>2, <2>3 DEF Selection
    <2>5. Selected(E, es, gone, r, l)
      BY <1>1, <2>4 DEF Selected
    <2> QED
      BY <2>1, <2>5 DEF l
  <1>5. CASE es[l].id \notin gone
    <2> DEFINE q == Append(r, es[l])
               o == m + 1
               t == [j \in 0 .. o |-> IF j = o THEN l ELSE s[j]]
    <2>1. LeftNext(es, gone, l, r) = q
      BY <1>5 DEF LeftNext
    <2>2. /\ q \in Seq(E) /\ Len(q) = o /\ q[o] = es[l] /\ \A j \in 1 .. m : q[j] = r[j]
      BY <1>1
    <2>3. /\ t \in [0 .. o -> 0 .. l] /\ t[o] = l /\ \A j \in 0 .. m : t[j] = s[j]
      <3>1. \A j \in 0 .. m : j \in 0 .. o /\ j # o /\ s[j] \in 0 .. l
        BY <1>1, <1>3
      <3>2. \A j \in 0 .. o : j = o \/ j \in 0 .. m
        BY <1>1
      <3>3. o \in 0 .. o /\ l \in 0 .. l
        BY <1>1
      <3> QED
        BY <3>1, <3>2, <3>3
    <2>o. o \in Nat /\ (\A j \in 0 .. o : j = o \/ j \in 0 .. m) /\ \A j \in 1 .. o : j = o \/ j \in 1 .. m
      BY <1>1
    <2>p. /\ \A i \in 0 .. m : ~(o < i) /\ s[i] < l
          /\ 0 \in 0 .. m /\ \A j \in 1 .. m : j \in 0 .. m
          /\ o \in 1 .. o /\ \A j \in 1 .. m : j \in 1 .. o
          /\ ~(o < o)
      <3>1. ASSUME NEW i \in 0 .. m
            PROVE  ~(o < i) /\ s[i] < l
        <4>1. s[i] \in 0 .. k
          BY <1>3
        <4> QED
          BY <1>1, <4>1
      <3>2. /\ 0 \in 0 .. m /\ \A j \in 1 .. m : j \in 0 .. m
            /\ o \in 1 .. o /\ \A j \in 1 .. m : j \in 1 .. o
            /\ ~(o < o)
        BY <1>1
      <3> QED
        BY <3>1, <3>2
    <2>q. \A i \in 1 .. l : i = l \/ i \in 1 .. k
      OBVIOUS
    <2> HIDE DEF q, t, l, o
    <2>4. ASSUME NEW i \in 0 .. o, NEW j \in 0 .. o, i < j
          PROVE  t[i] < t[j]
      <3>1. CASE j = o
        <4>1. i \in 0 .. m
          BY <2>4, <2>o, <2>p, <3>1
        <4> QED
          BY <2>3, <2>p, <3>1, <4>1
      <3>2. CASE j \in 0 .. m
        <4>1. i \in 0 .. m
          BY <2>4, <2>o, <2>p, <3>2
        <4> QED
          BY <1>3, <2>3, <2>4, <3>2, <4>1
      <3> QED
        BY <2>o, <3>1, <3>2
    <2>5. ASSUME NEW j \in 1 .. o
          PROVE  q[j] = es[t[j]] /\ es[t[j]].id \notin gone
      <3>1. CASE j = o
        BY <1>5, <2>2, <2>3, <3>1
      <3>2. CASE j \in 1 .. m
        BY <1>3, <2>2, <2>3, <2>p, <3>2
      <3> QED
        BY <2>o, <3>1, <3>2
    <2>6. ASSUME NEW i \in 1 .. l, es[i].id \notin gone
          PROVE  \E j \in 1 .. o : t[j] = i
      <3>1. CASE i = l
        BY <2>3, <2>p, <3>1
      <3>2. CASE i \in 1 .. k
        <4>1. PICK j \in 1 .. m : s[j] = i
          BY <1>3, <2>6, <3>2
        <4> QED
          BY <2>3, <2>p, <4>1
      <3> QED
        BY <2>q, <3>1, <3>2
    <2>7. t[0] = 0
      BY <1>3, <2>3, <2>p
    <2>8. Selection(es, gone, q, l, o, t)
      BY <2>3, <2>4, <2>5, <2>6, <2>7 DEF Selection
    <2>9. Selected(E, es, gone, q, l)
      BY <2>2, <2>8 DEF Selected
    <2> QED
      BY <2>1, <2>9 DEF l
  <1> QED
    BY <1>4, <1>5

\* What remains is what stays of the entries, in their order.
LEMMA RemainingIs ==
    ASSUME NEW E, NEW es \in Seq(E), NEW gone
    PROVE  Selected(E, es, gone, Remaining(es, gone), Len(es))
  <1> DEFINE n == Len(es)
  <1>1. n \in Nat /\ Len(es) \in Nat
    OBVIOUS
  <1>2. PICK f : LeftSteps(es, gone, f) /\ Remaining(es, gone) = f[n]
    BY LeftStepsExist
  <1>3. f[0] = <<>> /\ \A k \in 1 .. n : f[k] = LeftNext(es, gone, k, f[k - 1])
    BY <1>1, <1>2, LeftStep
  <1> DEFINE I == {k \in Nat : k <= n => Selected(E, es, gone, f[k], k)}
  <1>4. 0 \in I
    <2> DEFINE r == f[0]
               s == [j \in 0 .. 0 |-> 0]
    <2>1. r \in Seq(E) /\ Len(r) = 0
      BY <1>3
    <2>2. Selection(es, gone, r, 0, 0, s)
      BY DEF Selection
    <2> HIDE DEF r, s
    <2>3. Selected(E, es, gone, r, 0)
      BY <2>1, <2>2 DEF Selected
    <2> QED
      BY <2>3 DEF r
  <1>5. ASSUME NEW k \in Nat, k \in I
        PROVE  k + 1 \in I
    <2> SUFFICES ASSUME k + 1 <= n PROVE Selected(E, es, gone, f[k + 1], k + 1)
      OBVIOUS
    <2>1. Selected(E, es, gone, f[k], k)
      BY <1>1, <1>5
    <2>2. k + 1 \in 1 .. n /\ k + 1 - 1 = k
      BY <1>1
    <2>3. f[k + 1] = LeftNext(es, gone, k + 1, f[k])
      BY <1>3, <2>2
    <2> DEFINE v == f[k]
    <2> HIDE DEF v, I
    <2>4. Selected(E, es, gone, v, k)
      BY <2>1 DEF v
    <2>5. Selected(E, es, gone, LeftNext(es, gone, k + 1, v), k + 1)
      BY <2>4, SelectMore
    <2> QED
      BY <2>3, <2>5 DEF v
  <1> HIDE DEF I
  <1>6. \A k \in Nat : k \in I
    BY <1>4, <1>5, IndexInduction
  <1> QED
    BY <1>1, <1>2, <1>6 DEF I
-----------------------------------------------------------------------------
\* The identifiers that go when a selection is deleted.
Gone(es, ids) == ids \cup {es[i].id : i \in BelowAny(es, ids)}

\* With an entry goes what is below it.
LEMMA GoneBelow ==
    ASSUME NEW es, Len(es) \in Nat, NEW D, Tree(es, D), NEW ids,
           NEW i \in 1 .. Len(es), D[i] # 0, es[D[i]].id \in Gone(es, ids)
    PROVE  es[i].id \in Gone(es, ids)
  <1> DEFINE p == D[i]
             B == BelowAny(es, ids)
  <1>1. p \in 1 .. (i - 1) /\ p \in 1 .. Len(es) /\ es[i].parent = es[p].id
    BY ParentIs
  <1>2. /\ B \subseteq 1 .. Len(es)
        /\ i \in B <=> es[i].parent \in ids \/ \E k \in B : k < i /\ es[i].parent = es[k].id
    BY BelowAnyIs
  <1> HIDE DEF p, B
  <1>3. es[p].id \in ids \/ \E k \in B : es[k].id = es[p].id
    BY DEF Gone, p, B
  <1>4. i \in B
    <2>1. CASE es[p].id \in ids
      BY <1>1, <1>2, <2>1
    <2>2. CASE \E k \in B : es[k].id = es[p].id
      <3>1. PICK k \in B : es[k].id = es[p].id
        BY <2>2
      <3>2. k = p
        BY <1>1, <1>2, <3>1 DEF Tree, Named
      <3>3. p < i
        BY <1>1
      <3> QED
        BY <1>1, <1>2, <3>1, <3>2, <3>3
    <2> QED
      BY <1>3, <2>1, <2>2
  <1> QED
    BY <1>4 DEF Gone, B

\* A selection goes with its subtrees.
LEMMA WithoutSubtreesPage ==
    ASSUME NEW I, NEW T, NEW U, NEW es, Page(I, T, U, es), NEW ids
    PROVE  Page(I, T, U, WithoutSubtrees(es, ids))
  <1> DEFINE E == Entry(I, T, U)
             n == Len(es)
             gone == Gone(es, ids)
             r == Remaining(es, gone)
             m == Len(r)
  <1>1. TopLevel \notin I /\ es \in Seq(E) /\ n \in Nat
    BY PageIs
  <1>2. PICK D : Tree(es, D)
    BY DEF Page
  <1>3. WithoutSubtrees(es, ids) = r
    BY DEF WithoutSubtrees, Gone
  <1> HIDE DEF E
  <1>4. Selected(E, es, gone, r, n)
    BY <1>1, RemainingIs
  <1>5. \A i \in 1 .. n : D[i] # 0 /\ es[D[i]].id \in gone => es[i].id \in gone
    BY <1>1, <1>2, GoneBelow
  <1> HIDE DEF gone, r
  <1>6. r \in Seq(E) /\ m \in Nat
    BY <1>4 DEF Selected
  <1>7. PICK s : Selection(es, gone, r, n, m, s)
    BY <1>4 DEF Selected
  <1> HIDE DEF m, n
  <1>8. /\ s \in [0 .. m -> 0 .. n] /\ s[0] = 0
        /\ \A i, j \in 0 .. m : i < j => s[i] < s[j]
        /\ \A j \in 1 .. m : r[j] = es[s[j]] /\ es[s[j]].id \notin gone
        /\ \A i \in 1 .. n : es[i].id \notin gone => \E j \in 1 .. m : s[j] = i
    BY <1>7 DEF Selection
  <1>9. ASSUME NEW j \in 1 .. m
        PROVE  s[j] \in 1 .. n
    <2>1. 0 \in 0 .. m /\ j \in 0 .. m /\ 0 < j
      BY <1>6
    <2>2. s[j] \in 0 .. n /\ s[0] < s[j]
      BY <1>8, <2>1
    <2> QED
      BY <1>1, <1>8, <2>2
  <1>10. \A i \in 1 .. n : D[i] \in 0 .. (i - 1)
    BY <1>1, <1>2, ParentIs DEF n
  <1>11. ASSUME NEW j \in 1 .. m
         PROVE  \E k \in 0 .. m : s[k] = D[s[j]]
    <2> DEFINE i == s[j]
    <2>1. i \in 1 .. n /\ es[i].id \notin gone
      BY <1>8, <1>9
    <2> HIDE DEF i
    <2>2. CASE D[i] = 0
      <3>1. 0 \in 0 .. m /\ s[0] = D[i]
        BY <1>6, <1>8, <2>2
      <3> QED
        BY <3>1 DEF i
    <2>3. CASE D[i] # 0
      <3>1. D[i] \in 1 .. n
        BY <1>1, <1>10, <2>1, <2>3
      <3>2. es[D[i]].id \notin gone
        BY <1>5, <2>1, <2>3
      <3>3. PICK k \in 1 .. m : s[k] = D[i]
        BY <1>8, <3>1, <3>2
      <3>4. k \in 0 .. m
        BY <1>6
      <3> QED
        BY <3>3, <3>4 DEF i
    <2> QED
      BY <2>2, <2>3
  <1>12. Thinning(D, n, m, s)
    BY <1>8, <1>11 DEF Thinning
  <1> DEFINE G == ThinnedWalk(D, m, s)
  <1>13. Walk(D, n)
    BY <1>2 DEF Tree, n
  <1>14. Walk(G, m) /\ \A j \in 1 .. m : s[G[j]] = D[s[j]]
    BY <1>1, <1>6, <1>12, <1>13, ThinnedWalks
  <1> HIDE DEF G
  <1>15. \A j \in 1 .. m : G[j] \in Nat /\ G[j] < j
    BY <1>14 DEF Walk
  <1>16. ASSUME NEW i \in 1 .. m
         PROVE  /\ s[i] \in 1 .. n /\ r[i].id = es[s[i]].id
                /\ \A k \in 1 .. m : s[i] = s[k] => i = k
                /\ r[i].parent = es[s[i]].parent
                /\ D[s[i]] = 0 => G[i] = 0
                /\ D[s[i]] # 0 => G[i] \in 1 .. m /\ s[G[i]] = D[s[i]]
    <2>1. s[i] \in 1 .. n /\ r[i].id = es[s[i]].id /\ r[i].parent = es[s[i]].parent
      BY <1>8, <1>9
    <2>2. ASSUME NEW k \in 1 .. m, s[i] = s[k]
          PROVE  i = k
      <3>1. i \in 0 .. m /\ k \in 0 .. m /\ s[i] \in 0 .. n
        BY <1>6, <1>8
      <3>2. ~(s[i] < s[k]) /\ ~(s[k] < s[i])
        BY <1>1, <2>2, <3>1
      <3>3. ~(i < k) /\ ~(k < i)
        BY <1>8, <3>1, <3>2
      <3> QED
        BY <1>6, <3>3
    <2>3. G[i] \in 0 .. m /\ s[G[i]] = D[s[i]]
      BY <1>6, <1>14, <1>15
    <2>4. G[i] # 0 => s[0] < s[G[i]]
      BY <1>6, <1>8, <2>3
    <2>5. G[i] = 0 => s[G[i]] = 0
      BY <1>8
    <2> QED
      BY <1>6, <1>8, <2>1, <2>2, <2>3, <2>4, <2>5
  <1>17. Carried(es, D, r, G, s)
    BY <1>16 DEF Carried, m, n
  <1>18. Len(es) \in Nat /\ Len(r) \in Nat /\ Walk(G, Len(r))
    BY <1>1, <1>6, <1>14 DEF m, n
  <1>19. Tree(r, G)
    BY <1>2, <1>17, <1>18, CarriedTree
  <1> QED
    BY <1>1, <1>3, <1>6, <1>19 DEF Page, E
-----------------------------------------------------------------------------
\* A run of entries whose first one has another parent.
Reparented(s, p) == [s EXCEPT ![1].parent = p]

\* Its entries.
LEMMA ReparentedIs ==
    ASSUME NEW I, NEW T, NEW U, NEW s \in Seq(Entry(I, T, U)), Len(s) >= 1, NEW p \in I \cup {TopLevel}
    PROVE  /\ Reparented(s, p) \in Seq(Entry(I, T, U)) /\ Len(Reparented(s, p)) = Len(s)
           /\ \A j \in 1 .. Len(s) : j # 1 => Reparented(s, p)[j] = s[j]
           /\ Reparented(s, p)[1] = WithParent(s[1], p)
  <1> DEFINE E == Entry(I, T, U)
             n == Len(s)
             t == [s EXCEPT ![1].parent = p]
  <1>1. n \in Nat /\ 1 \in 1 .. n /\ DOMAIN s = 1 .. n /\ \A j \in 1 .. n : s[j] \in E
    OBVIOUS
  <1>2. DOMAIN t = 1 .. n /\ \A j \in 1 .. n : j # 1 => t[j] = s[j]
    BY <1>1
  <1>3. t[1] = WithParent(s[1], p)
    BY <1>1 DEF WithParent
  <1>4. t[1] \in E
    BY <1>1, <1>3, WithParentIs
  <1>5. t = [j \in 1 .. n |-> t[j]] /\ \A j \in 1 .. n : t[j] \in E
    BY <1>1, <1>2, <1>4
  <1> HIDE DEF t, E
  <1>6. t \in [1 .. n -> E]
    BY <1>5
  <1>7. t \in Seq(E)
    BY <1>1, <1>6, SeqDef
  <1>8. Len(t) = n
    BY <1>1, <1>2, <1>7, LenProperties
  <1> QED
    BY <1>2, <1>3, <1>7, <1>8 DEF t, E, Reparented
-----------------------------------------------------------------------------
\* Taking out a subtree and putting it back behind that of its parent turns the two.
Behind(es, i, e, y, parent, r) ==
    /\ Len(r) = Len(es)
    /\ \A j \in 1 .. Len(es) :
          LET o == Origin(i, e, y, j)
          IN  r[j] = IF o # i THEN es[o] ELSE WithParent(es[i], parent)

\* What is left when the run from i to before e is taken out.
Shortened(es, i, e, rest) ==
    /\ Len(rest) = Len(es) - (e - i)
    /\ \A j \in 1 .. (Len(es) - (e - i)) : rest[j] = es[KeptPlace(i, e, j)]

\* The run put back further down, entry by entry.
LEMMA PutBehind ==
    ASSUME NEW I, NEW T, NEW U, NEW es \in Seq(Entry(I, T, U)),
           NEW i \in 1 .. Len(es), NEW e \in (i + 1) .. (Len(es) + 1), NEW y \in e .. (Len(es) + 1),
           NEW rest \in Seq(Entry(I, T, U)), Shortened(es, i, e, rest),
           NEW parent \in I \cup {TopLevel}
    PROVE  LET r == Spliced(rest, y - (e - i), Reparented(Slice(es, i, e), parent))
           IN  r \in Seq(Entry(I, T, U)) /\ Behind(es, i, e, y, parent, r)
  <1> DEFINE E == Entry(I, T, U)
             n == Len(es)
             d == e - i
             x == y - d
             run == Slice(es, i, e)
             moving == Reparented(run, parent)
             r == Spliced(rest, x, moving)
  <1>1. /\ n \in Nat /\ i \in 1 .. n /\ e \in (i + 1) .. (n + 1) /\ y \in e .. (n + 1)
        /\ d \in Nat /\ d >= 1 /\ e = i + d
    OBVIOUS
  <1>2. run \in Seq(E) /\ Len(run) = d /\ \A j \in 1 .. d : run[j] = es[j + i - 1]
    <2>1. es \in Seq(E) /\ i \in 1 .. (Len(es) + 1) /\ e \in i .. (Len(es) + 1)
      BY <1>1
    <2> HIDE DEF E, n, d, x, r, moving
    <2>2. /\ run \in Seq(E) /\ Len(run) = e - i
          /\ \A j \in 1 .. (e - i) : run[j] = es[j + i - 1]
      BY <2>1, SliceIs
    <2> QED
      BY <2>2 DEF d
  <1>3. rest \in Seq(E) /\ Len(rest) = n - d /\ \A j \in 1 .. (n - d) : rest[j] = es[KeptPlace(i, e, j)]
    BY DEF Shortened
  <1>4. x \in 1 .. (Len(rest) + 1)
    BY SMTT(30), <1>1, <1>3
  <1> HIDE DEF run
  <1>5. /\ moving \in Seq(E) /\ Len(moving) = d
        /\ \A j \in 1 .. d : j # 1 => moving[j] = run[j]
        /\ moving[1] = WithParent(run[1], parent)
    <2>1. run \in Seq(Entry(I, T, U)) /\ Len(run) >= 1 /\ Len(run) = d
      BY <1>1, <1>2
    <2> HIDE DEF d, E, n, x, r
    <2>2. /\ moving \in Seq(Entry(I, T, U)) /\ Len(moving) = Len(run)
          /\ \A j \in 1 .. Len(run) : j # 1 => moving[j] = run[j]
          /\ moving[1] = WithParent(run[1], parent)
      BY <2>1, ReparentedIs
    <2> QED
      BY <2>1, <2>2 DEF E
  <1> HIDE DEF moving, x, n, d
  <1>m. moving \in Seq(E) /\ rest \in Seq(E) /\ x \in 1 .. (Len(rest) + 1)
    BY <1>3, <1>4, <1>5
  <1> HIDE DEF E
  <1>6. /\ r \in Seq(E) /\ Len(r) = Len(rest) + Len(moving)
        /\ \A j \in 1 .. (x - 1) : r[j] = rest[j]
        /\ \A j \in 1 .. Len(moving) : r[x - 1 + j] = moving[j]
        /\ \A j \in x .. Len(rest) : r[j + Len(moving)] = rest[j]
    <2>1. SplicedAs(E, rest, x, moving, r)
      BY <1>m, SplicedIs
    <2> HIDE DEF r
    <2> QED
      BY <2>1 DEF SplicedAs
  <1> HIDE DEF r
  <1>7. /\ Len(rest) = n - d /\ Len(moving) = d /\ Len(r) = n /\ x = y - d
        /\ \A j \in 1 .. (n - d) : j < i => rest[j] = es[j]
        /\ \A j \in 1 .. (n - d) : i <= j => rest[j] = es[j + d]
    <2>1. Len(rest) = n - d /\ Len(moving) = d
      BY <1>3, <1>5
    <2>2. Len(r) = n
      BY <1>1, <1>6, <2>1
    <2>3. ASSUME NEW j \in 1 .. (n - d)
          PROVE  /\ j < i => rest[j] = es[j]
                 /\ i <= j => rest[j] = es[j + d]
      <3>1. KeptPlace(i, e, j) = IF j < i THEN j ELSE j + d
        BY DEF KeptPlace, d
      <3> QED
        BY <1>1, <1>3, <3>1
    <2> QED
      BY <2>1, <2>2, <2>3 DEF x
  <1>8. ASSUME NEW j \in 1 .. n
        PROVE  LET o == Origin(i, e, y, j)
               IN  r[j] = IF o # i THEN es[o] ELSE WithParent(es[i], parent)
    <2>1. CASE j < i
      <3>1. Origin(i, e, y, j) = j
        BY <2>1 DEF Origin
      <3>2. j \in 1 .. (x - 1) /\ j \in 1 .. (n - d) /\ j # i
        BY <1>1, <1>7, <2>1
      <3>3. r[j] = es[j]
        BY <1>6, <1>7, <2>1, <3>2
      <3> QED
        BY <3>1, <3>2, <3>3
    <2>2. CASE i <= j /\ j < x
      <3>1. Origin(i, e, y, j) = j + d
        BY <1>1, <1>7, <2>2 DEF Origin, d
      <3>2. j \in 1 .. (x - 1) /\ j \in 1 .. (n - d) /\ j + d # i
        BY <1>1, <1>7, <2>2
      <3>3. r[j] = es[j + d]
        BY <1>6, <1>7, <2>2, <3>2
      <3> QED
        BY <3>1, <3>2, <3>3
    <2>3. CASE x <= j /\ j < y
      <3> DEFINE k == j - (x - 1)
                 l == j - (y - e)
      <3>a. Len(moving) = d /\ x = y - d /\ y - e = y - i - d
        BY SMTT(30), <1>1, <1>7
      <3>1. k \in 1 .. d /\ k \in 1 .. Len(moving) /\ x - 1 + k = j /\ k + i - 1 = l
        BY <1>1, <2>3, <3>a
      <3>2. Origin(i, e, y, j) = l
        BY <1>1, <1>7, <2>3 DEF Origin, d
      <3>3. k = 1 <=> l = i
        BY <1>1, <1>7, <2>3
      <3> HIDE DEF k, l
      <3>4. r[j] = moving[k] /\ run[k] = es[l]
        BY <1>2, <1>6, <3>1
      <3>5. CASE k = 1
        BY <1>5, <3>2, <3>3, <3>4, <3>5
      <3>6. CASE k # 1
        BY <1>5, <3>1, <3>2, <3>3, <3>4, <3>6
      <3> QED
        BY <3>5, <3>6
    <2>4. CASE y <= j
      <3> DEFINE k == j - d
      <3>a. Len(moving) = d /\ x = y - d /\ Len(rest) = n - d
        BY <1>1, <1>7
      <3>1. k \in x .. Len(rest) /\ k + Len(moving) = j /\ k \in 1 .. (n - d) /\ i <= k /\ k + d = j
        BY <1>1, <2>4, <3>a
      <3>2. Origin(i, e, y, j) = j /\ j # i
        BY <1>1, <2>4 DEF Origin
      <3> HIDE DEF k
      <3>b. r[k + Len(moving)] = rest[k]
        BY <1>6, <3>1
      <3>c. rest[k] = es[k + d]
        BY <1>7, <3>1
      <3>3. r[j] = es[j]
        BY <3>1, <3>b, <3>c
      <3> QED
        BY <3>2, <3>3
    <2> QED
      BY <1>1, <1>7, <2>1, <2>2, <2>3, <2>4
  <1>9. Behind(es, i, e, y, parent, r)
    BY <1>7, <1>8 DEF Behind, n
  <1> QED
    BY <1>6, <1>9 DEF r, moving, run, x, d, E

\* An entry behind its parent, as its next sibling.
LEMMA OutdentedIs ==
    ASSUME NEW I, NEW T, NEW U, NEW es, Page(I, T, U, es), NEW D, Tree(es, D),
           NEW i \in 1 .. Len(es), CanOutdent(es, i)
    PROVE  LET e == SubtreeEnd(es, i)
               y == SubtreeEnd(es, D[i])
               parent == GrandParent(es, i)
           IN  /\ D[i] \in 1 .. Len(es) /\ Turnable(D, Len(es), i, e, y, D[D[i]])
               /\ parent \in I \cup {TopLevel}
               /\ parent = IF D[D[i]] = 0 THEN TopLevel ELSE es[D[D[i]]].id
               /\ parent = es[D[i]].parent
               /\ Outdented(es, i) \in Seq(Entry(I, T, U))
               /\ Behind(es, i, e, y, parent, Outdented(es, i))
  <1> DEFINE E == Entry(I, T, U)
             n == Len(es)
             e == SubtreeEnd(es, i)
             rest == Without(es, i, e)
             parent == GrandParent(es, i)
             m == n - (e - i)
  <1>1. TopLevel \notin I /\ es \in Seq(E) /\ n \in Nat /\ DOMAIN es = 1 .. n
    BY PageIs
  <1>2. Tree(es, D)
    OBVIOUS
  <1> DEFINE p == D[i]
             g == D[p]
             y == SubtreeEnd(es, p)
  <1>3. Walk(D, n) /\ Named(es) /\ \A j \in 1 .. n : D[j] \in Nat /\ D[j] < j
    BY <1>2 DEF Tree, Walk
  <1>4. p \in 1 .. (i - 1) /\ p \in 1 .. n /\ es[i].parent = es[p].id /\ D[i] # 0
    BY <1>1, <1>2, ParentIs DEF CanOutdent
  <1>5. PositionOf(es, es[i].parent) = p
    <2>1. es[i].parent \in Ids(es)
      BY <1>1, <1>4 DEF Ids
    <2> QED
      BY SMTT(30), <1>1, <1>3, <1>4, <2>1, PositionIs DEF Named
  <1>6. /\ parent \in I \cup {TopLevel} /\ parent = IF g = 0 THEN TopLevel ELSE es[g].id
        /\ parent = es[p].parent
    <2>1. parent = es[p].parent
      BY <1>5 DEF GrandParent
    <2>2. es[p].parent \in I \cup {TopLevel}
      BY <1>4, PageIs
    <2> HIDE DEF p
    <2>3. es[p].parent = IF D[p] = 0 THEN TopLevel ELSE es[D[p]].id
      BY <1>1, <1>2, <1>4, ParentIs
    <2> QED
      BY <2>1, <2>2, <2>3
  <1>7. EndOf(D, n, i, e)
    BY <1>1, <1>2, SubtreeEndIs
  <1>8. EndOf(D, n, p, y)
    BY <1>1, <1>2, <1>4, SubtreeEndIs
  <1> HIDE DEF e, y, E
  <1>9. e <= y /\ Turnable(D, n, i, e, y, D[D[i]])
    BY <1>1, <1>3, <1>4, <1>7, <1>8, OutdentTurns
  <1>10. e \in (i + 1) .. (n + 1) /\ y \in (p + 1) .. (n + 1)
    BY <1>7, <1>8 DEF EndOf
  <1>11. SubtreesApart(D, n, i, e)
    <2>1. \A k \in e .. n : D[k] < e => D[k] <= D[i]
      BY <1>1, <1>3, <1>7, SiblingGap DEF Gap
    <2>2. ASSUME NEW j \in 1 .. n, j \notin i .. (e - 1)
          PROVE  D[j] \notin i .. (e - 1)
      <3>1. D[j] \in Nat /\ D[j] < j /\ D[i] \in Nat /\ D[i] < i
        BY <1>3
      <3>2. CASE j < i
        BY <1>1, <1>10, <3>1, <3>2
      <3>3. CASE e <= j
        <4>1. D[j] < e => D[j] <= D[i]
          BY <1>10, <2>1, <3>3
        <4> QED
          BY <1>10, <3>1, <4>1
      <3> QED
        BY <1>1, <1>10, <2>2, <3>2, <3>3
    <2> QED
      BY <2>2 DEF SubtreesApart
  <1>12. /\ Without(es, i, e) \in Seq(E) /\ Len(Without(es, i, e)) = Len(es) - (e - i)
         /\ \A j \in 1 .. (Len(es) - (e - i)) : Without(es, i, e)[j] = es[KeptPlace(i, e, j)]
         /\ \E G : Remains(es, D, i, e, G)
    <2>1. es \in Seq(E) /\ e \in (i + 1) .. (Len(es) + 1) /\ SubtreesApart(D, Len(es), i, e)
      BY <1>1, <1>10, <1>11
    <2> HIDE DEF n
    <2> QED
      BY <1>2, <2>1, WithoutTree
  <1>13. PICK G : Remains(es, D, i, e, G)
    BY <1>12
  <1>14. m \in Nat /\ p \in 1 .. m /\ KeptPlace(i, e, p) = p
    BY <1>1, <1>4, <1>10 DEF KeptPlace
  <1>15. Tree(rest, G) /\ Len(rest) = m /\ rest[p] = es[p] /\ DOMAIN rest = 1 .. Len(rest)
    <2>1. Tree(rest, G) /\ Len(rest) = m /\ rest[p] = es[p]
      BY <1>12, <1>13, <1>14 DEF Remains
    <2>2. DOMAIN rest = 1 .. Len(rest)
      BY <1>12, LenProperties
    <2> QED
      BY <2>1, <2>2
  <1> HIDE DEF rest, m, parent
  <1>16. PositionOf(rest, es[i].parent) = p
    <2>1. es[i].parent \in Ids(rest)
      BY <1>4, <1>14, <1>15 DEF Ids
    <2>2. PositionOf(rest, es[i].parent) \in 1 .. m /\ rest[PositionOf(rest, es[i].parent)].id = es[i].parent
      BY <1>15, <2>1, PositionIs
    <2> QED
      BY <1>4, <1>14, <1>15, <2>2 DEF Tree, Named
  <1>17. SubtreeEnd(rest, p) = y - (e - i)
    <2>1. EndOf(G, m, p, SubtreeEnd(rest, p))
      BY <1>14, <1>15, SubtreeEndIs
    <2>2. EndOf(G, m, p, y - (e - i))
      BY <1>1, <1>2, <1>4, <1>7, <1>8, <1>9, <1>13, EndWithout DEF m
    <2>3. G \in [1 .. m -> Nat]
      BY <1>15 DEF Tree, Walk
    <2> QED
      BY <1>14, <2>1, <2>2, <2>3, EndUnique
  <1> DEFINE r == Spliced(rest, y - (e - i), Reparented(Slice(es, i, e), parent))
  <1>18. Outdented(es, i) = r
    BY <1>16, <1>17 DEF Outdented, rest, e, parent, Reparented
  <1>19. r \in Seq(E) /\ Behind(es, i, e, y, parent, r)
    <2>1. es \in Seq(Entry(I, T, U)) /\ rest \in Seq(Entry(I, T, U))
      BY <1>1, <1>12 DEF E, rest
    <2>2. e \in (i + 1) .. (Len(es) + 1) /\ y \in e .. (Len(es) + 1)
      BY <1>1, <1>9, <1>10
    <2>3. Shortened(es, i, e, rest)
      BY <1>12 DEF rest, Shortened
    <2> HIDE DEF g, p, n
    <2> QED
      BY <1>6, <2>1, <2>2, <2>3, PutBehind DEF E
  <1> QED
    BY <1>4, <1>6, <1>9, <1>18, <1>19 DEF E, e, y, parent

\* An outdented entry leaves a Page.
LEMMA OutdentedPage ==
    ASSUME NEW I, NEW T, NEW U, NEW es, Page(I, T, U, es), NEW i \in 1 .. Len(es), CanOutdent(es, i)
    PROVE  Page(I, T, U, Outdented(es, i)) /\ Len(Outdented(es, i)) = Len(es)
  <1>1. TopLevel \notin I /\ Len(es) \in Nat /\ \A j \in 1 .. Len(es) : es[j] \in Entry(I, T, U)
    BY PageIs
  <1>2. PICK D : Tree(es, D)
    BY DEF Page
  <1> DEFINE e == SubtreeEnd(es, i)
             y == SubtreeEnd(es, D[i])
             g == D[D[i]]
             parent == GrandParent(es, i)
             r == Outdented(es, i)
  <1>3. /\ Turnable(D, Len(es), i, e, y, g)
        /\ parent \in I \cup {TopLevel} /\ parent = IF g = 0 THEN TopLevel ELSE es[g].id
        /\ r \in Seq(Entry(I, T, U)) /\ Behind(es, i, e, y, parent, r)
    BY <1>2, OutdentedIs
  <1> HIDE DEF e, y, g, parent, r
  <1>4. Len(r) = Len(es)
    BY <1>3 DEF Behind
  <1>5. WithParent(es[i], parent).id = es[i].id /\ WithParent(es[i], parent).parent = parent
    BY <1>1, <1>3, WithParentIs
  <1>6. ASSUME NEW j \in 1 .. Len(es)
        PROVE  LET o == Origin(i, e, y, j)
               IN  /\ r[j].id = es[o].id
                   /\ r[j].parent = IF o # i THEN es[o].parent
                                    ELSE IF g = 0 THEN TopLevel ELSE es[g].id
    <2> DEFINE o == Origin(i, e, y, j)
    <2>1. r[j] = IF o # i THEN es[o] ELSE WithParent(es[i], parent)
      BY <1>3 DEF Behind
    <2> HIDE DEF o
    <2>2. /\ r[j].id = es[o].id
          /\ r[j].parent = IF o # i THEN es[o].parent ELSE parent
      BY <1>5, <2>1
    <2> QED
      BY <1>3, <2>2 DEF o
  <1>7. Tree(r, TurnedWalk(D, Len(es), i, e, y, g))
    BY <1>1, <1>2, <1>3, <1>4, <1>6, TurnedTree
  <1> QED
    BY <1>1, <1>3, <1>4, <1>7 DEF Page, r
-----------------------------------------------------------------------------
\* Where an identifier is found.
LEMMA FoundAt ==
    ASSUME NEW es, DOMAIN es = 1 .. Len(es), Named(es), NEW i \in 1 .. Len(es)
    PROVE  PositionOf(es, es[i].id) = i
  <1>1. es[i].id \in Ids(es)
    BY DEF Ids
  <1> QED
    BY <1>1, PositionIs DEF Named

\* Sequences that agree at every place.
LEMMA SameEntries ==
    ASSUME NEW E, NEW s \in Seq(E), NEW t \in Seq(E), Len(s) = Len(t),
           \A j \in 1 .. Len(s) : s[j] = t[j]
    PROVE  s = t
  BY SeqEqual

\* Turning twice leaves everything where it was.
LEMMA OriginBack ==
    ASSUME NEW n \in Nat, NEW a \in 1 .. n, NEW b \in (a + 1) .. (n + 1), NEW c \in (b + 1) .. (n + 1),
           NEW j \in 1 .. n
    PROVE  /\ Origin(a, a + (c - b), c, j) \in 1 .. n
           /\ Origin(a, b, c, Origin(a, a + (c - b), c, j)) = j
  <1>1. c - (a + (c - b)) = b - a /\ a + (c - (a + (c - b))) = b
    OBVIOUS
  <1>2. CASE j < a
    <2>1. Origin(a, a + (c - b), c, j) = j
      BY <1>2 DEF Origin
    <2> QED
      BY <1>2, <2>1 DEF Origin
  <1>3. CASE a <= j /\ j < b
    <2> DEFINE k == j + (c - b)
    <2>1. Origin(a, a + (c - b), c, j) = k
      BY <1>1, <1>3 DEF Origin
    <2>2. k \in 1 .. n /\ ~(k < a) /\ ~(k < a + (c - b)) /\ k < c /\ k - (c - b) = j
      BY <1>3
    <2> HIDE DEF k
    <2>3. Origin(a, b, c, k) = j
      BY <2>2 DEF Origin
    <2> QED
      BY <2>1, <2>2, <2>3
  <1>4. CASE b <= j /\ j < c
    <2> DEFINE k == j - (b - a)
    <2>1. Origin(a, a + (c - b), c, j) = k
      BY <1>1, <1>4 DEF Origin
    <2>2. k \in 1 .. n /\ ~(k < a) /\ k < a + (c - b) /\ k + (b - a) = j
      BY <1>4
    <2> HIDE DEF k
    <2>3. Origin(a, b, c, k) = j
      BY <2>2 DEF Origin
    <2> QED
      BY <2>1, <2>2, <2>3
  <1>5. CASE c <= j
    <2>1. Origin(a, a + (c - b), c, j) = j
      BY <1>1, <1>5 DEF Origin
    <2>2. Origin(a, b, c, j) = j
      BY <1>5 DEF Origin
    <2> QED
      BY <2>1, <2>2
  <1> QED
    BY <1>2, <1>3, <1>4, <1>5

\* Turning two runs twice gives the same entries.
LEMMA RotatedBack ==
    ASSUME NEW E, NEW es \in Seq(E), NEW a \in 1 .. Len(es), NEW b \in (a + 1) .. (Len(es) + 1),
           NEW c \in (b + 1) .. (Len(es) + 1)
    PROVE  Rotated(Rotated(es, a, b, c), a, a + (c - b), c) = es
  <1> DEFINE n == Len(es)
             r == Rotated(es, a, b, c)
             d == a + (c - b)
             q == Rotated(r, a, d, c)
  <1>1. n \in Nat /\ a \in 1 .. n /\ b \in (a + 1) .. (n + 1) /\ c \in (b + 1) .. (n + 1)
    OBVIOUS
  <1>2. r \in Seq(E) /\ Len(r) = n /\ \A j \in 1 .. n : r[j] = es[Origin(a, b, c, j)]
    <2>1. c \in b .. (Len(es) + 1)
      BY <1>1
    <2> QED
      BY <2>1, RotatedIs
  <1> HIDE DEF r
  <1>3. a \in 1 .. Len(r) /\ d \in (a + 1) .. (Len(r) + 1) /\ c \in d .. (Len(r) + 1)
    BY <1>1, <1>2
  <1>m. r \in Seq(E)
    BY <1>2
  <1> HIDE DEF d
  <1>4. q \in Seq(E) /\ Len(q) = Len(r) /\ \A j \in 1 .. Len(r) : q[j] = r[Origin(a, d, c, j)]
    BY <1>m, <1>3, RotatedIs
  <1>5. ASSUME NEW j \in 1 .. n
        PROVE  q[j] = es[j]
    <2>1. Origin(a, d, c, j) \in 1 .. n /\ Origin(a, b, c, Origin(a, d, c, j)) = j
      BY <1>1, OriginBack DEF d
    <2> QED
      BY <1>2, <1>4, <2>1
  <1> HIDE DEF q
  <1>6. q = es
    <2>1. q \in Seq(E) /\ Len(q) = Len(es) /\ \A j \in 1 .. Len(q) : q[j] = es[j]
      BY <1>2, <1>4, <1>5
    <2> QED
      BY <2>1, SameEntries
  <1> QED
    BY <1>6 DEF q, r, d

\* When neighbouring siblings have changed places, the one that went before ends where
\* the other begins, and that one where the first did.
LEMMA SwappedEnds ==
    ASSUME NEW n \in Nat, NEW D, Walk(D, n), NEW i \in 1 .. n, NEW k, PreviousSibling(D, i, k),
           NEW e, EndOf(D, n, i, e), NEW G, G = TurnedWalk(D, n, k, i, e, D[k])
    PROVE  /\ EndOf(G, n, k, k + (e - i))
           /\ k + (e - i) \in 1 .. n /\ EndOf(G, n, k + (e - i), e)
           /\ PreviousSibling(G, k + (e - i), k)
  <1> DEFINE d == e - i
             b == k + d
             f == i - k
  <1>1. \A j \in 1 .. n : D[j] \in Nat /\ D[j] < j
    BY DEF Walk
  <1>2. k \in 1 .. (i - 1) /\ k \in 1 .. n /\ D[k] = D[i]
    BY DEF PreviousSibling
  <1>3. \A j \in (k + 1) .. (i - 1) : k <= D[j]
    BY BetweenSiblings DEF EndOf
  <1>4. /\ e \in (i + 1) .. (n + 1) /\ \A j \in (i + 1) .. (e - 1) : i <= D[j]
    BY DEF EndOf
  <1>5. e <= n => D[e] <= D[i]
    <2>1. \A m \in e .. n : D[m] < e => D[m] <= D[i]
      BY SiblingGap DEF Gap
    <2> SUFFICES ASSUME e <= n PROVE D[e] <= D[i]
      OBVIOUS
    <2>2. e \in e .. n /\ e \in 1 .. n
      BY <1>4
    <2> QED
      BY <1>1, <2>1, <2>2
  <1>6. Turnable(D, n, k, i, e, D[k])
    BY SwapTurns
  <1>7. /\ \A j \in 1 .. (k - 1) : G[j] = D[j]
        /\ \A j \in i .. (e - 1) : G[j - (i - k)] = IF D[j] < k THEN D[j] ELSE D[j] - (i - k)
        /\ G[k + (e - i)] = D[k]
        /\ \A j \in (k + 1) .. (i - 1) : G[j + (e - i)] = D[j] + (e - i)
        /\ \A j \in e .. n : G[j] = D[j]
    BY SMTT(30), <1>6, TurnedWalkIs
  <1>8. /\ d \in Nat /\ d >= 1 /\ f \in Nat /\ f >= 1 /\ e = i + d /\ i = k + f /\ b = e - f
        /\ b \in (k + 1) .. n
    BY <1>2, <1>4
  <1>9. /\ \A j \in i .. (e - 1) : G[j - f] = IF D[j] < k THEN D[j] ELSE D[j] - f
        /\ G[b] = D[k]
        /\ \A j \in (k + 1) .. (i - 1) : G[j + d] = D[j] + d
        /\ \A j \in e .. n : G[j] = D[j]
    BY <1>7
  <1>10. D[k] \in Nat /\ D[k] < k
    BY <1>1, <1>2
  <1> HIDE DEF d, b, f
  <1>11. ASSUME NEW j \in (k + 1) .. (b - 1)
         PROVE  k <= G[j]
    <2> DEFINE l == j + f
    <2>1. l \in (i + 1) .. (e - 1) /\ l \in i .. (e - 1) /\ l \in 1 .. n /\ l - f = j
      BY <1>2, <1>4, <1>8
    <2> HIDE DEF l
    <2>2. i <= D[l] /\ D[l] \in Nat /\ G[j] = IF D[l] < k THEN D[l] ELSE D[l] - f
      BY <1>1, <1>4, <1>9, <2>1
    <2> QED
      BY <1>2, <1>8, <2>2
  <1>12. EndOf(G, n, k, b)
    <2>1. b \in (k + 1) .. (n + 1) /\ G[b] < k
      BY <1>8, <1>9, <1>10
    <2> QED
      BY <1>11, <2>1 DEF EndOf
  <1>13. ASSUME NEW j \in (b + 1) .. (e - 1)
         PROVE  b <= G[j]
    <2> DEFINE l == j - d
    <2>1. l \in (k + 1) .. (i - 1) /\ l \in 1 .. n /\ l + d = j
      BY <1>2, <1>4, <1>8 DEF b
    <2> HIDE DEF l
    <2>2. k <= D[l] /\ D[l] \in Nat /\ G[j] = D[l] + d
      BY <1>1, <1>3, <1>9, <2>1
    <2> QED
      BY <1>2, <1>8, <2>2 DEF b
  <1>14. EndOf(G, n, b, e)
    <2>1. e \in (b + 1) .. (n + 1)
      BY <1>2, <1>4, <1>8
    <2>2. ASSUME e <= n
          PROVE  G[e] < b
      <3>1. e \in e .. n /\ e \in 1 .. n
        BY <1>4, <2>2
      <3>2. G[e] = D[e] /\ D[e] \in Nat
        BY <1>1, <1>9, <3>1
      <3> QED
        BY <1>2, <1>5, <1>8, <1>10, <2>2, <3>2
    <2> QED
      BY <1>13, <2>1, <2>2 DEF EndOf
  <1>15. PreviousSibling(G, b, k)
    <2>1. i \in i .. (e - 1) /\ i - f = k
      BY <1>2, <1>4, <1>8
    <2>2. G[k] = D[k]
      BY <1>2, <1>9, <1>10, <2>1
    <2>3. \A j \in (k + 1) .. (b - 1) : G[j] # G[b]
      BY <1>2, <1>9, <1>10, <1>11
    <2>4. k \in 1 .. (b - 1)
      BY <1>2, <1>8
    <2> QED
      BY <1>9, <2>2, <2>3, <2>4 DEF PreviousSibling
  <1>16. b \in 1 .. n
    BY <1>2, <1>8
  <1> QED
    BY <1>12, <1>14, <1>15, <1>16 DEF b, d

\* There is only one previous sibling.
LEMMA PreviousUnique ==
    ASSUME NEW D, NEW i \in Nat, NEW k, NEW l, PreviousSibling(D, i, k), PreviousSibling(D, i, l)
    PROVE  k = l
  <1>1. k \in 1 .. (i - 1) /\ l \in 1 .. (i - 1) /\ D[k] = D[i] /\ D[l] = D[i]
    BY DEF PreviousSibling
  <1>2. k \notin (l + 1) .. (i - 1) /\ l \notin (k + 1) .. (i - 1)
    BY <1>1 DEF PreviousSibling
  <1> QED
    BY <1>1, <1>2

\* Two neighbouring siblings swapped, and swapped again.
LEMMA SwappedBack ==
    ASSUME NEW I, NEW T, NEW U, NEW es, Page(I, T, U, es), NEW D, Tree(es, D),
           NEW i \in 1 .. Len(es), NEW k, PreviousSibling(D, i, k),
           NEW e, EndOf(D, Len(es), i, e)
    PROVE  LET r == Rotated(es, k, i, e)
               b == k + (e - i)
           IN  /\ PositionOf(r, es[i].id) = k /\ PositionOf(r, es[k].id) = b
               /\ MovedDown(r, k) = es /\ MovedUp(r, b) = es
  <1> DEFINE n == Len(es)
             E == Entry(I, T, U)
             r == Rotated(es, k, i, e)
             b == k + (e - i)
             G == TurnedWalk(D, n, k, i, e, D[k])
  <1>1. TopLevel \notin I /\ es \in Seq(E) /\ n \in Nat /\ Walk(D, n)
    BY PageIs DEF Tree
  <1>2. k \in 1 .. (i - 1) /\ k \in 1 .. n /\ e \in (i + 1) .. (n + 1)
    BY <1>1 DEF PreviousSibling, EndOf
  <1>3. Turnable(D, n, k, i, e, D[k])
    BY <1>1, SwapTurns
  <1>4. /\ r \in Seq(E) /\ Len(r) = n /\ \A j \in 1 .. n : r[j] = es[Origin(k, i, e, j)]
        /\ Tree(r, G)
    BY <1>3, RotatedTree
  <1>5. /\ EndOf(G, n, k, b) /\ b \in 1 .. n /\ EndOf(G, n, b, e) /\ PreviousSibling(G, b, k)
    BY <1>1, SwappedEnds
  <1>6. Rotated(r, k, b, e) = es
    <2>1. i \in (k + 1) .. (Len(es) + 1) /\ e \in (i + 1) .. (Len(es) + 1)
      BY <1>2
    <2> HIDE DEF E
    <2> QED
      BY <1>1, <1>2, <2>1, RotatedBack
  <1>7. Origin(k, i, e, k) = i /\ Origin(k, i, e, b) = k
    <2>1. Origin(k, i, e, k) = i
      BY <1>1, <1>2 DEF Origin
    <2>2. Origin(k, i, e, b) = k
      BY <1>1, <1>2 DEF Origin
    <2> QED
      BY <2>1, <2>2
  <1> HIDE DEF r, b, G, E
  <1>8. Len(r) \in Nat /\ DOMAIN r = 1 .. Len(r) /\ Named(r) /\ G \in [1 .. n -> Nat]
    BY <1>1, <1>4, LenProperties DEF Tree, Walk
  <1>9. r[k] = es[i] /\ r[b] = es[k]
    BY <1>2, <1>4, <1>5, <1>7
  <1>10. PositionOf(r, es[i].id) = k /\ PositionOf(r, es[k].id) = b
    <2>1. PositionOf(r, r[k].id) = k /\ PositionOf(r, r[b].id) = b
      BY <1>2, <1>4, <1>5, <1>8, FoundAt
    <2> QED
      BY <1>9, <2>1
  <1>11. SubtreeEnd(r, k) = b /\ SubtreeEnd(r, b) = e
    <2>1. EndOf(G, Len(r), k, SubtreeEnd(r, k)) /\ EndOf(G, Len(r), b, SubtreeEnd(r, b))
      BY <1>2, <1>4, <1>5, <1>8, SubtreeEndIs
    <2> QED
      BY <1>1, <1>2, <1>4, <1>5, <1>8, <2>1, EndUnique
  <1>12. Max(EarlierSiblings(r, b)) = k
    <2>1. r[k].parent = r[b].parent /\ k \in 1 .. (b - 1)
      BY <1>2, <1>4, <1>5, <1>8, SameParent DEF PreviousSibling
    <2>2. EarlierSiblings(r, b) # {}
      BY <2>1 DEF EarlierSiblings
    <2>3. PreviousSibling(G, b, Max(EarlierSiblings(r, b)))
      BY <1>4, <1>5, <1>8, <2>2, PreviousIs
    <2>4. b \in Nat
      BY <1>5
    <2> QED
      BY <1>5, <2>3, <2>4, PreviousUnique
  <1>13. MovedDown(r, k) = es
    BY <1>6, <1>11 DEF MovedDown
  <1>14. MovedUp(r, b) = es
    BY <1>6, <1>11, <1>12 DEF MovedUp
  <1> QED
    BY <1>10, <1>13, <1>14 DEF r, b
-----------------------------------------------------------------------------
\* Down takes back up.
LEMMA MovedUpBack ==
    ASSUME NEW I, NEW T, NEW U, NEW es, Page(I, T, U, es), NEW i \in 1 .. Len(es), CanMoveUp(es, i)
    PROVE  LET r == MovedUp(es, i) IN MovedDown(r, PositionOf(r, es[i].id)) = es
  <1> DEFINE n == Len(es)
             k == Max(EarlierSiblings(es, i))
             e == SubtreeEnd(es, i)
  <1>1. n \in Nat
    BY PageIs
  <1>2. PICK D : Tree(es, D)
    BY DEF Page
  <1>3. PreviousSibling(D, i, k)
    BY <1>1, <1>2, PreviousIs DEF CanMoveUp
  <1>4. EndOf(D, n, i, e)
    BY <1>1, <1>2, SubtreeEndIs
  <1>5. MovedUp(es, i) = Rotated(es, k, i, e)
    BY DEF MovedUp
  <1> HIDE DEF k, e
  <1>6. PositionOf(Rotated(es, k, i, e), es[i].id) = k /\ MovedDown(Rotated(es, k, i, e), k) = es
    BY <1>2, <1>3, <1>4, SwappedBack
  <1> QED
    BY <1>5, <1>6

\* Up takes back down.
LEMMA MovedDownBack ==
    ASSUME NEW I, NEW T, NEW U, NEW es, Page(I, T, U, es), NEW i \in 1 .. Len(es), CanMoveDown(es, i)
    PROVE  LET r == MovedDown(es, i) IN MovedUp(r, PositionOf(r, es[i].id)) = es
  <1> DEFINE n == Len(es)
             e == SubtreeEnd(es, i)
             y == SubtreeEnd(es, e)
  <1>1. n \in Nat
    BY PageIs
  <1>2. PICK D : Tree(es, D)
    BY DEF Page
  <1>3. EndOf(D, n, i, e)
    BY <1>1, <1>2, SubtreeEndIs
  <1>4. e <= n /\ es[e].parent = es[i].parent
    BY DEF CanMoveDown
  <1>5. MovedDown(es, i) = Rotated(es, i, e, y)
    BY DEF MovedDown
  <1> HIDE DEF e
  <1>6. e \in 1 .. n /\ PreviousSibling(D, e, i)
    BY <1>1, <1>2, <1>3, <1>4, NextSibling
  <1>7. EndOf(D, n, e, y)
    BY <1>1, <1>2, <1>6, SubtreeEndIs
  <1> DEFINE b == i + (y - e)
  <1> HIDE DEF y
  <1>8. PositionOf(Rotated(es, i, e, y), es[i].id) = b /\ MovedUp(Rotated(es, i, e, y), b) = es
    BY <1>2, <1>6, <1>7, SwappedBack
  <1> QED
    BY <1>5, <1>8

\* An indented entry ends where its new parent ends.
LEMMA IndentedEnds ==
    ASSUME NEW n \in Nat, NEW D, Walk(D, n), NEW i \in 1 .. n, NEW k, PreviousSibling(D, i, k),
           NEW e, EndOf(D, n, i, e), NEW G, \A j \in 1 .. n : j # i => G[j] = D[j], G[i] = k
    PROVE  EndOf(G, n, i, e) /\ EndOf(G, n, k, e)
  <1>1. D \in [1 .. n -> Nat] /\ \A j \in 1 .. n : D[j] \in Nat /\ D[j] < j
    BY DEF Walk
  <1>2. k \in 1 .. (i - 1) /\ D[k] = D[i] /\ k \in 1 .. n /\ D[k] < k /\ D[i] \in Nat
    BY <1>1 DEF PreviousSibling
  <1>3. EndOf(D, n, k, i)
    BY BetweenSiblings
  <1>4. /\ e \in (i + 1) .. (n + 1) /\ \A j \in (i + 1) .. (e - 1) : i <= D[j]
        /\ e <= n => D[e] < i
    BY DEF EndOf
  <1>5. \A j \in (k + 1) .. (i - 1) : k <= D[j]
    BY <1>3 DEF EndOf
  <1>6. e <= n => D[e] <= D[i]
    <2>1. Gap(D, n, e, D[i])
      BY SiblingGap
    <2> QED
      BY <1>1, <1>4, <2>1 DEF Gap
  <1>7. \A j \in (i + 1) .. (e - 1) : G[j] = D[j] /\ i <= G[j] /\ D[j] \in Nat
    BY <1>1, <1>4
  <1>8. e <= n => G[e] = D[e] /\ D[e] \in Nat
    BY <1>1, <1>4
  <1>9. EndOf(G, n, i, e)
    BY <1>2, <1>4, <1>6, <1>7, <1>8 DEF EndOf
  <1>10. ASSUME NEW j \in (k + 1) .. (e - 1)
         PROVE  k <= G[j]
    <2>1. CASE j < i
      <3>1. j \in 1 .. n /\ j # i /\ j \in (k + 1) .. (i - 1)
        BY <1>2, <1>4, <2>1
      <3> QED
        BY <1>5, <3>1
    <2>2. CASE j = i
      BY <1>2, <2>2
    <2>3. CASE i < j
      BY <1>2, <1>7, <2>3
    <2> QED
      BY <1>2, <2>1, <2>2, <2>3
  <1>11. EndOf(G, n, k, e)
    BY <1>1, <1>2, <1>4, <1>6, <1>8, <1>10 DEF EndOf
  <1> QED
    BY <1>9, <1>11

\* Outdent takes back an indent.
LEMMA IndentedBack ==
    ASSUME NEW I, NEW T, NEW U, NEW es, Page(I, T, U, es), NEW i \in 1 .. Len(es), CanIndent(es, i)
    PROVE  LET r == Indented(es, i) IN Outdented(r, PositionOf(r, es[i].id)) = es
  <1> DEFINE n == Len(es)
             E == Entry(I, T, U)
             k == Max(EarlierSiblings(es, i))
             r == [es EXCEPT ![i].parent = es[k].id]
             e == SubtreeEnd(es, i)
  <1>1. /\ TopLevel \notin I /\ n \in Nat /\ es \in Seq(E)
        /\ \A j \in 1 .. n : es[j] \in E /\ es[j].id \in I /\ es[j].parent \in I \cup {TopLevel}
    BY PageIs
  <1>2. PICK D : Tree(es, D)
    BY DEF Page
  <1>3. PreviousSibling(D, i, k)
    BY <1>1, <1>2, PreviousIs DEF CanIndent
  <1>4. r = Indented(es, i)
    BY DEF Indented
  <1>5. EndOf(D, n, i, e)
    BY <1>1, <1>2, SubtreeEndIs
  <1> HIDE DEF k, e
  <1> DEFINE G == [D EXCEPT ![i] = k]
  <1>6. IndentedAs(E, es, i, k, r) /\ Tree(r, G)
    BY <1>2, <1>3, IndentedTree
  <1>7. Walk(D, n) /\ D \in [1 .. n -> Nat]
    BY <1>2 DEF Tree, Walk
  <1>8. G[i] = k /\ \A j \in 1 .. n : j # i => G[j] = D[j]
    BY <1>7
  <1> HIDE DEF r, G, E
  <1>9. /\ r \in Seq(E) /\ Len(r) = n /\ \A j \in 1 .. n : j # i => r[j] = es[j]
        /\ r[i] = WithParent(es[i], es[k].id)
    BY <1>6 DEF IndentedAs
  <1>10. k \in 1 .. (i - 1) /\ k \in 1 .. n /\ D[k] = D[i]
    BY <1>1, <1>3 DEF PreviousSibling
  <1>11. /\ r[i].id = es[i].id /\ r[i].parent = es[k].id /\ r[k] = es[k]
         /\ WithParent(r[i], es[i].parent) = es[i]
    <2>1. es[i] \in Entry(I, T, U) /\ es[k].id \in I \cup {TopLevel}
      BY <1>1, <1>10 DEF E
    <2> QED
      BY <1>9, <1>10, <2>1, WithParentIs
  <1>12. Page(I, T, U, r)
    BY <1>1, <1>6, <1>9 DEF Page, E
  <1>13. DOMAIN r = 1 .. Len(r) /\ Named(r)
    BY <1>6, <1>12, PageIs DEF Tree
  <1>14. PositionOf(r, es[i].id) = i
    BY <1>9, <1>11, <1>13, FoundAt
  <1>15. CanOutdent(r, i)
    BY <1>1, <1>10, <1>11 DEF CanOutdent
  <1>16. EndOf(G, n, i, e) /\ EndOf(G, n, k, e)
    BY <1>1, <1>3, <1>5, <1>7, <1>8, IndentedEnds
  <1>17. SubtreeEnd(r, i) = e /\ SubtreeEnd(r, k) = e
    <2>1. EndOf(G, n, i, SubtreeEnd(r, i)) /\ EndOf(G, n, k, SubtreeEnd(r, k))
      BY <1>1, <1>6, <1>9, <1>10, SubtreeEndIs
    <2>2. G \in [1 .. n -> Nat]
      BY <1>6, <1>9 DEF Tree, Walk
    <2> QED
      BY <1>1, <1>10, <1>16, <2>1, <2>2, EndUnique
  <1>18. GrandParent(r, i) = r[G[i]].parent /\ Outdented(r, i) \in Seq(E)
         /\ Behind(r, i, SubtreeEnd(r, i), SubtreeEnd(r, G[i]), GrandParent(r, i), Outdented(r, i))
    <2>1. i \in 1 .. Len(r)
      BY <1>9
    <2> QED
      BY <1>6, <1>12, <1>15, <2>1, OutdentedIs DEF E
  <1>19. GrandParent(r, i) = es[i].parent
    BY <1>1, <1>2, <1>8, <1>10, <1>11, <1>18, SameParent
  <1>20. Behind(r, i, e, e, es[i].parent, Outdented(r, i))
    BY <1>8, <1>17, <1>18, <1>19
  <1>21. e \in (i + 1) .. (n + 1)
    BY <1>5 DEF EndOf
  <1> DEFINE s == Outdented(r, i)
  <1> HIDE DEF s
  <1>22. Len(s) = n
    BY <1>9, <1>20 DEF Behind, s
  <1>23. ASSUME NEW j \in 1 .. n
         PROVE  s[j] = es[j]
    <2>1. Origin(i, e, e, j) = j
      BY <1>1, <1>21 DEF Origin
    <2>2. s[j] = IF j # i THEN r[j] ELSE WithParent(r[i], es[i].parent)
      BY <1>9, <1>20, <2>1 DEF Behind, s
    <2> QED
      BY <1>9, <1>11, <2>2
  <1>24. s = es
    BY <1>1, <1>18, <1>22, <1>23, SameEntries DEF s
  <1> QED
    BY <1>4, <1>14, <1>24 DEF s
-----------------------------------------------------------------------------
\* What is below one of the given identifiers lies in the subtree of its entry.
LEMMA BelowInSubtree ==
    ASSUME NEW es, Len(es) \in Nat, NEW D, Tree(es, D), NEW ids, TopLevel \notin ids,
           NEW i \in BelowAny(es, ids)
    PROVE  \E k \in 1 .. Len(es) : es[k].id \in ids /\ k < i /\ i < SubtreeEnd(es, k)
  <1> DEFINE n == Len(es)
             B == BelowAny(es, ids)
             In(j) == \E k \in 1 .. n : es[k].id \in ids /\ k < j /\ j < SubtreeEnd(es, k)
             N == {j \in B : ~In(j)}
  <1>1. B \subseteq 1 .. n
    BY BelowAnyIs
  <1>2. /\ D \in [1 .. n -> Nat] /\ \A j \in 1 .. n : D[j] \in Nat /\ D[j] < j
        /\ \A l, j \in 1 .. n : D[l] < j /\ j <= l => D[l] <= D[j]
    BY DEF Tree, Walk
  <1>3. SUFFICES ASSUME ~In(i)
                 PROVE  FALSE
    OBVIOUS
  <1>4. N \in SUBSET Nat /\ N # {}
    BY <1>1, <1>3
  <1>5. PICK j \in N : \A l \in N : j <= l
    BY <1>4, LeastNumber
  <1>6. j \in 1 .. n /\ j \in B /\ ~In(j)
    BY <1>1, <1>5
  <1>7. es[j].parent \in ids \/ \E k \in B : k < j /\ es[j].parent = es[k].id
    BY <1>6, BelowAnyIs
  <1>8. D[j] \in 1 .. n /\ es[j].parent = es[D[j]].id
    <2>1. D[j] \in 0 .. (j - 1) /\ es[j].parent = IF D[j] = 0 THEN TopLevel ELSE es[D[j]].id
      BY <1>6, ParentIs
    <2>2. D[j] # 0
      BY <1>1, <1>7, <2>1 DEF Tree, Named
    <2> QED
      BY <1>6, <2>1, <2>2
  <1> DEFINE p == D[j]
  <1>9. ASSUME NEW k \in 1 .. n, es[k].id \in ids, k <= p, p < SubtreeEnd(es, k)
        PROVE  FALSE
    <2> DEFINE e == SubtreeEnd(es, k)
    <2>1. EndOf(D, n, k, e)
      BY SubtreeEndIs
    <2> HIDE DEF e
    <2>2. e \in (k + 1) .. (n + 1) /\ (e <= n => D[e] < k)
      BY <2>1 DEF EndOf
    <2>3. j < e
      <3>1. ASSUME e <= j
            PROVE  FALSE
        <4>1. e \in 1 .. n /\ p < e
          BY <1>6, <1>9, <2>2, <3>1 DEF e
        <4>2. p <= D[e] /\ D[e] < k /\ D[e] \in Nat
          BY <1>2, <1>6, <2>2, <3>1, <4>1
        <4> QED
          BY <1>8, <1>9, <4>2
      <3> QED
        BY <1>6, <2>2, <3>1
    <2>4. k < j
      BY <1>2, <1>6, <1>8, <1>9
    <2> QED
      BY <1>6, <1>9, <2>3, <2>4 DEF e
  <1>10. CASE es[j].parent \in ids
    <2>1. EndOf(D, n, p, SubtreeEnd(es, p))
      BY <1>8, SubtreeEndIs
    <2>2. p < SubtreeEnd(es, p)
      BY <1>8, <2>1 DEF EndOf
    <2> QED
      BY <1>8, <1>9, <1>10, <2>2
  <1>11. CASE \E k \in B : k < j /\ es[j].parent = es[k].id
    <2>1. p \in B /\ p < j
      BY <1>1, <1>2, <1>6, <1>8, <1>11 DEF Tree, Named
    <2>2. p \notin N
      BY <1>1, <1>5, <2>1
    <2>3. PICK k \in 1 .. n : es[k].id \in ids /\ k < p /\ p < SubtreeEnd(es, k)
      BY <2>1, <2>2
    <2> QED
      BY <1>8, <1>9, <2>3
  <1> QED
    BY <1>7, <1>10, <1>11

\* And what lies in the subtree of such an entry is below it.
LEMMA SubtreeIsBelow ==
    ASSUME NEW es, Len(es) \in Nat, NEW D, Tree(es, D), NEW ids,
           NEW k \in 1 .. Len(es), es[k].id \in ids,
           NEW i \in 1 .. Len(es), k < i, i < SubtreeEnd(es, k)
    PROVE  i \in BelowAny(es, ids)
  <1> DEFINE n == Len(es)
             B == BelowAny(es, ids)
             e == SubtreeEnd(es, k)
             N == {j \in (k + 1) .. (e - 1) : j \notin B}
  <1>1. D \in [1 .. n -> Nat] /\ \A j \in 1 .. n : D[j] \in Nat /\ D[j] < j
    BY DEF Tree, Walk
  <1>2. EndOf(D, n, k, e)
    BY SubtreeEndIs
  <1>3. e \in (k + 1) .. (n + 1) /\ \A j \in (k + 1) .. (e - 1) : k <= D[j]
    BY <1>2 DEF EndOf
  <1>4. i \in (k + 1) .. (e - 1)
    BY <1>3
  <1> HIDE DEF e
  <1>5. SUFFICES ASSUME i \notin B
                 PROVE  FALSE
    OBVIOUS
  <1>6. N \in SUBSET Nat /\ N # {}
    BY <1>3, <1>4, <1>5
  <1>7. PICK j \in N : \A l \in N : j <= l
    BY <1>6, LeastNumber
  <1>8. j \in (k + 1) .. (e - 1) /\ j \in 1 .. n /\ j \notin B
    BY <1>3, <1>7
  <1> DEFINE p == D[j]
  <1>9. p \in 1 .. n /\ k <= p /\ p < j /\ es[j].parent = es[p].id
    <2>1. k <= p /\ p \in Nat /\ p < j
      BY <1>1, <1>3, <1>8
    <2>2. es[j].parent = IF D[j] = 0 THEN TopLevel ELSE es[D[j]].id
      BY <1>8, ParentIs
    <2> QED
      BY <1>8, <2>1, <2>2
  <1> HIDE DEF p
  <1>10. CASE p = k
    <2>1. es[j].parent \in ids
      BY <1>9, <1>10
    <2> QED
      BY <1>8, <2>1, BelowAnyIs
  <1>11. CASE p # k
    <2>1. p \in (k + 1) .. (e - 1)
      BY <1>3, <1>8, <1>9, <1>11
    <2>2. p \notin N
      BY <1>7, <1>8, <1>9, <2>1
    <2>3. p \in B
      BY <2>1, <2>2
    <2> QED
      BY <1>8, <1>9, <2>3, BelowAnyIs
  <1> QED
    BY <1>10, <1>11

\* What is left of a Page when a selection is deleted.
LEMMA WithoutSubtreesIs ==
    ASSUME NEW I, NEW T, NEW U, NEW es, Page(I, T, U, es), NEW ids \in SUBSET Ids(es)
    PROVE  LET r     == WithoutSubtrees(es, ids)
               left  == {i \in DOMAIN es : es[i].id \in Ids(r)}
               at(i) == PositionOf(r, es[i].id)
           IN  /\ left = {i \in DOMAIN es : /\ es[i].id \notin ids
                                            /\ \A k \in DOMAIN es : es[k].id \in ids =>
                                                  ~(k < i /\ i < SubtreeEnd(es, k))}
               /\ Ids(r) \subseteq Ids(es)
               /\ \A i \in left : /\ r[at(i)] = es[i]
                                  /\ \A k \in left : i < k => at(i) < at(k)
  <1> DEFINE E == Entry(I, T, U)
             n == Len(es)
             B == BelowAny(es, ids)
             r == WithoutSubtrees(es, ids)
             m == Len(r)
  <1>1. TopLevel \notin I /\ es \in Seq(E) /\ n \in Nat /\ DOMAIN es = 1 .. n
    BY PageIs
  <1>2. PICK D : Tree(es, D)
    BY DEF Page
  <1>3. Named(es) /\ TopLevel \notin ids
    BY <1>1, <1>2 DEF Tree, Named, Ids
  <1>4. r = Remaining(es, Gone(es, ids))
    BY DEF WithoutSubtrees, Gone
  <1>5. Page(I, T, U, r)
    BY WithoutSubtreesPage
  <1> HIDE DEF E, r
  <1>6. m \in Nat /\ DOMAIN r = 1 .. m /\ Named(r)
    BY <1>5, PageIs DEF Page, Tree
  <1>7. Selected(E, es, Gone(es, ids), r, n)
    BY <1>1, <1>4, RemainingIs
  <1>8. PICK s : Selection(es, Gone(es, ids), r, n, m, s)
    BY <1>7 DEF Selected
  <1>9. /\ s \in [0 .. m -> 0 .. n] /\ s[0] = 0
        /\ \A i, j \in 0 .. m : i < j => s[i] < s[j]
        /\ \A j \in 1 .. m : r[j] = es[s[j]] /\ es[s[j]].id \notin Gone(es, ids)
        /\ \A i \in 1 .. n : es[i].id \notin Gone(es, ids) => \E j \in 1 .. m : s[j] = i
    BY <1>8 DEF Selection
  <1>10. ASSUME NEW j \in 1 .. m
         PROVE  s[j] \in 1 .. n
    <2>1. 0 \in 0 .. m /\ j \in 0 .. m /\ 0 < j
      BY <1>6
    <2>2. s[0] < s[j] /\ s[j] \in 0 .. n
      BY <1>9, <2>1
    <2> QED
      BY <1>1, <1>9, <2>2
  <1>11. ASSUME NEW i \in 1 .. n
         PROVE  es[i].id \in Ids(r) <=> es[i].id \notin Gone(es, ids)
    <2>1. ASSUME es[i].id \in Ids(r)
          PROVE  es[i].id \notin Gone(es, ids)
      <3>1. PICK j \in 1 .. m : r[j].id = es[i].id
        BY <1>6, <2>1 DEF Ids
      <3> QED
        BY <1>9, <3>1
    <2>2. ASSUME es[i].id \notin Gone(es, ids)
          PROVE  es[i].id \in Ids(r)
      <3>1. PICK j \in 1 .. m : s[j] = i
        BY <1>9, <2>2
      <3> QED
        BY <1>6, <1>9, <3>1 DEF Ids
    <2> QED
      BY <2>1, <2>2
  <1>12. ASSUME NEW i \in 1 .. n
         PROVE  es[i].id \in Gone(es, ids) <=>
                   \/ es[i].id \in ids
                   \/ \E k \in 1 .. n : es[k].id \in ids /\ k < i /\ i < SubtreeEnd(es, k)
    <2>1. es[i].id \in Gone(es, ids) <=> es[i].id \in ids \/ i \in B
      <3>1. B \subseteq 1 .. n
        BY <1>1, BelowAnyIs
      <3> HIDE DEF B
      <3> QED
        BY <1>3, <3>1 DEF Gone, Named, B
    <2>2. i \in B => \E k \in 1 .. n : es[k].id \in ids /\ k < i /\ i < SubtreeEnd(es, k)
      BY <1>1, <1>2, <1>3, BelowInSubtree
    <2>3. (\E k \in 1 .. n : es[k].id \in ids /\ k < i /\ i < SubtreeEnd(es, k)) => i \in B
      BY <1>1, <1>2, SubtreeIsBelow
    <2> QED
      BY <2>1, <2>2, <2>3
  <1>13. ASSUME NEW i \in 1 .. n, es[i].id \in Ids(r)
         PROVE  \E j \in 1 .. m : s[j] = i /\ PositionOf(r, es[i].id) = j /\ r[j] = es[i]
    <2>1. PICK j \in 1 .. m : s[j] = i
      BY <1>9, <1>11, <1>13
    <2>2. r[j] = es[i]
      BY <1>9, <2>1
    <2>3. PositionOf(r, r[j].id) = j
      BY <1>6, FoundAt
    <2> QED
      BY <2>1, <2>2, <2>3
  <1>14. ASSUME NEW i \in 1 .. n, NEW k \in 1 .. n, es[i].id \in Ids(r), es[k].id \in Ids(r), i < k
         PROVE  PositionOf(r, es[i].id) < PositionOf(r, es[k].id)
    <2>1. PICK j \in 1 .. m : s[j] = i /\ PositionOf(r, es[i].id) = j
      BY <1>13, <1>14
    <2>2. PICK l \in 1 .. m : s[l] = k /\ PositionOf(r, es[k].id) = l
      BY <1>13, <1>14
    <2>3. j \in 0 .. m /\ l \in 0 .. m
      BY <1>6
    <2>4. ~(l < j) /\ l # j
      BY <1>9, <1>14, <2>1, <2>2, <2>3
    <2> QED
      BY <1>6, <2>1, <2>2, <2>4
  <1>15. Ids(r) \subseteq Ids(es)
    BY <1>1, <1>6, <1>9, <1>10 DEF Ids
  <1>16. {i \in DOMAIN es : es[i].id \in Ids(r)}
          = {i \in DOMAIN es : /\ es[i].id \notin ids
                               /\ \A k \in DOMAIN es : es[k].id \in ids =>
                                     ~(k < i /\ i < SubtreeEnd(es, k))}
    BY <1>1, <1>11, <1>12
  <1>17. \A i \in DOMAIN es : es[i].id \in Ids(r) => r[PositionOf(r, es[i].id)] = es[i]
    BY <1>1, <1>13
  <1>18. \A i, k \in DOMAIN es : es[i].id \in Ids(r) /\ es[k].id \in Ids(r) /\ i < k =>
            PositionOf(r, es[i].id) < PositionOf(r, es[k].id)
    BY <1>1, <1>14
  <1> QED
    BY <1>15, <1>16, <1>17, <1>18 DEF r
-----------------------------------------------------------------------------
\* The texts so far, one after the other.
Flattened(A, s, g) ==
    /\ g \in [0 .. Len(s) -> Seq(A)] /\ g[0] = <<>>
    /\ \A m \in 1 .. Len(s) : g[m] = g[m - 1] \o s[m]

\* What the recursion of FlattenSeq defines.
FlattenSteps(s, f) == f = [i \in 1 .. Len(s) |-> IF i = 1 THEN s[i] ELSE f[i - 1] \o s[i]]

\* FlattenSeq is the last of them.
LEMMA FlattenIs ==
    ASSUME NEW A, NEW s \in Seq(Seq(A))
    PROVE  \E g : Flattened(A, s, g) /\ FlattenSeq(s) = g[Len(s)]
  <1> DEFINE n == Len(s)
             B == Seq(A)
             F == [m \in 1 .. n |-> [v \in B |-> v \o s[m]]]
             c == CHOOSE f : FlattenSteps(s, f)
  <1>1. n \in Nat /\ \A m \in 1 .. n : s[m] \in B
    OBVIOUS
  <1>2. \A m \in 1 .. n : \A v \in B : F[m][v] = v \o s[m]
    OBVIOUS
  <1>3. StepsIn(B, F, n)
    <2>1. \A m \in 1 .. n : \A v \in B : v \o s[m] \in B
      BY <1>1, ConcatProperties
    <2> HIDE DEF F, B
    <2> QED
      BY <1>2, <2>1 DEF StepsIn
  <1>4. <<>> \in B
    OBVIOUS
  <1>5. \A m \in 1 .. n : <<>> \o s[m] = s[m]
    BY <1>1, ConcatEmptySeq
  <1> HIDE DEF B, F, n
  <1>6. PICK g : StepsFrom(B, <<>>, F, n, g)
    BY <1>1, <1>3, <1>4, StepsExist
  <1>7. /\ g \in [0 .. n -> B] /\ g[0] = <<>>
        /\ \A m \in 1 .. n : m - 1 \in 0 .. n /\ g[m] = g[m - 1] \o s[m]
    <2>1. g \in [0 .. n -> B] /\ g[0] = <<>> /\ \A m \in 1 .. n : g[m] = F[m][g[m - 1]]
      BY <1>6 DEF StepsFrom
    <2>2. \A m \in 1 .. n : m - 1 \in 0 .. n
      BY <1>1
    <2> QED
      BY <1>2, <2>1, <2>2
  <1>8. Flattened(A, s, g)
    BY <1>7 DEF Flattened, n, B
  <1>9. CASE n = 0
    <2>1. FlattenSeq(s) = s
      BY <1>9 DEF FlattenSeq, n
    <2>2. s = <<>>
      BY <1>9 DEF n
    <2> QED
      BY <1>7, <1>8, <1>9, <2>1, <2>2 DEF n
  <1>10. CASE n # 0
    <2> DEFINE f == [i \in 1 .. n |-> g[i]]
    <2>1. \A i \in 1 .. n : i # 1 => i - 1 \in 1 .. n
      BY <1>1
    <2>2. \A i \in 1 .. n : f[i] = g[i]
      OBVIOUS
    <2> HIDE DEF f
    <2>3. \A i \in 1 .. n : g[i] = IF i = 1 THEN s[i] ELSE f[i - 1] \o s[i]
      <3>1. ASSUME NEW i \in 1 .. n, i = 1
            PROVE  g[i] = s[i]
        <4>1. i - 1 = 0
          BY <3>1
        <4> QED
          BY <1>5, <1>7, <4>1
      <3>2. ASSUME NEW i \in 1 .. n, i # 1
            PROVE  g[i] = f[i - 1] \o s[i]
        BY <1>7, <2>1, <2>2, <3>2
      <3> QED
        BY <3>1, <3>2
    <2>4. f = [i \in 1 .. n |-> IF i = 1 THEN s[i] ELSE f[i - 1] \o s[i]]
      BY <2>3 DEF f
    <2>5. FlattenSteps(s, f)
      BY <2>4 DEF FlattenSteps, n
    <2>6. FlattenSteps(s, c)
      BY <2>5
    <2>7. FlattenSeq(s) = c[n]
      BY <1>10 DEF FlattenSeq, FlattenSteps, n
    <2> HIDE DEF c
    <2>8. \A i \in 1 .. n : c[i] = IF i = 1 THEN s[i] ELSE c[i - 1] \o s[i]
      <3> DEFINE body(i) == IF i = 1 THEN s[i] ELSE c[i - 1] \o s[i]
      <3>1. c = [i \in 1 .. n |-> body(i)]
        BY <2>6 DEF FlattenSteps, n
      <3> HIDE DEF body
      <3>2. \A i \in 1 .. n : c[i] = body(i)
        BY <3>1
      <3> QED
        BY <3>2 DEF body
    <2> DEFINE I == {m \in Nat : m \in 1 .. n => c[m] = g[m]}
    <2>9. 0 \in I
      OBVIOUS
    <2>10. ASSUME NEW m \in Nat, m \in I
           PROVE  m + 1 \in I
      <3>1. ASSUME m + 1 \in 1 .. n
            PROVE  c[m + 1] = g[m + 1]
        <4> DEFINE i == m + 1
        <4>1. i \in 1 .. n /\ i - 1 = m /\ (i # 1 => m \in 1 .. n)
          <5>1. m + 1 \in 1 .. n /\ (m + 1) - 1 = m
            BY <3>1
          <5>2. m # 0 => m \in 1 .. n
            BY <1>1, <5>1
          <5>3. m + 1 # 1 => m # 0
            OBVIOUS
          <5> QED
            BY <5>1, <5>2, <5>3
        <4> HIDE DEF i
        <4>2. c[i] = g[i]
          <5>1. CASE i = 1
            <6>1. m = 0
              BY <4>1, <5>1
            <6>2. c[i] = s[i]
              BY <2>8, <4>1, <5>1
            <6>3. g[i] = <<>> \o s[i]
              BY <1>7, <4>1, <6>1
            <6> QED
              BY <1>5, <4>1, <6>2, <6>3
          <5>2. CASE i # 1
            BY <1>7, <2>8, <2>10, <4>1, <5>2
          <5> QED
            BY <5>1, <5>2
        <4> QED
          BY <4>2 DEF i
      <3> QED
        BY <3>1
    <2>11. \A m \in Nat : m \in I
      <3> HIDE DEF I
      <3> QED
        BY <2>9, <2>10, IndexInduction
    <2>12. n \in 1 .. n
      BY <1>1, <1>10
    <2>13. c[n] = g[n]
      BY <1>1, <2>11, <2>12
    <2> QED
      BY <1>8, <2>7, <2>13 DEF n
  <1> QED
    BY <1>9, <1>10

\* Of two neighbours in t, one in s.
Merged(A, s, t, x) ==
    /\ s \in Seq(Seq(A)) /\ t \in Seq(Seq(A)) /\ Len(t) = Len(s) + 1
    /\ x \in 2 .. Len(t)
    /\ \A j \in 1 .. (x - 2) : t[j] = s[j]
    /\ s[x - 1] = t[x - 1] \o t[x]
    /\ \A j \in x .. Len(s) : t[j + 1] = s[j]

\* That changes nothing in what they make together.
LEMMA MergedFlat ==
    ASSUME NEW A, NEW s, NEW t, NEW x, Merged(A, s, t, x)
    PROVE  FlattenSeq(t) = FlattenSeq(s)
  <1> DEFINE n == Len(s)
  <1>1. s \in Seq(Seq(A)) /\ t \in Seq(Seq(A))
    BY DEF Merged
  <1>2. n \in Nat /\ Len(t) = n + 1 /\ x \in 2 .. (n + 1)
    BY DEF Merged
  <1>3. /\ \A j \in 1 .. (x - 2) : t[j] = s[j]
        /\ s[x - 1] = t[x - 1] \o t[x]
        /\ \A j \in x .. n : t[j + 1] = s[j]
    BY DEF Merged
  <1>4. PICK g : Flattened(A, s, g) /\ FlattenSeq(s) = g[Len(s)]
    BY <1>1, FlattenIs
  <1>5. PICK h : Flattened(A, t, h) /\ FlattenSeq(t) = h[Len(t)]
    BY <1>1, FlattenIs
  <1>6. /\ g[0] = <<>> /\ \A m \in 1 .. n : g[m] = g[m - 1] \o s[m]
    BY <1>4 DEF Flattened
  <1>7. /\ h \in [0 .. (n + 1) -> Seq(A)] /\ h[0] = <<>>
        /\ \A m \in 1 .. (n + 1) : h[m] = h[m - 1] \o t[m]
    BY <1>2, <1>5 DEF Flattened
  <1>8. \A m \in 1 .. (n + 1) : t[m] \in Seq(A)
    BY <1>1, <1>2
  <1> HIDE DEF n
  <1> DEFINE I == {m \in Nat : m <= x - 2 => h[m] = g[m]}
  <1>9. \A m \in Nat : m \in I
    <2>1. 0 \in I
      BY <1>6, <1>7
    <2>2. ASSUME NEW m \in Nat, m \in I
          PROVE  m + 1 \in I
      <3>1. ASSUME m + 1 <= x - 2
            PROVE  h[m + 1] = g[m + 1]
        <4> DEFINE i == m + 1
        <4>1. i \in 1 .. n /\ i \in 1 .. (n + 1) /\ i \in 1 .. (x - 2) /\ i - 1 = m /\ m <= x - 2
          BY <1>2, <3>1
        <4> HIDE DEF i
        <4>2. h[i] = g[i]
          BY <1>3, <1>6, <1>7, <2>2, <4>1
        <4> QED
          BY <4>2 DEF i
      <3> QED
        BY <3>1
    <2> HIDE DEF I
    <2> QED
      BY <2>1, <2>2, IndexInduction
  <1>10. h[x] = g[x - 1]
    <2> DEFINE y == x - 1
               z == x - 2
    <2>1. /\ x \in 1 .. (n + 1) /\ y \in 1 .. n /\ y \in 1 .. (n + 1) /\ z \in Nat
          /\ z \in 0 .. (n + 1) /\ z <= x - 2 /\ x - 1 = y /\ y - 1 = z
      BY <1>2
    <2> HIDE DEF y, z
    <2>2. h[x] = h[y] \o t[x] /\ h[y] = h[z] \o t[y] /\ g[y] = g[z] \o s[y]
      BY <1>6, <1>7, <2>1
    <2>3. h[z] = g[z]
      BY <1>9, <2>1
    <2>4. h[z] \in Seq(A) /\ t[y] \in Seq(A) /\ t[x] \in Seq(A)
      BY <1>7, <1>8, <2>1
    <2>5. (h[z] \o t[y]) \o t[x] = h[z] \o (t[y] \o t[x])
      <3> DEFINE u == h[z]
                 v == t[y]
                 w == t[x]
      <3>1. u \in Seq(A) /\ v \in Seq(A) /\ w \in Seq(A)
        BY <2>4
      <3> HIDE DEF u, v, w
      <3>2. (u \o v) \o w = u \o (v \o w)
        BY <3>1, ConcatAssociative
      <3> QED
        BY <3>2 DEF u, v, w
    <2>6. s[y] = t[y] \o t[x]
      BY <1>3, <2>1
    <2> QED
      BY <2>1, <2>2, <2>3, <2>5, <2>6
  <1> DEFINE J == {m \in Nat : x - 1 <= m /\ m <= n => h[m + 1] = g[m]}
  <1>11. \A m \in Nat : m \in J
    <2>1. 0 \in J
      BY <1>2
    <2>2. ASSUME NEW m \in Nat, m \in J
          PROVE  m + 1 \in J
      <3>1. ASSUME x - 1 <= m + 1, m + 1 <= n
            PROVE  h[(m + 1) + 1] = g[m + 1]
        <4> DEFINE i == m + 1
                   k == i + 1
        <4>1. i \in 1 .. n /\ k \in 1 .. (n + 1) /\ k - 1 = i /\ i - 1 = m /\ m <= n
          BY <1>2, <3>1
        <4>2. CASE i = x - 1
          <5>1. k = x
            BY <1>2, <4>2
          <5> QED
            BY <1>10, <4>2, <5>1
        <4>3. CASE i # x - 1
          <5>1. i \in x .. n /\ x - 1 <= m
            BY <1>2, <3>1, <4>3
          <5>2. t[k] = s[i]
            BY <1>3, <5>1
          <5>3. h[i] = g[m]
            BY <2>2, <4>1, <5>1
          <5>4. h[k] = h[i] \o t[k] /\ g[i] = g[m] \o s[i]
            <6> HIDE DEF i, k
            <6> QED
              BY <1>6, <1>7, <4>1
          <5>5. h[k] = g[i]
            BY <5>2, <5>3, <5>4
          <5> QED
            BY <5>5
        <4> QED
          BY <4>2, <4>3
      <3> QED
        BY <3>1
    <2> HIDE DEF J
    <2> QED
      BY <2>1, <2>2, IndexInduction
  <1>12. h[n + 1] = g[n]
    BY <1>2, <1>11
  <1> QED
    BY <1>2, <1>4, <1>5, <1>12 DEF n
-----------------------------------------------------------------------------
\* The texts of the entries.
Texts(es) == [i \in DOMAIN es |-> es[i].text]

\* They are a sequence as long as the Page.
LEMMA TextsIs ==
    ASSUME NEW I, NEW T, NEW U, NEW es \in Seq(Entry(I, T, U))
    PROVE  /\ Texts(es) \in Seq(T) /\ Len(Texts(es)) = Len(es)
           /\ \A j \in 1 .. Len(es) : Texts(es)[j] = es[j].text /\ es[j].text \in T
  <1> DEFINE n == Len(es)
             t == Texts(es)
  <1>1. n \in Nat /\ DOMAIN es = 1 .. n /\ \A j \in 1 .. n : es[j] \in Entry(I, T, U)
    OBVIOUS
  <1>2. \A j \in 1 .. n : es[j].text \in T
    BY <1>1 DEF Entry
  <1>3. t = [j \in 1 .. n |-> es[j].text]
    BY <1>1 DEF Texts
  <1> HIDE DEF n, t
  <1>4. t \in [1 .. n -> T] /\ \A j \in 1 .. n : t[j] = es[j].text
    BY <1>2, <1>3
  <1>5. t \in Seq(T)
    BY <1>1, <1>4, SeqDef
  <1>6. Len(t) = n
    BY <1>1, <1>4, <1>5, LenProperties
  <1> QED
    BY <1>2, <1>4, <1>5, <1>6 DEF n, t

\* A stamped entry has the new text, every other one its own.
LEMMA StampedTexts ==
    ASSUME NEW I, NEW T, NEW U, NEW es, Page(I, T, U, es), NEW i \in 1 .. Len(es),
           NEW text \in T, NEW now \in U
    PROVE  LET r == Stamped(es, es[i].id, text, now)
           IN  /\ r \in Seq(Entry(I, T, U)) /\ Len(r) = Len(es) /\ r[i].text = text
               /\ \A j \in 1 .. Len(es) : j # i => r[j].text = es[j].text
  <1> DEFINE r == Stamped(es, es[i].id, text, now)
             id == es[i].id
  <1>1. /\ DOMAIN es = 1 .. Len(es) /\ \A j \in 1 .. Len(es) : es[j] \in Entry(I, T, U)
    BY PageIs
  <1>2. \A j \in 1 .. Len(es) : es[j].id = id <=> j = i
    BY DEF Page, Tree, Named
  <1>3. ASSUME NEW j \in 1 .. Len(es)
        PROVE  r[j] = IF es[j].id = id THEN [es[j] EXCEPT !.text = text, !.updated = now] ELSE es[j]
    BY <1>1 DEF Stamped
  <1>4. r[i].text = text
    BY <1>1, <1>3 DEF Entry
  <1>5. \A j \in 1 .. Len(es) : j # i => r[j].text = es[j].text
    BY <1>2, <1>3
  <1> HIDE DEF r
  <1>6. r \in Seq(Entry(I, T, U)) /\ Len(r) = Len(es)
    <2> HIDE DEF id
    <2>1. Stamped(es, id, text, now) \in Seq(Entry(I, T, U)) /\ Len(Stamped(es, id, text, now)) = Len(es)
      BY StampedPage
    <2> QED
      BY <2>1 DEF r, id
  <1> QED
    BY <1>4, <1>5, <1>6 DEF r

\* An entry without children ends where it stands.
LEMMA LeafEnds ==
    ASSUME NEW I, NEW T, NEW U, NEW es, Page(I, T, U, es), NEW i \in 1 .. Len(es)
    PROVE  /\ SubtreeEnd(es, i) \in (i + 1) .. (Len(es) + 1)
           /\ ~HasChildren(es, es[i].id) => SubtreeEnd(es, i) = i + 1
  <1> DEFINE n == Len(es)
             e == SubtreeEnd(es, i)
  <1>1. n \in Nat /\ DOMAIN es = 1 .. n
    BY PageIs
  <1>2. PICK D : Tree(es, D)
    BY DEF Page
  <1>3. EndOf(D, n, i, e)
    BY <1>1, <1>2, SubtreeEndIs
  <1> HIDE DEF e
  <1>4. e \in (i + 1) .. (n + 1) /\ \A j \in (i + 1) .. (e - 1) : i <= D[j]
    BY <1>3 DEF EndOf
  <1>5. ASSUME e # i + 1
        PROVE  HasChildren(es, es[i].id)
    <2> DEFINE j == i + 1
    <2>1. j \in 1 .. n /\ j \in (i + 1) .. (e - 1) /\ i \in 0 .. (j - 1) /\ i # 0
      BY <1>1, <1>4, <1>5
    <2> HIDE DEF j
    <2>2. D[j] \in 0 .. (j - 1) /\ es[j].parent = IF D[j] = 0 THEN TopLevel ELSE es[D[j]].id
      BY <1>1, <1>2, <2>1, ParentIs
    <2>3. D[j] = i
      BY <1>4, <2>1, <2>2 DEF j
    <2> QED
      BY <1>1, <2>1, <2>2, <2>3 DEF HasChildren
  <1> QED
    BY <1>4, <1>5 DEF e

\* What two sequences of texts make together stands one behind the other.
LEMMA FlattenedConcat ==
    ASSUME NEW A, NEW s \in Seq(Seq(A)), NEW t \in Seq(Seq(A))
    PROVE  /\ FlattenSeq(s) \in Seq(A)
           /\ FlattenSeq(s \o t) = FlattenSeq(s) \o FlattenSeq(t)
  <1> DEFINE n == Len(s)
             m == Len(t)
             r == s \o t
  <1>1. n \in Nat /\ m \in Nat
    OBVIOUS
  <1>2. /\ r \in Seq(Seq(A)) /\ Len(r) = n + m
        /\ \A i \in 1 .. (n + m) : r[i] = IF i <= n THEN s[i] ELSE t[i - n]
    BY ConcatProperties
  <1>3. PICK g : Flattened(A, s, g) /\ FlattenSeq(s) = g[n]
    BY FlattenIs
  <1>4. PICK f : Flattened(A, t, f) /\ FlattenSeq(t) = f[m]
    BY FlattenIs
  <1> HIDE DEF r
  <1>5. PICK h : Flattened(A, r, h) /\ FlattenSeq(r) = h[Len(r)]
    BY <1>2, FlattenIs
  <1>6. /\ g \in [0 .. n -> Seq(A)] /\ g[0] = <<>> /\ \A k \in 1 .. n : g[k] = g[k - 1] \o s[k]
    BY <1>3 DEF Flattened
  <1>7. /\ f \in [0 .. m -> Seq(A)] /\ f[0] = <<>> /\ \A k \in 1 .. m : f[k] = f[k - 1] \o t[k]
    BY <1>4 DEF Flattened
  <1>8. h[0] = <<>> /\ \A k \in 1 .. (n + m) : h[k] = h[k - 1] \o r[k]
    BY <1>2, <1>5 DEF Flattened
  <1>9. \A k \in 1 .. m : t[k] \in Seq(A)
    OBVIOUS
  <1> HIDE DEF n, m
  <1>10. g[n] \in Seq(A)
    BY <1>1, <1>6
  <1> DEFINE I == {k \in Nat : k <= n => h[k] = g[k]}
             J == {k \in Nat : k <= m => \A j \in Nat : j = n + k => h[j] = g[n] \o f[k]}
  <1>11. \A k \in Nat : k \in I
    <2>1. 0 \in I
      BY <1>6, <1>8
    <2>2. ASSUME NEW k \in Nat, k \in I
          PROVE  k + 1 \in I
      <3>1. ASSUME k + 1 <= n
            PROVE  h[k + 1] = g[k + 1]
        <4> DEFINE i == k + 1
        <4>1. i \in 1 .. n /\ i \in 1 .. (n + m) /\ i - 1 = k /\ k <= n /\ i <= n
          BY <1>1, <3>1
        <4> HIDE DEF i
        <4>2. h[i] = g[i]
          BY <1>2, <1>6, <1>8, <2>2, <4>1
        <4> QED
          BY <4>2 DEF i
      <3> QED
        BY <3>1
    <2> HIDE DEF I
    <2> QED
      BY <2>1, <2>2, IndexInduction
  <1>12. \A k \in Nat : k \in J
    <2>1. 0 \in J
      <3>1. n + 0 = n /\ n <= n /\ n \in I
        BY <1>1, <1>11
      <3>2. h[n] = g[n] /\ g[n] \o f[0] = g[n]
        BY <1>7, <1>10, <3>1, ConcatEmptySeq
      <3> QED
        BY <3>1, <3>2
    <2>2. ASSUME NEW k \in Nat, k \in J
          PROVE  k + 1 \in J
      <3>1. ASSUME k + 1 <= m, NEW j \in Nat, j = n + (k + 1)
            PROVE  h[j] = g[n] \o f[k + 1]
        <4> DEFINE i == k + 1
                   b == n + k
        <4>1. /\ i \in 1 .. m /\ i - 1 = k /\ k \in 0 .. m /\ k <= m
              /\ j \in 1 .. (n + m) /\ j - 1 = b /\ b \in Nat /\ j - n = i /\ ~(j <= n)
          BY <1>1, <3>1
        <4> HIDE DEF i
        <4>2. h[j] = h[b] \o t[i] /\ h[b] = g[n] \o f[k] /\ f[i] = f[k] \o t[i]
          BY <1>2, <1>7, <1>8, <2>2, <4>1 DEF b
        <4>3. f[k] \in Seq(A) /\ t[i] \in Seq(A)
          BY <1>7, <1>9, <4>1
        <4>4. (g[n] \o f[k]) \o t[i] = g[n] \o (f[k] \o t[i])
          <5> DEFINE u == g[n]
                     v == f[k]
                     w == t[i]
          <5>1. u \in Seq(A) /\ v \in Seq(A) /\ w \in Seq(A)
            BY <1>10, <4>3
          <5> HIDE DEF u, v, w
          <5>2. (u \o v) \o w = u \o (v \o w)
            BY <5>1, ConcatAssociative
          <5> QED
            BY <5>2 DEF u, v, w
        <4>5. h[j] = g[n] \o f[i]
          BY <4>2, <4>4
        <4> QED
          BY <4>5 DEF i
      <3>2. k + 1 \in Nat
        OBVIOUS
      <3>3. k + 1 <= m => \A j \in Nat : j = n + (k + 1) => h[j] = g[n] \o f[k + 1]
        BY <3>1
      <3> DEFINE i == k + 1
      <3> HIDE DEF i
      <3>4. i \in J
        BY <3>2, <3>3 DEF i
      <3> QED
        BY <3>4 DEF i
    <2> HIDE DEF J
    <2> QED
      BY <2>1, <2>2, IndexInduction
  <1>13. h[n + m] = g[n] \o f[m]
    <2>1. m \in J
      <3> HIDE DEF J
      <3> QED
        BY <1>1, <1>12
    <2>2. m <= m /\ n + m \in Nat
      BY <1>1
    <2> QED
      BY <2>1, <2>2
  <1> QED
    BY <1>2, <1>3, <1>4, <1>5, <1>10, <1>13 DEF r, n, m

\* The texts of two runs of entries.
LEMMA TextsConcat ==
    ASSUME NEW I, NEW A, NEW U, NEW s \in Seq(Entry(I, Seq(A), U)), NEW t \in Seq(Entry(I, Seq(A), U))
    PROVE  /\ FlattenSeq(Texts(s)) \in Seq(A)
           /\ FlattenSeq(Texts(s \o t)) = FlattenSeq(Texts(s)) \o FlattenSeq(Texts(t))
  <1> DEFINE E == Entry(I, Seq(A), U)
             n == Len(s)
             m == Len(t)
             r == s \o t
  <1>1. n \in Nat /\ m \in Nat
    OBVIOUS
  <1>2. /\ r \in Seq(E) /\ Len(r) = n + m
        /\ \A i \in 1 .. (n + m) : r[i] = IF i <= n THEN s[i] ELSE t[i - n]
    BY ConcatProperties
  <1> HIDE DEF r, E
  <1>3. /\ Texts(s) \in Seq(Seq(A)) /\ Len(Texts(s)) = n
        /\ \A j \in 1 .. n : Texts(s)[j] = s[j].text
    BY TextsIs
  <1>4. /\ Texts(t) \in Seq(Seq(A)) /\ Len(Texts(t)) = m
        /\ \A j \in 1 .. m : Texts(t)[j] = t[j].text
    BY TextsIs
  <1>5. /\ Texts(r) \in Seq(Seq(A)) /\ Len(Texts(r)) = n + m
        /\ \A j \in 1 .. (n + m) : Texts(r)[j] = r[j].text
    BY <1>2, TextsIs DEF E
  <1> DEFINE x == Texts(s)
             y == Texts(t)
             z == Texts(r)
  <1> HIDE DEF n, m, x, y, z
  <1>6. /\ x \o y \in Seq(Seq(A)) /\ Len(x \o y) = n + m
        /\ \A i \in 1 .. (n + m) : (x \o y)[i] = IF i <= n THEN x[i] ELSE y[i - n]
    BY <1>3, <1>4, ConcatProperties DEF x, y
  <1>7. ASSUME NEW i \in 1 .. (n + m)
        PROVE  z[i] = (x \o y)[i]
    <2>1. CASE i <= n
      <3>1. i \in 1 .. n
        BY <1>1, <2>1
      <3> QED
        BY <1>2, <1>3, <1>5, <1>6, <2>1, <3>1 DEF x, z
    <2>2. CASE ~(i <= n)
      <3>1. i - n \in 1 .. m
        BY <1>1, <2>2
      <3> QED
        BY <1>2, <1>4, <1>5, <1>6, <2>2, <3>1 DEF y, z
    <2> QED
      BY <2>1, <2>2
  <1>8. z = x \o y
    <2> DEFINE w == x \o y
    <2>1. z \in Seq(Seq(A)) /\ w \in Seq(Seq(A)) /\ Len(z) = Len(w)
          /\ \A i \in 1 .. Len(z) : z[i] = w[i]
      BY <1>5, <1>6, <1>7 DEF z
    <2> HIDE DEF w
    <2> QED
      BY <2>1, SeqEqual DEF w
  <1>9. FlattenSeq(x) \in Seq(A) /\ FlattenSeq(x \o y) = FlattenSeq(x) \o FlattenSeq(y)
    BY <1>3, <1>4, FlattenedConcat DEF x, y
  <1> QED
    BY <1>8, <1>9 DEF x, y, z, r

\* The text of one entry.
LEMMA TextAlone ==
    ASSUME NEW I, NEW A, NEW U, NEW e \in Entry(I, Seq(A), U)
    PROVE  e.text \in Seq(A) /\ FlattenSeq(Texts(<<e>>)) = e.text
  <1> DEFINE s == <<e>>
             t == Texts(s)
  <1>1. e.text \in Seq(A)
    BY DEF Entry
  <1>2. s \in Seq(Entry(I, Seq(A), U)) /\ Len(s) = 1 /\ s[1] = e
    OBVIOUS
  <1> HIDE DEF s
  <1>3. t \in Seq(Seq(A)) /\ Len(t) = 1 /\ t[1] = e.text
    BY <1>2, TextsIs
  <1> HIDE DEF t
  <1>4. PICK g : Flattened(A, t, g) /\ FlattenSeq(t) = g[Len(t)]
    BY <1>3, FlattenIs
  <1>5. 1 \in 1 .. Len(t) /\ 1 - 1 = 0
    BY <1>3
  <1>6. g[1] = <<>> \o e.text
    BY <1>3, <1>4, <1>5 DEF Flattened
  <1>7. FlattenSeq(t) = e.text
    BY <1>1, <1>3, <1>4, <1>6, ConcatEmptySeq
  <1> QED
    BY <1>1, <1>7 DEF t, s

\* Two runs of entries are entries, and their texts stand one behind the other.
LEMMA TextsJoin ==
    ASSUME NEW I, NEW A, NEW U, NEW E, E = Entry(I, Seq(A), U)
    PROVE  \A s, t \in Seq(E) :
               /\ s \o t \in Seq(E)
               /\ FlattenSeq(Texts(s \o t)) = FlattenSeq(Texts(s)) \o FlattenSeq(Texts(t))
  <1>1. ASSUME NEW s \in Seq(Entry(I, Seq(A), U)), NEW t \in Seq(Entry(I, Seq(A), U))
        PROVE  FlattenSeq(Texts(s \o t)) = FlattenSeq(Texts(s)) \o FlattenSeq(Texts(t))
    BY TextsConcat
  <1>2. ASSUME NEW s \in Seq(E), NEW t \in Seq(E)
        PROVE  s \o t \in Seq(E)
    BY ConcatIs
  <1> QED
    BY <1>1, <1>2

\* A sequence seen as a run, one entry and a run.
RunsOf(E, s, p, own, q) ==
    /\ s \in Seq(E) /\ p \in Seq(E) /\ own \in E /\ q \in Seq(E)
    /\ Len(s) = Len(p) + 1 + Len(q) /\ s[Len(p) + 1] = own
    /\ \A j \in 1 .. Len(p) : s[j] = p[j]
    /\ \A j \in 1 .. Len(q) : s[Len(p) + 1 + j] = q[j]

\* They make it up.
LEMMA RunsTogether ==
    ASSUME NEW E, NEW s, NEW p, NEW own, NEW q, RunsOf(E, s, p, own, q)
    PROVE  s = (p \o <<own>>) \o q
  <1>h. /\ Len(s) = Len(p) + 1 + Len(q) /\ s[Len(p) + 1] = own
        /\ \A j \in 1 .. Len(p) : s[j] = p[j]
        /\ \A j \in 1 .. Len(q) : s[Len(p) + 1 + j] = q[j]
    BY DEF RunsOf
  <1>g. s \in Seq(E) /\ p \in Seq(E) /\ own \in E /\ q \in Seq(E)
    BY DEF RunsOf
  <1> DEFINE w == <<own>>
             y == p \o w
             z == y \o q
             n == Len(p)
             m == Len(q)
  <1>1. n \in Nat /\ m \in Nat /\ w \in Seq(E) /\ Len(w) = 1 /\ w[1] = own
    BY <1>g
  <1>m. w \in Seq(E)
    BY <1>1
  <1> HIDE DEF w, n, m
  <1>2. /\ y \in Seq(E) /\ Len(y) = n + 1
        /\ \A j \in 1 .. n : y[j] = p[j]
        /\ \A j \in 1 .. 1 : y[n + j] = w[j]
    <2>1. /\ y \in Seq(E) /\ Len(y) = Len(p) + Len(w)
          /\ \A j \in 1 .. Len(p) : y[j] = p[j]
          /\ \A j \in 1 .. Len(w) : y[Len(p) + j] = w[j]
      BY <1>g, <1>m, ConcatIs
    <2> HIDE DEF y
    <2> QED
      BY <1>1, <2>1 DEF n
  <1>m1. y \in Seq(E)
    BY <1>2
  <1> HIDE DEF y
  <1>3. /\ z \in Seq(E) /\ Len(z) = Len(y) + m
        /\ \A j \in 1 .. Len(y) : z[j] = y[j]
        /\ \A j \in 1 .. m : z[Len(y) + j] = q[j]
    <2>1. /\ z \in Seq(E) /\ Len(z) = Len(y) + Len(q)
          /\ \A j \in 1 .. Len(y) : z[j] = y[j]
          /\ \A j \in 1 .. Len(q) : z[Len(y) + j] = q[j]
      BY <1>g, <1>m1, ConcatIs
    <2> HIDE DEF z
    <2> QED
      BY <2>1 DEF m
  <1>4. Len(z) = n + 1 + m /\ Len(s) = n + 1 + m
    BY <1>h, <1>1, <1>2, <1>3 DEF n, m
  <1> HIDE DEF z
  <1>5. ASSUME NEW j \in 1 .. (n + 1 + m)
        PROVE  s[j] = z[j]
    <2>1. CASE j <= n
      <3>1. j \in 1 .. n /\ j \in 1 .. Len(y)
        BY <1>1, <1>2, <2>1
      <3> QED
        BY <1>h, <1>2, <1>3, <3>1 DEF n
    <2>2. CASE j = n + 1
      <3>1. 1 \in 1 .. 1 /\ n + 1 \in 1 .. Len(y)
        BY <1>1, <1>2
      <3>2. y[n + 1] = own
        BY <1>1, <1>2, <3>1
      <3> QED
        BY <1>h, <1>3, <2>2, <3>1, <3>2 DEF n
    <2>3. CASE n + 1 < j
      <3> DEFINE k == j - (n + 1)
      <3>1. k \in 1 .. m /\ j = n + 1 + k /\ Len(y) = n + 1
        BY <1>1, <1>2, <2>3
      <3> HIDE DEF k
      <3>2. z[j] = q[k] /\ s[j] = q[k]
        BY <1>h, <1>3, <3>1 DEF n, m
      <3> QED
        BY <3>2
    <2> QED
      BY <1>1, <2>1, <2>2, <2>3
  <1>6. s = z
    <2>1. \A j \in 1 .. Len(s) : s[j] = z[j]
      BY <1>4, <1>5
    <2> QED
      BY <1>g, <1>3, <1>4, <2>1, SeqEqual
  <1> QED
    BY <1>6 DEF z, y, w

\* The texts after a split: the rest of the one that is cut comes behind the subtree.
SplitReads(es, i, cut, r) ==
    FlattenSeq(Texts(r))
        = FlattenSeq(Texts(Slice(es, 1, i))) \o SubSeq(es[i].text, 1, cut)
          \o FlattenSeq(Texts(Slice(es, i + 1, SubtreeEnd(es, i))))
          \o SubSeq(es[i].text, cut + 1, Len(es[i].text))
          \o FlattenSeq(Texts(Slice(es, SubtreeEnd(es, i), Len(es) + 1)))

\* That is what a split does to them.
LEMMA SplitTexts ==
    ASSUME NEW I, NEW A, NEW U, NEW es, Page(I, Seq(A), U, es), NEW i \in 1 .. Len(es),
           NEW cut \in 0 .. Len(es[i].text), NEW new \in I \ Ids(es), NEW now \in U
    PROVE  SplitReads(es, i, cut, Split(es, i, es[i].text, cut, new, now))
  <1> DEFINE E == Entry(I, Seq(A), U)
             n == Len(es)
             text == es[i].text
             u == SubSeq(text, 1, cut)
             v == SubSeq(text, cut + 1, Len(text))
             kept == Stamped(es, es[i].id, u, now)
             rest == [id |-> new, text |-> v, updated |-> now, parent |-> es[i].parent]
             x == SubtreeEnd(es, i)
             k == i + 1
             P == Slice(es, 1, i)
             Q == Slice(es, k, x)
             Z == Slice(es, x, n + 1)
             head == Slice(kept, 1, x)
             tail == Slice(kept, x, Len(kept) + 1)
             r == Split(es, i, text, cut, new, now)
             own == kept[i]
             R(f) == FlattenSeq(Texts(f))
  <1>t. \A s, t \in Seq(E) : s \o t \in Seq(E) /\ R(s \o t) = R(s) \o R(t)
    <2> HIDE DEF E
    <2>1. E = Entry(I, Seq(A), U)
      BY DEF E
    <2> QED
      BY <2>1, TextsJoin
  <1>1. es \in Seq(E) /\ n \in Nat /\ es[i] \in E /\ es[i].parent \in I \cup {TopLevel}
    BY PageIs
  <1>2. text \in Seq(A)
    BY <1>1 DEF Entry
  <1>3. u \in Seq(A) /\ v \in Seq(A)
    <2> HIDE DEF text
    <2>1. cut \in 0 .. Len(text)
      BY DEF text
    <2> QED
      BY <1>2, <2>1
  <1>4. r = (head \o <<rest>>) \o tail
    BY DEF Split, Spliced
  <1>5. x \in k .. (n + 1)
    BY LeafEnds
  <1> HIDE DEF u, v, x
  <1>6. rest \in E /\ rest.text = v
    BY <1>1, <1>3 DEF Entry
  <1>7. /\ kept \in Seq(E) /\ Len(kept) = n /\ own.text = u
        /\ \A j \in 1 .. n : j # i => kept[j] = es[j]
    <2> DEFINE T == Seq(A)
    <2>1. Page(I, T, U, es) /\ u \in T
      BY <1>3
    <2> HIDE DEF T, E, rest, r, head, tail, text
    <2>2. kept \in Seq(Entry(I, T, U)) /\ Len(kept) = Len(es) /\ own.text = u
      BY <2>1, StampedTexts
    <2>3. ASSUME NEW j \in 1 .. n, j # i
          PROVE  kept[j] = es[j]
      <3>1. DOMAIN es = 1 .. Len(es)
        BY <2>1, PageIs
      <3>2. es[j].id # es[i].id
        BY <2>1, <2>3 DEF Page, Tree, Named
      <3> QED
        BY <3>1, <3>2 DEF Stamped
    <2> HIDE DEF kept, own
    <2> QED
      BY <2>2, <2>3 DEF T, E
  <1>8. own \in E
    BY <1>7
  <1> HIDE DEF E, kept, rest, r
  <1>9. P \in Seq(E) /\ Len(P) = i - 1 /\ \A j \in 1 .. (i - 1) : P[j] = es[j]
    <2>1. i \in 1 .. (Len(es) + 1)
      BY <1>1
    <2> QED
      BY <1>1, <2>1, HeadIs
  <1>10. Q \in Seq(E) /\ Len(Q) = x - k /\ \A j \in 1 .. (x - k) : Q[j] = es[j + k - 1]
    <2>1. k \in 1 .. (Len(es) + 1) /\ x \in k .. (Len(es) + 1)
      BY <1>1, <1>5
    <2> HIDE DEF k
    <2> QED
      BY <1>1, <2>1, SliceIs
  <1>11. Z \in Seq(E) /\ Len(Z) = n + 1 - x /\ \A j \in 1 .. (n + 1 - x) : Z[j] = es[j + x - 1]
    <2>1. x \in 1 .. (Len(es) + 1)
      BY <1>1, <1>5
    <2> QED
      BY <1>1, <2>1, TailIs
  <1>12. head \in Seq(E) /\ Len(head) = x - 1 /\ \A j \in 1 .. (x - 1) : head[j] = kept[j]
    <2>1. x \in 1 .. (Len(kept) + 1)
      BY <1>1, <1>5, <1>7
    <2> QED
      BY <1>7, <2>1, HeadIs
  <1>13. tail \in Seq(E) /\ Len(tail) = n + 1 - x /\ \A j \in 1 .. (n + 1 - x) : tail[j] = kept[j + x - 1]
    <2>1. x \in 1 .. (Len(kept) + 1)
      BY <1>1, <1>5, <1>7
    <2>2. /\ tail \in Seq(E) /\ Len(tail) = Len(kept) + 1 - x
          /\ \A j \in 1 .. (Len(kept) + 1 - x) : tail[j] = kept[j + x - 1]
      BY <1>7, <2>1, TailIs
    <2> HIDE DEF tail
    <2> QED
      BY <1>7, <2>2
  <1> HIDE DEF P, Q, Z, head, tail, own
  <1>14. tail = Z
    <2>1. \A j \in 1 .. (n + 1 - x) : j + x - 1 \in 1 .. n /\ j + x - 1 # i
      BY <1>1, <1>5
    <2>2. \A j \in 1 .. (n + 1 - x) : tail[j] = Z[j]
      BY <1>7, <1>11, <1>13, <2>1
    <2> QED
      BY <1>11, <1>13, <2>2, SeqEqual
  <1>m. P \in Seq(E) /\ Q \in Seq(E) /\ Z \in Seq(E) /\ head \in Seq(E) /\ own \in E /\ rest \in E
    BY <1>6, <1>8, <1>9, <1>10, <1>11, <1>12
  <1>15. head = (P \o <<own>>) \o Q
    <2> HIDE DEF k
    <2>1. i - 1 + 1 + (x - k) = x - 1 /\ x \in Nat
      BY <1>1, <1>5 DEF k
    <2>2. Len(head) = Len(P) + 1 + Len(Q)
      BY <1>9, <1>10, <1>12, <2>1
    <2>3. head[Len(P) + 1] = own
      <3>1. Len(P) + 1 = i /\ i \in 1 .. (x - 1)
        BY <1>1, <1>5, <1>9 DEF k
      <3> QED
        BY <1>12, <3>1 DEF own
    <2>4. ASSUME NEW j \in 1 .. Len(P)
          PROVE  head[j] = P[j]
      <3>1. j \in 1 .. (i - 1) /\ j \in 1 .. (x - 1) /\ j \in 1 .. n /\ j # i
        BY <1>1, <1>5, <1>9 DEF k
      <3> QED
        BY <1>7, <1>9, <1>12, <3>1
    <2>5. ASSUME NEW j \in 1 .. Len(Q)
          PROVE  head[Len(P) + 1 + j] = Q[j]
      <3> DEFINE l == i + j
      <3>1. /\ j \in 1 .. (x - k) /\ j + k - 1 = l /\ Len(P) + 1 + j = l
            /\ l \in 1 .. (x - 1) /\ l \in 1 .. n /\ l # i
        BY <1>1, <1>5, <1>9, <1>10 DEF k
      <3> HIDE DEF l
      <3>2. Q[j] = es[l] /\ head[l] = kept[l] /\ kept[l] = es[l]
        BY <1>7, <1>10, <1>12, <3>1
      <3> QED
        BY <3>1, <3>2
    <2> QED
      <3>1. RunsOf(E, head, P, own, Q)
        BY <1>m, <2>2, <2>3, <2>4, <2>5 DEF RunsOf
      <3> QED
        BY <3>1, RunsTogether
  <1> DEFINE w == <<own>>
             c == <<rest>>
             a == P \o w
             b == a \o Q
             d == b \o c
  <1>16. w \in Seq(E) /\ c \in Seq(E)
    BY <1>m
  <1>17. R(w) = u /\ R(c) = v
    BY <1>6, <1>7, <1>m, TextAlone DEF E
  <1>18. r = d \o Z
    BY <1>4, <1>14, <1>15
  <1> HIDE DEF R, w, c
  <1>19. a \in Seq(E) /\ R(a) = R(P) \o R(w)
    BY <1>m, <1>16, <1>t
  <1> HIDE DEF a
  <1>20. b \in Seq(E) /\ R(b) = R(a) \o R(Q)
    BY <1>m, <1>19, <1>t
  <1> HIDE DEF b
  <1>21. d \in Seq(E) /\ R(d) = R(b) \o R(c)
    BY <1>16, <1>20, <1>t
  <1> HIDE DEF d
  <1>22. R(d \o Z) = R(d) \o R(Z)
    BY <1>m, <1>21, <1>t
  <1>23. R(r) = R(P) \o u \o R(Q) \o v \o R(Z)
    BY <1>17, <1>18, <1>19, <1>20, <1>21, <1>22
  <1> QED
    BY <1>23 DEF SplitReads, R, r, P, Q, Z, u, v, x, n, k, text

\* A Page whose texts are some texts has its texts among more of them.
LEMMA PageWidens ==
    ASSUME NEW I, NEW T, NEW S, T \subseteq S, NEW U, NEW es, Page(I, T, U, es)
    PROVE  Page(I, S, U, es)
  <1>1. Entry(I, T, U) \subseteq Entry(I, S, U)
    BY DEF Entry
  <1>2. es \in Seq(Entry(I, T, U))
    BY DEF Page
  <1>3. es \in Seq(Entry(I, S, U))
    BY <1>1, <1>2, SeqMonotonic
  <1> QED
    BY <1>3 DEF Page

\* Joining the entry with this identifier makes the Page es, giving this text.
JoinsTo(r, new, now, text, es) ==
    LET b == PositionOf(r, new)
    IN  /\ CanJoin(r, b)
        /\ r[b - 1].text \o r[b].text = text
        /\ Joined(r, b, r[b].text, now) = es

\* A split of a leaf puts what is cut off in the next place, and joining it gives the
\* leaf its text back.
LEMMA SplitBack ==
    ASSUME NEW I, NEW A, NEW U, NEW es, Page(I, Seq(A), U, es), NEW i \in 1 .. Len(es),
           NEW cut \in 0 .. Len(es[i].text), NEW new \in I \ Ids(es), NEW now \in U,
           es[i].updated = now, ~HasChildren(es, es[i].id)
    PROVE  JoinsTo(Split(es, i, es[i].text, cut, new, now), new, now, es[i].text, es)
  <1> DEFINE T == Seq(A)
             E == Entry(I, T, U)
             n == Len(es)
             text == es[i].text
             u == SubSeq(text, 1, cut)
             v == SubSeq(text, cut + 1, Len(text))
             kept == Stamped(es, es[i].id, u, now)
             rest == [id |-> new, text |-> v, updated |-> now, parent |-> es[i].parent]
             b == i + 1
             r == Split(es, i, text, cut, new, now)
             s == Stamped(r, r[i].id, u \o v, now)
             z == Without(s, b, b + 1)
  <1>1. /\ es \in Seq(E) /\ n \in Nat /\ DOMAIN es = 1 .. n /\ TopLevel \notin I
        /\ es[i] \in E /\ es[i].parent \in I \cup {TopLevel}
    BY PageIs
  <1>2. text \in T /\ es[i].updated = now
    BY <1>1 DEF Entry
  <1>3. u \in T /\ v \in T /\ u \o v = text
    <2> HIDE DEF text
    <2>1. text \in Seq(A) /\ Len(text) \in Nat /\ cut \in 0 .. Len(text)
      BY <1>2 DEF text
    <2>2. u \in T /\ v \in T
      BY <2>1
    <2>3. 1 \in 1 .. (Len(text) + 1) /\ cut \in (1 - 1) .. Len(text) /\ Len(text) \in cut .. Len(text)
      BY <2>1
    <2>4. u \o v = SubSeq(text, 1, Len(text))
      BY <2>1, <2>3, ConcatAdjacentSubSeq
    <2> QED
      BY <2>1, <2>2, <2>4, SubSeqFull
  <1>4. Page(I, T, U, r) /\ Len(r) = n + 1
    <2> HIDE DEF text, T, r
    <2>1. Page(I, T, U, es) /\ SubSeq(text, 1, cut) \in T /\ SubSeq(text, cut + 1, Len(text)) \in T
      BY <1>3 DEF T
    <2> QED
      BY <2>1, SplitPage DEF r
  <1>5. r = Spliced(kept, b, <<rest>>)
    <2>1. SubtreeEnd(es, i) = b
      BY LeafEnds
    <2> QED
      BY <2>1 DEF Split
  <1>6. rest \in E /\ rest.id = new /\ rest.text = v /\ rest.parent = es[i].parent
    BY <1>1, <1>3 DEF Entry
  <1>7. \A j \in 1 .. n : es[j].id = es[i].id <=> j = i
    BY DEF Page, Tree, Named
  <1>8. ASSUME NEW j \in 1 .. n
        PROVE  kept[j] = IF j = i THEN [es[i] EXCEPT !.text = u, !.updated = now] ELSE es[j]
    BY <1>1, <1>7 DEF Stamped
  <1>9. kept \in Seq(E) /\ Len(kept) = n
    <2> HIDE DEF T, text
    <2>1. Page(I, T, U, es) /\ u \in T
      BY <1>3 DEF T
    <2> HIDE DEF u
    <2> QED
      BY <2>1, StampedTexts
  <1>10. \A j \in 1 .. n : es[j].parent # new /\ es[j].id # new
    <2>1. PICK D : Tree(es, D)
      BY DEF Page
    <2>2. ASSUME NEW j \in 1 .. n
          PROVE  es[j].parent # new /\ es[j].id # new
      <3>1. D[j] \in 0 .. (j - 1) /\ es[j].parent = IF D[j] = 0 THEN TopLevel ELSE es[D[j]].id
        BY <1>1, <2>1, ParentIs
      <3>2. D[j] = 0 \/ D[j] \in 1 .. n
        BY <1>1, <3>1
      <3> QED
        BY <1>1, <3>1, <3>2 DEF Ids
    <2> QED
      BY <2>2
  <1> HIDE DEF kept, rest, E, T, u, v, text, r
  <1>11. /\ \A j \in 1 .. i : r[j] = kept[j]
         /\ r[b] = rest
         /\ \A j \in b .. n : r[j + 1] = kept[j]
    <2> DEFINE t == <<rest>>
    <2>1. t \in Seq(E) /\ b \in 1 .. (Len(kept) + 1) /\ Len(t) = 1 /\ t[1] = rest
      BY <1>1, <1>6, <1>9
    <2>m. t \in Seq(E)
      BY <2>1
    <2> HIDE DEF t, b
    <2>2. SplicedAs(E, kept, b, t, Spliced(kept, b, t))
      BY <1>9, <2>1, <2>m, SplicedIs
    <2>3. Spliced(kept, b, t) = r
      BY <1>5 DEF t
    <2>4. /\ \A j \in 1 .. (b - 1) : r[j] = kept[j]
          /\ \A j \in 1 .. Len(t) : r[b - 1 + j] = t[j]
          /\ \A j \in b .. Len(kept) : r[j + Len(t)] = kept[j]
      BY <2>2, <2>3 DEF SplicedAs
    <2>5. b - 1 = i /\ b - 1 + 1 = b /\ 1 \in 1 .. 1
      BY DEF b
    <2>6. r[b] = rest
      BY <2>1, <2>4, <2>5
    <2> QED
      BY <1>9, <2>1, <2>4, <2>5, <2>6
  <1>12. /\ i \in 1 .. i /\ i \in 1 .. n /\ i \in 1 .. (n + 1) /\ b \in 1 .. (n + 1) /\ i # b
    BY <1>1
  <1>13. r[i].id = es[i].id /\ r[i].text = u /\ r[b].id = new /\ r[b].text = v
    <2>1. r[i] = [es[i] EXCEPT !.text = u, !.updated = now]
      BY <1>8, <1>11, <1>12
    <2> QED
      BY <1>1, <1>6, <1>11, <2>1 DEF E, Entry
  <1>14. /\ r \in Seq(E) /\ Len(r) \in Nat /\ DOMAIN r = 1 .. Len(r) /\ Named(r)
    BY <1>4, PageIs DEF E, Page, Tree
  <1>15. PositionOf(r, new) = b
    <2> HIDE DEF b
    <2>1. b \in 1 .. Len(r)
      BY <1>4, <1>12
    <2>2. PositionOf(r, r[b].id) = b
      BY <1>14, <2>1, FoundAt
    <2> QED
      BY <1>13, <2>2
  <1>16. CanJoin(r, b)
    <2>1. ASSUME NEW j \in 1 .. (n + 1)
          PROVE  r[j].parent # new
      <3>1. CASE j \in 1 .. i
        <4>1. j \in 1 .. n /\ r[j] = kept[j]
          BY <1>1, <1>11, <3>1
        <4>2. kept[j].parent = es[j].parent
          BY <1>1, <1>8, <4>1 DEF E, Entry
        <4> QED
          BY <1>10, <4>1, <4>2
      <3>2. CASE j = b
        BY <1>6, <1>10, <1>11, <3>2
      <3>3. CASE b < j
        <4> DEFINE k == j - 1
        <4>1. k \in b .. n /\ k \in 1 .. n /\ k + 1 = j /\ k # i
          BY <1>1, <3>3
        <4> HIDE DEF k
        <4>2. r[j] = kept[k] /\ kept[k] = es[k]
          BY <1>8, <1>11, <4>1
        <4> QED
          BY <1>10, <4>1, <4>2
      <3> QED
        BY <1>1, <3>1, <3>2, <3>3
    <2>2. ~HasChildren(r, new)
      BY <1>4, <1>14, <2>1 DEF HasChildren
    <2>3. b > 1
      BY <1>1
    <2> QED
      BY <1>13, <2>2, <2>3 DEF CanJoin
  <1>17. z = Joined(r, b, r[b].text, now)
    <2>1. b - 1 = i
      BY <1>1
    <2> HIDE DEF b
    <2> QED
      BY <1>13, <2>1 DEF Joined
  <1>18. ASSUME NEW j \in 1 .. (n + 1)
         PROVE  s[j] = IF j = i THEN [r[i] EXCEPT !.text = u \o v, !.updated = now] ELSE r[j]
    <2>1. r[j].id = r[i].id <=> j = i
      BY <1>4, <1>12, <1>14 DEF Named
    <2> QED
      BY <1>4, <1>14, <2>1 DEF Stamped
  <1>19. s \in Seq(E) /\ Len(s) = n + 1
    <2>1. u \o v \in T /\ i \in 1 .. Len(r) /\ Page(I, T, U, r)
      BY <1>2, <1>3, <1>4, <1>12
    <2> DEFINE w == u \o v
    <2>2. w \in T
      BY <2>1
    <2> HIDE DEF w
    <2>3. Stamped(r, r[i].id, w, now) \in Seq(E) /\ Len(Stamped(r, r[i].id, w, now)) = Len(r)
      BY <2>1, <2>2, StampedTexts DEF E
    <2> QED
      BY <1>4, <2>3 DEF w
  <1>20. s[i] = es[i]
    <2> DEFINE e == es[i]
               f == [e EXCEPT !.text = u, !.updated = now]
    <2>1. e \in Entry(I, T, U) /\ e.text = text /\ e.updated = now
      BY <1>1, <1>2 DEF E, text
    <2>2. r[i] = f
      BY <1>8, <1>11, <1>12
    <2>3. s[i] = [r[i] EXCEPT !.text = text, !.updated = now]
      BY <1>3, <1>12, <1>18
    <2> HIDE DEF e
    <2>4. [f EXCEPT !.text = text, !.updated = now] = e
      BY <2>1 DEF Entry
    <2> HIDE DEF f
    <2>5. s[i] = e
      BY <2>2, <2>3, <2>4
    <2> QED
      BY <2>5 DEF e
  <1> HIDE DEF s
  <1>21. /\ z \in Seq(E) /\ Len(z) = n
         /\ \A j \in 1 .. i : z[j] = s[j]
         /\ \A j \in (b + 1) .. (n + 1) : z[j - 1] = s[j]
    <2> DEFINE e == b + 1
    <2>1. b \in 1 .. (Len(s) + 1) /\ e \in b .. (Len(s) + 1) /\ e - b = 1 /\ b - 1 = i /\ n + 1 - 1 = n
      BY <1>1, <1>19
    <2> HIDE DEF e, b, z
    <2>2. /\ Without(s, b, e) \in Seq(E) /\ Len(Without(s, b, e)) = Len(s) - (e - b)
          /\ \A j \in 1 .. (b - 1) : Without(s, b, e)[j] = s[j]
          /\ \A j \in e .. Len(s) : Without(s, b, e)[j - (e - b)] = s[j]
      BY <1>19, <2>1, WithoutIs
    <2>3. z = Without(s, b, e)
      BY DEF z, e
    <2> QED
      BY <1>19, <2>1, <2>2, <2>3 DEF e
  <1> HIDE DEF z
  <1>22. ASSUME NEW j \in 1 .. n
         PROVE  z[j] = es[j]
    <2>1. CASE j = i
      BY <1>12, <1>20, <1>21, <2>1
    <2>2. CASE j < i
      <3>1. j \in 1 .. i /\ j \in 1 .. (n + 1) /\ j # i
        BY <1>1, <2>2
      <3> QED
        BY <1>8, <1>11, <1>18, <1>21, <3>1
    <2>3. CASE i < j
      <3> DEFINE k == j + 1
      <3>1. /\ j \in b .. n /\ k \in (b + 1) .. (n + 1) /\ k \in 1 .. (n + 1) /\ k - 1 = j
            /\ k # i /\ j # i
        BY <1>1, <2>3
      <3>2. r[k] = kept[j] /\ kept[j] = es[j]
        BY <1>8, <1>11, <3>1
      <3> HIDE DEF k
      <3>3. z[j] = s[k] /\ s[k] = r[k]
        BY <1>18, <1>21, <3>1
      <3> QED
        BY <3>2, <3>3
    <2> QED
      BY <1>1, <2>1, <2>2, <2>3
  <1>23. z = es
    BY <1>1, <1>21, <1>22, SeqEqual
  <1>24. r[b - 1].text \o r[b].text = text
    <2>1. b - 1 = i
      BY <1>1
    <2> HIDE DEF b
    <2> QED
      BY <1>3, <1>13, <2>1
  <1> HIDE DEF b
  <1> QED
    BY <1>15, <1>16, <1>17, <1>23, <1>24 DEF JoinsTo, r, text

\* A join makes one text of two neighbours.
LEMMA JoinedTexts ==
    ASSUME NEW I, NEW A, NEW U, NEW es, Page(I, Seq(A), U, es), NEW i \in 1 .. Len(es),
           NEW now \in U, CanJoin(es, i)
    PROVE  FlattenSeq(Texts(Joined(es, i, es[i].text, now))) = FlattenSeq(Texts(es))
  <1> DEFINE T == Seq(A)
             E == Entry(I, T, U)
             n == Len(es)
             y == i - 1
             w == es[y].text \o es[i].text
             s == Stamped(es, es[y].id, w, now)
             b == i + 1
             r == Without(s, i, b)
  <1>1. es \in Seq(E) /\ n \in Nat
    BY PageIs
  <1>2. /\ Texts(es) \in Seq(T) /\ Len(Texts(es)) = n
        /\ \A j \in 1 .. n : Texts(es)[j] = es[j].text /\ es[j].text \in T
    BY <1>1, TextsIs
  <1>3. y \in 1 .. n /\ i = y + 1 /\ i \in 2 .. n
    BY <1>1 DEF CanJoin
  <1>4. r = Joined(es, i, es[i].text, now)
    BY DEF Joined
  <1>5. w \in T
    BY <1>2, <1>3, ConcatProperties
  <1>6. i \in 1 .. (n + 1) /\ b \in i .. (n + 1) /\ b - i = 1
    BY <1>1, <1>3
  <1> HIDE DEF w, y
  <1>7. /\ s \in Seq(E) /\ Len(s) = n /\ s[y].text = w
        /\ \A j \in 1 .. n : j # y => s[j].text = es[j].text
    <2> HIDE DEF T
    <2> QED
      BY <1>3, <1>5, StampedTexts DEF T
  <1> HIDE DEF s, E, T
  <1>8. /\ r \in Seq(E) /\ Len(r) = n - 1
        /\ \A j \in 1 .. (i - 1) : r[j] = s[j]
        /\ \A j \in b .. n : r[j - 1] = s[j]
    <2>1. i \in 1 .. (Len(s) + 1) /\ b \in i .. (Len(s) + 1)
      BY <1>6, <1>7
    <2> HIDE DEF b, r
    <2>2. /\ r \in Seq(E) /\ Len(r) = Len(s) - (b - i)
          /\ \A j \in 1 .. (i - 1) : r[j] = s[j]
          /\ \A j \in b .. Len(s) : r[j - (b - i)] = s[j]
      BY <1>7, <2>1, WithoutIs DEF r
    <2> QED
      BY <1>6, <1>7, <2>2
  <1> HIDE DEF r
  <1>9. /\ Texts(r) \in Seq(T) /\ Len(Texts(r)) = n - 1
        /\ \A j \in 1 .. (n - 1) : Texts(r)[j] = r[j].text
    BY <1>8, TextsIs DEF E
  <1> DEFINE f == Texts(r)
             g == Texts(es)
  <1> HIDE DEF f, g
  <1>10. \A j \in 1 .. (i - 2) : g[j] = f[j]
    <2>1. \A j \in 1 .. (i - 2) : j \in 1 .. (n - 1) /\ j \in 1 .. n /\ j \in 1 .. (i - 1) /\ j # y
      BY <1>1, <1>3
    <2> QED
      BY <1>2, <1>7, <1>8, <1>9, <2>1 DEF f, g
  <1>11. f[i - 1] = g[i - 1] \o g[i]
    <2>1. y \in 1 .. (n - 1) /\ y \in 1 .. (i - 1) /\ i \in 1 .. n /\ i - 1 = y
      BY <1>1, <1>3
    <2>2. f[y] = w /\ g[y] = es[y].text /\ g[i] = es[i].text
      BY <1>2, <1>3, <1>7, <1>8, <1>9, <2>1 DEF f, g
    <2> QED
      BY <2>1, <2>2 DEF w
  <1>12. ASSUME NEW j \in i .. (n - 1)
         PROVE  g[j + 1] = f[j]
    <2> DEFINE k == j + 1
    <2>1. k \in b .. n /\ k \in 1 .. n /\ k # y /\ k - 1 = j /\ j \in 1 .. (n - 1)
      BY <1>1, <1>3
    <2> HIDE DEF k
    <2>2. g[k] = es[k].text /\ f[j] = r[j].text /\ r[j] = s[k] /\ s[k].text = es[k].text
      BY <1>2, <1>7, <1>8, <1>9, <2>1 DEF f, g
    <2> QED
      BY <2>2 DEF k
  <1>13. Merged(A, f, g, i)
    <2>1. f \in Seq(Seq(A)) /\ g \in Seq(Seq(A)) /\ Len(f) = n - 1 /\ Len(g) = n /\ n = (n - 1) + 1
      BY <1>1, <1>2, <1>9 DEF f, g, T
    <2> QED
      BY <1>3, <1>10, <1>11, <1>12, <2>1 DEF Merged
  <1>14. FlattenSeq(g) = FlattenSeq(f)
    BY <1>13, MergedFlat
  <1> QED
    BY <1>4, <1>14 DEF f, g

-----------------------------------------------------------------------------
\* A subtree that moves to another Page, and the Pages it leaves and arrives on.

\* The walk of a subtree, its m positions from a on taken by themselves.
RunWalk(D, a, m) == [k \in 1 .. m |-> IF k = 1 THEN 0 ELSE D[a + k - 1] - (a - 1)]

\* A subtree taken by itself is a walk from its root.
LEMMA RunWalks ==
    ASSUME NEW n \in Nat, NEW D, Walk(D, n), NEW i \in 1 .. n, NEW e, EndOf(D, n, i, e)
    PROVE  /\ Walk(RunWalk(D, i, e - i), e - i) /\ RunWalk(D, i, e - i)[1] = 0
           /\ \A k \in 2 .. (e - i) : /\ RunWalk(D, i, e - i)[k] = D[i + k - 1] - (i - 1)
                                      /\ RunWalk(D, i, e - i)[k] \in 1 .. (k - 1)
  <1> DEFINE m == e - i
             H == RunWalk(D, i, m)
  <1>1. /\ e \in (i + 1) .. (n + 1) /\ m \in Nat /\ m >= 1
        /\ \A j \in (i + 1) .. (e - 1) : i <= D[j]
    BY DEF EndOf
  <1>2. /\ \A j \in 1 .. n : D[j] \in Nat /\ D[j] < j
        /\ \A k, j \in 1 .. n : D[k] < j /\ j <= k => D[k] <= D[j]
    BY DEF Walk
  <1>3. H = [k \in 1 .. m |-> H[k]] /\ \A k \in 1 .. m : H[k] = IF k = 1 THEN 0 ELSE D[i + k - 1] - (i - 1)
    BY DEF RunWalk
  <1> HIDE DEF H
  <1>4. \A k \in 2 .. m : k \in 1 .. m /\ i + k - 1 \in 1 .. n /\ i + k - 1 \in (i + 1) .. (e - 1)
    BY <1>1
  <1>5. ASSUME NEW k \in 2 .. m
        PROVE  H[k] = D[i + k - 1] - (i - 1) /\ H[k] \in 1 .. (k - 1)
    <2> DEFINE y == i + k - 1
    <2>1. y \in 1 .. n /\ y \in (i + 1) .. (e - 1) /\ k \in 1 .. m
      BY <1>4
    <2>2. H[k] = D[y] - (i - 1)
      BY <1>3, <2>1
    <2>3. i <= D[y] /\ D[y] < y /\ D[y] \in Nat
      BY <1>1, <1>2, <2>1
    <2> QED
      BY <2>2, <2>3
  <1>6. H[1] = 0 /\ 1 \in 1 .. m
    BY <1>1, <1>3
  <1>7. \A k \in 1 .. m : k = 1 \/ k \in 2 .. m
    BY <1>1
  <1>8. \A k \in 1 .. m : H[k] \in Nat /\ H[k] < k
    BY <1>5, <1>6, <1>7
  <1>9. H \in [1 .. m -> Nat]
    BY <1>3, <1>8
  <1>10. ASSUME NEW k \in 1 .. m, NEW j \in 1 .. m, H[k] < j, j <= k
         PROVE  H[k] <= H[j]
    <2>1. CASE k = 1
      BY <1>6, <1>8, <2>1
    <2>2. CASE k \in 2 .. m
      <3>1. j \in 2 .. m
        BY <1>5, <1>7, <1>10, <2>2
      <3>2. H[k] = D[i + k - 1] - (i - 1) /\ H[j] = D[i + j - 1] - (i - 1)
        BY <1>5, <2>2, <3>1
      <3> DEFINE y == i + k - 1
                 z == i + j - 1
      <3>3. y \in 1 .. n /\ z \in 1 .. n /\ z <= y
        BY <1>4, <1>10, <2>2, <3>1
      <3>4. D[y] \in Nat /\ D[z] \in Nat
        BY <1>2, <3>3
      <3>5. D[y] < z
        BY <1>10, <3>2, <3>4
      <3> HIDE DEF y, z
      <3>6. D[y] <= D[z]
        BY <1>2, <3>3, <3>5
      <3> QED
        BY <3>2, <3>4, <3>6 DEF y, z
    <2> QED
      BY <1>7, <2>1, <2>2
  <1>11. Walk(H, m)
    BY <1>8, <1>9, <1>10 DEF Walk
  <1> QED
    BY <1>5, <1>6, <1>11 DEF H, m

\* The walk with another one of m positions put in at x, its roots under the parent at q.
SplicedWalk(D, n, x, q, H, m) ==
    [j \in 1 .. (n + m) |->
        IF j < x THEN D[j]
        ELSE IF j < x + m THEN IF H[j - (x - 1)] = 0 THEN q ELSE H[j - (x - 1)] + (x - 1)
        ELSE IF D[j - m] < x THEN D[j - m] ELSE D[j - m] + m]

\* Before the gap, in the run and behind it, whom the spliced walk is under.
LEMMA SplicedWalkIs ==
    ASSUME NEW n \in Nat, NEW D, Walk(D, n), NEW x, NEW q, Gap(D, n, x, q),
           NEW m \in Nat, NEW H, Walk(H, m)
    PROVE  LET G == SplicedWalk(D, n, x, q, H, m)
           IN  /\ \A j \in 1 .. (x - 1) : G[j] = D[j]
               /\ \A k \in 1 .. m : G[x - 1 + k] = IF H[k] = 0 THEN q ELSE H[k] + (x - 1)
               /\ \A l \in x .. n : G[l + m] = IF D[l] < x THEN D[l] ELSE D[l] + m
               /\ G \in [1 .. (n + m) -> Nat]
               /\ \A j \in 1 .. (n + m) : G[j] < j
  <1> DEFINE G == SplicedWalk(D, n, x, q, H, m)
  <1>1. /\ x \in 1 .. (n + 1) /\ q \in 0 .. (x - 1)
        /\ \A j \in 1 .. n : D[j] \in Nat /\ D[j] < j
        /\ \A k \in 1 .. m : H[k] \in Nat /\ H[k] < k
    BY DEF Gap, Walk
  <1>2. G = [j \in 1 .. (n + m) |-> G[j]]
    BY DEF SplicedWalk
  <1>3. \A j \in 1 .. (n + m) :
           G[j] = IF j < x THEN D[j]
                  ELSE IF j < x + m THEN IF H[j - (x - 1)] = 0 THEN q ELSE H[j - (x - 1)] + (x - 1)
                  ELSE IF D[j - m] < x THEN D[j - m] ELSE D[j - m] + m
    BY DEF SplicedWalk
  <1> HIDE DEF G
  <1>4. \A j \in 1 .. (x - 1) : j \in 1 .. (n + m) /\ j \in 1 .. n /\ j < x
    BY <1>1
  <1>5. \A j \in 1 .. (x - 1) : G[j] = D[j]
    BY <1>3, <1>4
  <1>6. ASSUME NEW k \in 1 .. m
        PROVE  G[x - 1 + k] = IF H[k] = 0 THEN q ELSE H[k] + (x - 1)
    <2> DEFINE j == x - 1 + k
    <2>1. j \in 1 .. (n + m) /\ ~(j < x) /\ j < x + m /\ j - (x - 1) = k
      BY <1>1
    <2> HIDE DEF j
    <2>2. G[j] = IF H[k] = 0 THEN q ELSE H[k] + (x - 1)
      BY <1>3, <2>1
    <2> QED
      BY <2>2 DEF j
  <1>7. ASSUME NEW l \in x .. n
        PROVE  G[l + m] = IF D[l] < x THEN D[l] ELSE D[l] + m
    <2> DEFINE j == l + m
    <2>1. j \in 1 .. (n + m) /\ ~(j < x) /\ ~(j < x + m) /\ j - m = l
      BY <1>1
    <2> HIDE DEF j
    <2>2. G[j] = IF D[l] < x THEN D[l] ELSE D[l] + m
      BY <1>3, <2>1
    <2> QED
      BY <2>2 DEF j
  <1>8. ASSUME NEW j \in 1 .. (n + m)
        PROVE  G[j] \in Nat /\ G[j] < j
    <2>1. CASE j < x
      BY <1>1, <1>4, <1>5, <2>1
    <2>2. CASE ~(j < x) /\ j < x + m
      <3> DEFINE k == j - (x - 1)
      <3>1. k \in 1 .. m /\ j = x - 1 + k
        BY <1>1, <2>2
      <3> HIDE DEF k
      <3>2. G[j] = (IF H[k] = 0 THEN q ELSE H[k] + (x - 1)) /\ H[k] \in Nat /\ H[k] < k
        BY <1>1, <1>6, <3>1
      <3> QED
        BY <1>1, <3>1, <3>2
    <2>3. CASE ~(j < x + m)
      <3> DEFINE l == j - m
      <3>1. l \in x .. n /\ l \in 1 .. n /\ j = l + m
        BY <1>1, <2>3
      <3> HIDE DEF l
      <3>2. G[j] = (IF D[l] < x THEN D[l] ELSE D[l] + m) /\ D[l] \in Nat /\ D[l] < l
        BY <1>1, <1>7, <3>1
      <3> QED
        BY <1>1, <3>1, <3>2
    <2> QED
      BY <1>1, <2>1, <2>2, <2>3
  <1>9. G \in [1 .. (n + m) -> Nat]
    BY <1>2, <1>8
  <1> QED
    BY <1>5, <1>6, <1>7, <1>8, <1>9 DEF G

\* Splicing a walk into a gap of another gives a walk.
LEMMA SplicedWalks ==
    ASSUME NEW n \in Nat, NEW D, Walk(D, n), NEW x, NEW q, Gap(D, n, x, q),
           NEW m \in Nat, NEW H, Walk(H, m)
    PROVE  Walk(SplicedWalk(D, n, x, q, H, m), n + m)
  <1> DEFINE G == SplicedWalk(D, n, x, q, H, m)
  <1>1. /\ \A j \in 1 .. (x - 1) : G[j] = D[j]
        /\ \A k \in 1 .. m : G[x - 1 + k] = IF H[k] = 0 THEN q ELSE H[k] + (x - 1)
        /\ \A l \in x .. n : G[l + m] = IF D[l] < x THEN D[l] ELSE D[l] + m
        /\ G \in [1 .. (n + m) -> Nat]
        /\ \A j \in 1 .. (n + m) : G[j] < j
    BY SplicedWalkIs
  <1> HIDE DEF G
  <1>2. /\ \A j \in 1 .. n : D[j] \in Nat /\ D[j] < j
        /\ \A i, j \in 1 .. n : D[i] < j /\ j <= i => D[i] <= D[j]
        /\ \A j \in 1 .. m : H[j] \in Nat /\ H[j] < j
        /\ \A i, j \in 1 .. m : H[i] < j /\ j <= i => H[i] <= H[j]
    BY DEF Walk
  <1>3. /\ x \in 1 .. (n + 1) /\ q \in 0 .. (x - 1)
        /\ \A j \in (q + 1) .. (x - 1) : q <= D[j]
        /\ \A l \in x .. n : D[l] < x => D[l] <= q
    BY DEF Gap
  <1>4. ASSUME NEW j \in 1 .. (n + m)
        PROVE  \/ j \in 1 .. (x - 1) /\ j \in 1 .. n /\ G[j] = D[j]
               \/ \E k \in 1 .. m : /\ j = x - 1 + k
                                    /\ G[j] = IF H[k] = 0 THEN q ELSE H[k] + (x - 1)
               \/ \E l \in x .. n : /\ j = l + m /\ l \in 1 .. n
                                    /\ G[j] = IF D[l] < x THEN D[l] ELSE D[l] + m
    <2>1. CASE j < x
      BY <1>1, <1>3, <2>1
    <2>2. CASE ~(j < x) /\ j < x + m
      <3> DEFINE k == j - (x - 1)
      <3>1. k \in 1 .. m /\ j = x - 1 + k
        BY <1>3, <2>2
      <3> HIDE DEF k
      <3> QED
        BY <1>1, <3>1
    <2>3. CASE ~(j < x + m)
      <3> DEFINE l == j - m
      <3>1. l \in x .. n /\ l \in 1 .. n /\ j = l + m
        BY <1>3, <2>3
      <3> HIDE DEF l
      <3> QED
        BY <1>1, <3>1
    <2> QED
      BY <1>3, <2>1, <2>2, <2>3
  <1>5. ASSUME NEW i \in 1 .. (n + m), NEW j \in 1 .. (n + m), G[i] < j, j <= i
        PROVE  G[i] <= G[j]
    <2>1. CASE i \in 1 .. (x - 1) /\ i \in 1 .. n /\ G[i] = D[i]
      <3>1. j \in 1 .. (x - 1) /\ j \in 1 .. n
        BY <1>3, <1>5, <2>1
      <3> QED
        BY <1>1, <1>2, <1>5, <2>1, <3>1
    <2>2. ASSUME NEW k \in 1 .. m, i = x - 1 + k,
                 G[i] = IF H[k] = 0 THEN q ELSE H[k] + (x - 1)
          PROVE  G[i] <= G[j]
      <3>1. CASE j \in 1 .. (x - 1) /\ j \in 1 .. n /\ G[j] = D[j]
        <4>1. G[i] = q
          BY <1>2, <1>3, <1>5, <2>2, <3>1
        <4>2. j \in (q + 1) .. (x - 1)
          BY <1>3, <1>5, <3>1, <4>1
        <4> QED
          BY <1>3, <3>1, <4>1, <4>2
      <3>2. ASSUME NEW l \in 1 .. m, j = x - 1 + l,
                   G[j] = IF H[l] = 0 THEN q ELSE H[l] + (x - 1)
            PROVE  G[i] <= G[j]
        <4>1. H[k] \in Nat /\ H[l] \in Nat /\ l <= k
          BY <1>2, <1>3, <1>5, <2>2, <3>2
        <4>2. CASE H[k] = 0
          BY <1>3, <2>2, <3>2, <4>1, <4>2
        <4>3. CASE H[k] # 0
          <5>1. H[k] < l
            BY <1>3, <1>5, <2>2, <3>2, <4>1, <4>3
          <5>2. H[k] <= H[l]
            BY <1>2, <4>1, <5>1
          <5> QED
            BY <1>3, <2>2, <3>2, <4>1, <4>3, <5>2
        <4> QED
          BY <4>2, <4>3
      <3>3. ASSUME NEW l \in x .. n, j = l + m
            PROVE  FALSE
        BY <1>3, <1>5, <2>2, <3>3
      <3> QED
        BY <1>4, <3>1, <3>2, <3>3
    <2>3. ASSUME NEW k \in x .. n, i = k + m, k \in 1 .. n,
                 G[i] = IF D[k] < x THEN D[k] ELSE D[k] + m
          PROVE  G[i] <= G[j]
      <3>1. D[k] \in Nat
        BY <1>2, <2>3
      <3>2. CASE j \in 1 .. (x - 1) /\ j \in 1 .. n /\ G[j] = D[j]
        <4>1. D[k] < x /\ G[i] = D[k]
          BY <1>3, <1>5, <2>3, <3>1, <3>2
        <4>2. D[k] < j /\ j <= k
          BY <1>3, <1>5, <3>2, <4>1
        <4> QED
          BY <1>2, <2>3, <3>2, <4>1, <4>2
      <3>3. ASSUME NEW l \in 1 .. m, j = x - 1 + l,
                   G[j] = IF H[l] = 0 THEN q ELSE H[l] + (x - 1)
            PROVE  G[i] <= G[j]
        <4>1. D[k] < x /\ G[i] = D[k]
          BY <1>3, <1>5, <2>3, <3>1, <3>3
        <4>2. D[k] <= q /\ H[l] \in Nat
          BY <1>2, <1>3, <3>3, <4>1
        <4> QED
          BY <1>3, <3>1, <3>3, <4>1, <4>2
      <3>4. ASSUME NEW l \in x .. n, j = l + m, l \in 1 .. n,
                   G[j] = IF D[l] < x THEN D[l] ELSE D[l] + m
            PROVE  G[i] <= G[j]
        <4>1. D[l] \in Nat /\ l <= k
          BY <1>2, <1>5, <2>3, <3>4
        <4>2. D[k] < l
          BY <1>3, <1>5, <2>3, <3>1, <3>4
        <4>3. D[k] <= D[l]
          BY <1>2, <2>3, <3>4, <4>1, <4>2
        <4> QED
          BY <1>3, <2>3, <3>1, <3>4, <4>1, <4>3
      <3> QED
        BY <1>4, <3>2, <3>3, <3>4
    <2> QED
      BY <1>4, <2>1, <2>2, <2>3
  <1> QED
    BY <1>1, <1>5 DEF Walk, G

\* The entries of t, as they hang on each other, come in at x under the parent at q.
Hangs(es, q, t, H) ==
    /\ Walk(H, Len(t)) /\ Named(t)
    /\ \A i \in 1 .. Len(es), k \in 1 .. Len(t) : es[i].id # t[k].id
    /\ \A k \in 1 .. Len(t) :
          t[k].parent = IF H[k] = 0 THEN IF q = 0 THEN TopLevel ELSE es[q].id ELSE t[H[k]].id

\* A subtree that hangs below the entry at the gap makes a tree with the others.
LEMMA ArrivedTree ==
    ASSUME NEW E, NEW es \in Seq(E), NEW D, Tree(es, D), NEW x, NEW q, Gap(D, Len(es), x, q),
           NEW t \in Seq(E), NEW H, Hangs(es, q, t, H)
    PROVE  /\ SplicedAs(E, es, x, t, Spliced(es, x, t))
           /\ Tree(Spliced(es, x, t), SplicedWalk(D, Len(es), x, q, H, Len(t)))
  <1> DEFINE n == Len(es)
             m == Len(t)
             r == Spliced(es, x, t)
             G == SplicedWalk(D, n, x, q, H, m)
             M(j) == IF j < x THEN j ELSE j + m
             N(k) == x - 1 + k
  <1>1. n \in Nat /\ m \in Nat /\ x \in 1 .. (n + 1) /\ q \in 0 .. (x - 1)
    BY DEF Gap
  <1>2. /\ Named(es) /\ Linked(es, D) /\ Walk(D, n)
        /\ \A i \in 1 .. n : D[i] \in Nat /\ D[i] < i
    BY DEF Tree, Walk
  <1>3. /\ Named(t) /\ Walk(H, m)
        /\ \A k \in 1 .. m : H[k] \in Nat /\ H[k] < k
        /\ \A i \in 1 .. n, k \in 1 .. m : es[i].id # t[k].id
        /\ \A k \in 1 .. m : t[k].parent = IF H[k] = 0 THEN IF q = 0 THEN TopLevel ELSE es[q].id
                                           ELSE t[H[k]].id
    BY DEF Hangs, Walk
  <1>4. SplicedAs(E, es, x, t, r)
    BY <1>1, SplicedIs
  <1>5. /\ \A j \in 1 .. (x - 1) : G[j] = D[j]
        /\ \A k \in 1 .. m : G[x - 1 + k] = IF H[k] = 0 THEN q ELSE H[k] + (x - 1)
        /\ \A l \in x .. n : G[l + m] = IF D[l] < x THEN D[l] ELSE D[l] + m
        /\ G \in [1 .. (n + m) -> Nat]
        /\ \A j \in 1 .. (n + m) : G[j] < j
    BY <1>1, <1>2, <1>3, SplicedWalkIs
  <1>6. Walk(G, n + m)
    BY <1>1, <1>2, <1>3, SplicedWalks
  <1> HIDE DEF r, G
  <1>7. /\ r \in Seq(E) /\ Len(r) = n + m
        /\ \A j \in 1 .. (x - 1) : r[j] = es[j]
        /\ \A k \in 1 .. m : r[x - 1 + k] = t[k]
        /\ \A j \in x .. n : r[j + m] = es[j]
    BY <1>4 DEF SplicedAs
  <1> HIDE DEF n, m
  <1>8. ASSUME NEW i \in 1 .. (n + m)
        PROVE  \/ \E j \in 1 .. n : i = M(j) /\ r[i] = es[j] /\ G[i] = M(D[j])
               \/ \E k \in 1 .. m : /\ i = N(k) /\ r[i] = t[k]
                                    /\ G[i] = IF H[k] = 0 THEN q ELSE N(H[k])
    <2>1. CASE i < x
      <3>1. i \in 1 .. n /\ i \in 1 .. (x - 1)
        BY <1>1, <2>1
      <3>2. D[i] < x /\ G[i] = D[i] /\ r[i] = es[i]
        BY <1>1, <1>2, <1>5, <1>7, <3>1
      <3> QED
        BY <2>1, <3>1, <3>2
    <2>2. CASE ~(i < x) /\ i < x + m
      <3> DEFINE k == i - (x - 1)
      <3>1. k \in 1 .. m /\ i = x - 1 + k
        BY <1>1, <2>2
      <3> HIDE DEF k
      <3>2. H[k] \in Nat
        BY <1>3, <3>1
      <3>3. G[i] = (IF H[k] = 0 THEN q ELSE H[k] + (x - 1)) /\ r[i] = t[k]
        BY <1>5, <1>7, <3>1
      <3>4. H[k] + (x - 1) = N(H[k])
        BY <1>1, <3>2
      <3> QED
        BY <3>1, <3>3, <3>4
    <2>3. CASE ~(i < x + m)
      <3> DEFINE j == i - m
      <3>1. j \in 1 .. n /\ j \in x .. n /\ i = j + m /\ ~(j < x)
        BY <1>1, <2>3
      <3> HIDE DEF j
      <3>2. G[i] = M(D[j]) /\ r[i] = es[j]
        BY <1>5, <1>7, <3>1
      <3> QED
        BY <3>1, <3>2
    <2> QED
      BY <1>1, <2>1, <2>2, <2>3
  <1>9. ASSUME NEW j \in 1 .. n
        PROVE  M(j) \in 1 .. (n + m) /\ r[M(j)] = es[j]
    <2>1. CASE j < x
      BY <1>1, <1>7, <2>1
    <2>2. CASE ~(j < x)
      <3>1. j \in x .. n /\ M(j) = j + m
        BY <1>1, <2>2
      <3> QED
        BY <1>1, <1>7, <3>1
    <2> QED
      BY <2>1, <2>2
  <1>10. ASSUME NEW k \in 1 .. m
         PROVE  N(k) \in 1 .. (n + m) /\ r[N(k)] = t[k]
    BY <1>1, <1>7
  <1> HIDE DEF N, M
  <1>11. Named(r)
    <2>1. ASSUME NEW i \in 1 .. (n + m), NEW k \in 1 .. (n + m), r[i].id = r[k].id
          PROVE  i = k
      <3>1. ASSUME NEW a \in 1 .. n, i = M(a), r[i] = es[a], NEW b \in 1 .. n, k = M(b), r[k] = es[b]
            PROVE  i = k
        <4>1. a = b
          BY <1>2, <2>1, <3>1 DEF Named, n
        <4> QED
          BY <3>1, <4>1
      <3>2. ASSUME NEW a \in 1 .. m, i = N(a), r[i] = t[a], NEW b \in 1 .. m, k = N(b), r[k] = t[b]
            PROVE  i = k
        <4>1. a = b
          BY <1>3, <2>1, <3>2 DEF Named, m
        <4> QED
          BY <3>2, <4>1
      <3>3. ASSUME NEW a \in 1 .. n, r[i] = es[a], NEW b \in 1 .. m, r[k] = t[b]
            PROVE  FALSE
        BY <1>3, <2>1, <3>3
      <3>4. ASSUME NEW a \in 1 .. m, r[i] = t[a], NEW b \in 1 .. n, r[k] = es[b]
            PROVE  FALSE
        BY <1>3, <2>1, <3>4
      <3>5. \/ \E j \in 1 .. n : i = M(j) /\ r[i] = es[j]
            \/ \E j \in 1 .. m : i = N(j) /\ r[i] = t[j]
        BY <1>8
      <3>6. \/ \E j \in 1 .. n : k = M(j) /\ r[k] = es[j]
            \/ \E j \in 1 .. m : k = N(j) /\ r[k] = t[j]
        BY <1>8
      <3> QED
        BY <3>1, <3>2, <3>3, <3>4, <3>5, <3>6
    <2>2. ASSUME NEW i \in 1 .. (n + m)
          PROVE  r[i].id # TopLevel
      <3>1. \A j \in 1 .. n : es[j].id # TopLevel
        BY <1>2 DEF Named, n
      <3>2. \A j \in 1 .. m : t[j].id # TopLevel
        BY <1>3 DEF Named, m
      <3> QED
        BY <1>8, <3>1, <3>2
    <2> QED
      BY <1>7, <2>1, <2>2 DEF Named
  <1>12. ASSUME NEW i \in 1 .. (n + m)
         PROVE  /\ G[i] = 0 => r[i].parent = TopLevel
                /\ G[i] \in 1 .. (n + m) => r[i].parent = r[G[i]].id
    <2>1. ASSUME NEW k \in 1 .. m, i = N(k), r[i] = t[k], G[i] = IF H[k] = 0 THEN q ELSE N(H[k])
          PROVE  /\ G[i] = 0 => r[i].parent = TopLevel
                 /\ G[i] \in 1 .. (n + m) => r[i].parent = r[G[i]].id
      <3>1. CASE H[k] = 0
        <4>1. G[i] = q /\ r[i].parent = IF q = 0 THEN TopLevel ELSE es[q].id
          BY <1>3, <2>1, <3>1
        <4>2. CASE q = 0
          BY <1>1, <4>1, <4>2
        <4>3. CASE q # 0
          <5>1. q \in 1 .. (x - 1) /\ r[q] = es[q]
            BY <1>1, <1>7, <4>3
          <5> QED
            BY <4>1, <4>3, <5>1
        <4> QED
          BY <4>2, <4>3
      <3>2. CASE H[k] # 0
        <4>1. H[k] \in 1 .. m
          BY <1>1, <1>3, <2>1, <3>2
        <4>2. r[N(H[k])] = t[H[k]] /\ N(H[k]) \in 1 .. (n + m)
          BY <1>10, <4>1
        <4>3. G[i] = N(H[k]) /\ t[k].parent = t[H[k]].id
          BY <1>3, <2>1, <3>2
        <4>4. N(H[k]) # 0
          BY <1>1, <4>2
        <4> QED
          BY <2>1, <4>2, <4>3, <4>4
      <3> QED
        BY <3>1, <3>2
    <2>2. ASSUME NEW j \in 1 .. n, i = M(j), r[i] = es[j], G[i] = M(D[j])
          PROVE  /\ G[i] = 0 => r[i].parent = TopLevel
                 /\ G[i] \in 1 .. (n + m) => r[i].parent = r[G[i]].id
      <3>1. D[j] \in Nat /\ D[j] < j
        BY <1>2, <2>2
      <3>2. CASE D[j] = 0
        <4>1. G[i] = 0 /\ es[j].parent = TopLevel
          BY <1>1, <1>2, <2>2, <3>2 DEF Linked, n, M
        <4> QED
          BY <1>1, <2>2, <4>1
      <3>3. CASE D[j] # 0
        <4>1. D[j] \in 1 .. n
          BY <1>1, <3>1, <3>3
        <4>2. es[j].parent = es[D[j]].id
          BY <1>2, <4>1 DEF Linked, n
        <4>3. r[M(D[j])] = es[D[j]] /\ M(D[j]) \in 1 .. (n + m)
          BY <1>9, <4>1
        <4>4. M(D[j]) # 0
          BY <1>1, <4>3
        <4> QED
          BY <2>2, <4>2, <4>3, <4>4
      <3> QED
        BY <3>2, <3>3
    <2> QED
      BY <1>8, <2>1, <2>2
  <1>13. Tree(r, G)
    BY <1>6, <1>7, <1>11, <1>12 DEF Tree, Linked
  <1> QED
    BY <1>4, <1>13 DEF r, G, n, m

\* A place for arriving entries: the position, and the parent there.
Landing(I, es, D, at, parent) ==
    \E q : /\ Gap(D, Len(es), at, q) /\ parent \in I \cup {TopLevel}
           /\ parent = IF q = 0 THEN TopLevel ELSE es[q].id

\* InsertionPoint finds one, behind any entry and at the end of the Page.
LEMMA InsertionLands ==
    ASSUME NEW I, NEW T, NEW U, NEW es, Page(I, T, U, es), NEW D, Tree(es, D),
           NEW after \in Ids(es) \cup {TopLevel}
    PROVE  Landing(I, es, D, InsertionPoint(es, after).at, InsertionPoint(es, after).parent)
  <1> DEFINE n == Len(es)
             p == InsertionPoint(es, after)
  <1>1. es \in Seq(Entry(I, T, U)) /\ n \in Nat /\ DOMAIN es = 1 .. n
    BY DEF Page
  <1>2. Walk(D, n) /\ Tree(es, D)
    BY DEF Tree
  <1>3. CASE after = TopLevel
    <2>1. p.at = n + 1 /\ p.parent = TopLevel
      BY <1>3 DEF InsertionPoint
    <2>2. Gap(D, n, n + 1, 0)
      BY <1>1, <1>2, LastGap
    <2> QED
      BY <2>1, <2>2 DEF Landing
  <1>4. CASE after # TopLevel
    <2> DEFINE i == PositionOf(es, after)
    <2>1. p.at = SubtreeEnd(es, i) /\ p.parent = es[i].parent
      BY <1>4 DEF InsertionPoint
    <2>2. i \in 1 .. n
      BY <1>1, <1>4, PositionIs
    <2> HIDE DEF i
    <2>3. EndOf(D, n, i, SubtreeEnd(es, i))
      BY <1>1, <1>2, <2>2, SubtreeEndIs
    <2>4. Gap(D, n, SubtreeEnd(es, i), D[i])
      BY <1>1, <1>2, <2>2, <2>3, SiblingGap
    <2>5. es[i].parent = IF D[i] = 0 THEN TopLevel ELSE es[D[i]].id
      BY <1>1, <1>2, <2>2, ParentIs
    <2>6. es[i].parent \in I \cup {TopLevel}
      <3>1. es[i] \in Entry(I, T, U)
        BY <1>1, <2>2
      <3> QED
        BY <3>1 DEF Entry
    <2> QED
      BY <2>1, <2>4, <2>5, <2>6 DEF Landing
  <1> QED
    BY <1>3, <1>4

\* The root of a moving subtree, under its new parent.
Landed(e, p, now) == [e EXCEPT !.parent = p, !.updated = now]

\* A moving subtree, entry by entry.
MovingAs(I, T, U, es, i, e, p, now, t) ==
    /\ t \in Seq(Entry(I, T, U)) /\ Len(t) = e - i
    /\ t[1] = Landed(es[i], p, now)
    /\ \A k \in 2 .. (e - i) : t[k] = es[i + k - 1]

\* That is what MovingSubtree takes along.
LEMMA MovingIs ==
    ASSUME NEW I, NEW T, NEW U, NEW es \in Seq(Entry(I, T, U)), NEW i \in 1 .. Len(es),
           SubtreeEnd(es, i) \in (i + 1) .. (Len(es) + 1),
           NEW p \in I \cup {TopLevel}, NEW now \in U
    PROVE  MovingAs(I, T, U, es, i, SubtreeEnd(es, i), p, now, MovingSubtree(es, i, p, now))
  <1> DEFINE e == SubtreeEnd(es, i)
             s == Slice(es, i, e)
             t == MovingSubtree(es, i, p, now)
             n == e - i
             E == Entry(I, T, U)
  <1>1. Len(es) \in Nat /\ i \in 1 .. (Len(es) + 1) /\ e \in i .. (Len(es) + 1) /\ n \in Nat /\ 1 \in 1 .. n
    OBVIOUS
  <1>2. es[i] \in E
    OBVIOUS
  <1>3. t = [s EXCEPT ![1].parent = p, ![1].updated = now]
    BY DEF MovingSubtree
  <1> HIDE DEF e, t
  <1>4. s \in Seq(E) /\ Len(s) = n /\ \A j \in 1 .. (e - i) : s[j] = es[j + i - 1]
    BY <1>1, SliceIs
  <1> HIDE DEF s
  <1>5. DOMAIN s = 1 .. n /\ \A j \in 1 .. n : s[j] \in E
    BY <1>1, <1>4, LenProperties
  <1>6. s[1] = es[i]
    BY <1>1, <1>4
  <1>7. DOMAIN t = 1 .. n /\ t[1] = Landed(s[1], p, now) /\ \A j \in 1 .. n : j # 1 => t[j] = s[j]
    BY <1>1, <1>3, <1>5 DEF Landed
  <1>8. Landed(es[i], p, now) \in E
    BY <1>2 DEF Entry, Landed
  <1>9. t \in [1 .. n -> E]
    <2>1. t = [j \in 1 .. n |-> t[j]]
      BY <1>3, <1>5
    <2>2. \A j \in 1 .. n : t[j] \in E
      BY <1>5, <1>6, <1>7, <1>8
    <2> HIDE DEF E
    <2> QED
      BY <2>1, <2>2
  <1> HIDE DEF E, n
  <1>10. t \in Seq(E) /\ Len(t) = n
    <2>1. t \in Seq(E)
      BY <1>1, <1>9, SeqDef
    <2> QED
      BY <1>1, <1>7, <2>1, LenProperties
  <1>11. ASSUME NEW k \in 2 .. (e - i)
         PROVE  t[k] = es[i + k - 1]
    <2>1. k \in 1 .. n /\ k # 1 /\ k \in 1 .. (e - i) /\ k + i - 1 = i + k - 1
      BY <1>1 DEF n
    <2> QED
      BY <1>4, <1>7, <2>1
  <1> QED
    BY <1>6, <1>7, <1>10, <1>11 DEF MovingAs, e, t, n, E

\* The entries of t are those of the run from i on, one by one.
AlikeFrom(src, i, e, t) == \A k \in 1 .. (e - i) : t[k].id = src[i + k - 1].id

\* The entries of a moving subtree hang on each other as they did, and on the new parent.
LEMMA MovingHangs ==
    ASSUME NEW I, NEW T, NEW U, NEW src, Page(I, T, U, src), NEW D, Tree(src, D),
           NEW i \in 1 .. Len(src), NEW e, EndOf(D, Len(src), i, e),
           NEW p \in I \cup {TopLevel}, NEW now \in U,
           NEW t, MovingAs(I, T, U, src, i, e, p, now, t),
           NEW es, Ids(src) \cap {es[k].id : k \in 1 .. Len(es)} = {},
           NEW q, p = IF q = 0 THEN TopLevel ELSE es[q].id
    PROVE  Hangs(es, q, t, RunWalk(D, i, e - i)) /\ AlikeFrom(src, i, e, t)
  <1> DEFINE n == Len(src)
             m == e - i
             H == RunWalk(D, i, e - i)
  <1>1. n \in Nat /\ DOMAIN src = 1 .. n /\ \A k \in 1 .. n : src[k] \in Entry(I, T, U)
    BY PageIs
  <1>2. Named(src) /\ Walk(D, n) /\ Linked(src, D)
    BY DEF Tree
  <1>3. e \in (i + 1) .. (n + 1) /\ m \in Nat /\ 1 \in 1 .. m /\ i \in 1 .. n
    BY <1>1 DEF EndOf
  <1>4. /\ Walk(H, m) /\ H[1] = 0
        /\ \A k \in 2 .. m : H[k] = D[i + k - 1] - (i - 1) /\ H[k] \in 1 .. (k - 1)
    BY <1>1, <1>2, RunWalks
  <1>5. Len(t) = m /\ t[1] = Landed(src[i], p, now) /\ \A k \in 2 .. m : t[k] = src[i + k - 1]
    BY DEF MovingAs
  <1> HIDE DEF H
  <1>6. t[1].id = src[i].id /\ t[1].parent = p
    BY <1>1, <1>3, <1>5 DEF Landed, Entry
  <1> HIDE DEF m
  <1>7. ASSUME NEW k \in 1 .. m
        PROVE  i + k - 1 \in 1 .. n /\ t[k].id = src[i + k - 1].id
    <2>1. i + k - 1 \in 1 .. n
      BY <1>1, <1>3 DEF m
    <2>2. CASE k = 1
      <3>1. i + 1 - 1 = i
        BY <1>3
      <3> QED
        BY <1>6, <2>1, <2>2, <3>1
    <2>3. CASE k # 1
      <3>1. k \in 2 .. m
        BY <1>3, <2>3
      <3> QED
        BY <1>5, <2>1, <3>1
    <2> QED
      BY <2>2, <2>3
  <1>8. Named(t)
    <2>1. \A a, b \in 1 .. n : src[a].id = src[b].id => a = b
      BY <1>2 DEF Named
    <2>2. \A a \in 1 .. n : src[a].id # TopLevel
      BY <1>2 DEF Named
    <2>3. ASSUME NEW a \in 1 .. m, NEW b \in 1 .. m, t[a].id = t[b].id
          PROVE  a = b
      <3>1. i + a - 1 = i + b - 1
        BY <1>7, <2>1, <2>3
      <3> QED
        BY <1>3, <3>1
    <2>4. \A a \in 1 .. m : t[a].id # TopLevel
      BY <1>7, <2>2
    <2> QED
      BY <1>5, <2>3, <2>4 DEF Named
  <1>9. ASSUME NEW k \in 1 .. m
        PROVE  t[k].parent = IF H[k] = 0 THEN IF q = 0 THEN TopLevel ELSE es[q].id ELSE t[H[k]].id
    <2>1. CASE k = 1
      BY <1>4, <1>6, <2>1
    <2>2. CASE k # 1
      <3>1. k \in 2 .. m
        BY <1>3, <2>2
      <3>2. H[k] = D[i + k - 1] - (i - 1) /\ H[k] \in 1 .. (k - 1) /\ t[k] = src[i + k - 1]
        BY <1>4, <1>5, <3>1
      <3> DEFINE j == i + k - 1
      <3>3. j \in 1 .. n /\ t[k] = src[j] /\ H[k] = D[j] - (i - 1)
        BY <1>7, <3>2
      <3> HIDE DEF j
      <3>4. D[j] \in Nat
        BY <1>2, <3>3 DEF Walk
      <3>5. H[k] \in 1 .. m /\ H[k] # 0 /\ i + H[k] - 1 = D[j] /\ D[j] # 0
        <4>1. H[k] \in 1 .. (k - 1)
          BY <3>2
        <4>2. H[k] \in Nat /\ H[k] >= 1 /\ H[k] \in 1 .. m
          BY <1>3, <4>1
        <4>3. H[k] = D[j] - (i - 1)
          BY <3>3
        <4> HIDE DEF H
        <4> QED
          BY ONLY <3>4, <4>2, <4>3, i \in 1 .. n, <1>1
      <3>6. t[H[k]].id = src[D[j]].id
        BY <1>7, <3>5
      <3>7. src[j].parent = IF D[j] = 0 THEN TopLevel ELSE src[D[j]].id
        BY <1>1, <3>3, ParentIs
      <3> QED
        BY <3>3, <3>5, <3>6, <3>7
    <2> QED
      BY <2>1, <2>2
  <1>10. ASSUME NEW a \in 1 .. Len(es), NEW k \in 1 .. m
         PROVE  es[a].id # t[k].id
    <2>1. t[k].id \in Ids(src)
      BY <1>1, <1>7 DEF Ids
    <2> QED
      BY <2>1
  <1>11. AlikeFrom(src, i, e, t)
    BY <1>7 DEF m, AlikeFrom
  <1>12. Hangs(es, q, t, H)
    BY <1>4, <1>5, <1>8, <1>9, <1>10 DEF Hangs
  <1> QED
    BY <1>11, <1>12 DEF H

\* The entries of the subtree at i.
SubtreeIds(es, i) == {es[k].id : k \in i .. (SubtreeEnd(es, i) - 1)}

\* A subtree arrives on another Page.
LEMMA ArrivedPage ==
    ASSUME NEW I, NEW T, NEW U, NEW src, Page(I, T, U, src), NEW i \in 1 .. Len(src),
           NEW es, Page(I, T, U, es), Ids(src) \cap Ids(es) = {},
           NEW after \in Ids(es) \cup {TopLevel}, NEW now \in U
    PROVE  LET to == InsertionPoint(es, after)
               r == Spliced(es, to.at, MovingSubtree(src, i, to.parent, now))
           IN  Page(I, T, U, r) /\ Ids(r) = Ids(es) \cup SubtreeIds(src, i)
  <1> DEFINE at == InsertionPoint(es, after).at
             p == InsertionPoint(es, after).parent
             t == MovingSubtree(src, i, p, now)
             r == Spliced(es, at, t)
             e == SubtreeEnd(src, i)
             m == e - i
             n == Len(es)
             E == Entry(I, T, U)
  <1>1. /\ TopLevel \notin I /\ src \in Seq(E) /\ Len(src) \in Nat
        /\ es \in Seq(E) /\ n \in Nat /\ DOMAIN es = 1 .. n
    BY PageIs
  <1>2. PICK D : Tree(src, D)
    BY DEF Page
  <1>3. PICK B : Tree(es, B)
    BY DEF Page
  <1>4. Landing(I, es, B, at, p)
    BY <1>3, InsertionLands
  <1> HIDE DEF at, p
  <1>5. PICK q : /\ Gap(B, n, at, q) /\ p \in I \cup {TopLevel}
                 /\ p = IF q = 0 THEN TopLevel ELSE es[q].id
    BY <1>4 DEF Landing
  <1>6. EndOf(D, Len(src), i, e) /\ e \in (i + 1) .. (Len(src) + 1)
    <2>1. EndOf(D, Len(src), i, e)
      BY <1>1, <1>2, SubtreeEndIs
    <2> QED
      BY <2>1 DEF EndOf
  <1>7. MovingAs(I, T, U, src, i, e, p, now, t)
    BY <1>1, <1>5, <1>6, MovingIs
  <1> HIDE DEF t, e
  <1>8. Ids(src) \cap {es[k].id : k \in 1 .. Len(es)} = {}
    BY <1>1 DEF Ids
  <1>9. Hangs(es, q, t, RunWalk(D, i, e - i)) /\ AlikeFrom(src, i, e, t)
    BY <1>2, <1>5, <1>6, <1>7, <1>8, MovingHangs
  <1>10. t \in Seq(E) /\ Len(t) = m
    BY <1>7 DEF MovingAs
  <1> DEFINE H == RunWalk(D, i, e - i)
             G == SplicedWalk(B, n, at, q, H, Len(t))
  <1>11. Hangs(es, q, t, H)
    BY <1>9
  <1> HIDE DEF H, E
  <1>12. SplicedAs(E, es, at, t, r) /\ Tree(r, G)
    BY <1>1, <1>3, <1>5, <1>10, <1>11, ArrivedTree
  <1> HIDE DEF r, G
  <1>13. Page(I, T, U, r)
    BY <1>1, <1>12 DEF Page, SplicedAs, E
  <1>14. at \in 1 .. (n + 1) /\ m \in Nat
    BY <1>5, <1>6 DEF Gap
  <1> HIDE DEF n, m
  <1>15. /\ r \in Seq(E) /\ Len(r) = n + m
         /\ \A j \in 1 .. (at - 1) : r[j] = es[j]
         /\ \A j \in 1 .. m : r[at - 1 + j] = t[j]
         /\ \A j \in at .. n : r[j + m] = es[j]
    BY <1>10, <1>12 DEF SplicedAs, n
  <1>16. DOMAIN r = 1 .. (n + m)
    BY <1>15, LenProperties
  <1>17. \A k \in 1 .. m : i + k - 1 \in i .. (e - 1) /\ t[k].id = src[i + k - 1].id
    BY <1>6, <1>9 DEF m, AlikeFrom
  <1>18. ASSUME NEW j \in 1 .. (n + m)
         PROVE  r[j].id \in Ids(es) \cup SubtreeIds(src, i)
    <2>1. CASE j < at
      <3>1. j \in 1 .. (at - 1) /\ j \in 1 .. n
        BY <1>1, <1>14, <2>1
      <3>2. r[j] = es[j]
        BY <1>15, <3>1
      <3> QED
        BY <1>1, <3>1, <3>2 DEF Ids
    <2>2. CASE ~(j < at) /\ j < at + m
      <3> DEFINE k == j - (at - 1)
      <3>1. k \in 1 .. m /\ j = at - 1 + k
        BY <1>14, <2>2
      <3> HIDE DEF k
      <3>2. r[j].id = src[i + k - 1].id /\ i + k - 1 \in i .. (e - 1)
        BY <1>15, <1>17, <3>1
      <3> QED
        BY <3>2 DEF SubtreeIds, e
    <2>3. CASE ~(j < at + m)
      <3> DEFINE k == j - m
      <3>1. k \in at .. n /\ k \in 1 .. n /\ j = k + m
        BY <1>1, <1>14, <2>3
      <3> HIDE DEF k
      <3>2. r[j] = es[k]
        BY <1>15, <3>1
      <3> QED
        BY <1>1, <3>1, <3>2 DEF Ids
    <2> QED
      BY <1>14, <2>1, <2>2, <2>3
  <1>19. ASSUME NEW j \in 1 .. n
         PROVE  es[j].id \in Ids(r)
    <2>1. CASE j < at
      <3>1. j \in 1 .. (at - 1) /\ j \in 1 .. (n + m)
        BY <1>1, <1>14, <2>1
      <3>2. r[j] = es[j]
        BY <1>15, <3>1
      <3> QED
        BY <1>16, <3>1, <3>2 DEF Ids
    <2>2. CASE ~(j < at)
      <3>1. j \in at .. n /\ j + m \in 1 .. (n + m)
        BY <1>1, <1>14, <2>2
      <3>2. r[j + m] = es[j]
        BY <1>15, <3>1
      <3> QED
        BY <1>16, <3>1, <3>2 DEF Ids
    <2> QED
      BY <2>1, <2>2
  <1>20. ASSUME NEW k \in i .. (e - 1)
         PROVE  src[k].id \in Ids(r)
    <2> DEFINE j == k - (i - 1)
    <2>1. j \in 1 .. m /\ i + j - 1 = k /\ at - 1 + j \in 1 .. (n + m)
      BY <1>1, <1>6, <1>14 DEF m
    <2> HIDE DEF j
    <2>2. r[at - 1 + j].id = src[k].id
      BY <1>15, <1>17, <2>1
    <2> QED
      BY <1>16, <2>1, <2>2 DEF Ids
  <1>21. Ids(r) = Ids(es) \cup SubtreeIds(src, i)
    <2>1. \A x \in Ids(r) : x \in Ids(es) \cup SubtreeIds(src, i)
      BY <1>16, <1>18 DEF Ids
    <2>2. \A x \in Ids(es) : x \in Ids(r)
      BY <1>1, <1>19 DEF Ids
    <2>3. \A x \in SubtreeIds(src, i) : x \in Ids(r)
      BY <1>20 DEF SubtreeIds, e
    <2> QED
      BY <2>1, <2>2, <2>3
  <1> QED
    BY <1>13, <1>21 DEF r, t, at, p

\* Nothing outside a subtree depends on it.
LEMMA SubtreeStandsApart ==
    ASSUME NEW n \in Nat, NEW D, Walk(D, n), NEW i \in 1 .. n, NEW e, EndOf(D, n, i, e)
    PROVE  SubtreesApart(D, n, i, e)
  <1>1. \A j \in 1 .. n : D[j] \in Nat /\ D[j] < j
    BY DEF Walk
  <1>2. e \in (i + 1) .. (n + 1)
    BY DEF EndOf
  <1>3. \A k \in e .. n : D[k] < e => D[k] <= D[i]
    BY SiblingGap DEF Gap
  <1>4. ASSUME NEW j \in 1 .. n, j \notin i .. (e - 1)
        PROVE  D[j] \notin i .. (e - 1)
    <2>1. D[j] \in Nat /\ D[j] < j /\ D[i] \in Nat /\ D[i] < i
      BY <1>1
    <2>2. CASE j < i
      BY <1>2, <2>1, <2>2
    <2>3. CASE e <= j
      <3>1. D[j] < e => D[j] <= D[i]
        BY <1>2, <1>3, <2>3
      <3> QED
        BY <1>2, <2>1, <3>1
    <2> QED
      BY <1>2, <1>4, <2>2, <2>3
  <1> QED
    BY <1>4 DEF SubtreesApart

\* What is left when a subtree has gone is a Page with the other entries.
LEMMA LeftPage ==
    ASSUME NEW I, NEW T, NEW U, NEW es, Page(I, T, U, es), NEW i \in 1 .. Len(es)
    PROVE  LET r == Without(es, i, SubtreeEnd(es, i))
           IN  Page(I, T, U, r) /\ Ids(r) = Ids(es) \ SubtreeIds(es, i)
  <1> DEFINE n == Len(es)
             e == SubtreeEnd(es, i)
             m == n - (e - i)
             r == Without(es, i, e)
             E == Entry(I, T, U)
  <1>1. TopLevel \notin I /\ es \in Seq(E) /\ n \in Nat /\ DOMAIN es = 1 .. n
    BY PageIs
  <1>2. PICK D : Tree(es, D)
    BY DEF Page
  <1>3. EndOf(D, n, i, e) /\ Walk(D, n) /\ Named(es)
    BY <1>1, <1>2, SubtreeEndIs DEF Tree
  <1>4. e \in (i + 1) .. (n + 1) /\ m \in Nat
    BY <1>1, <1>3 DEF EndOf
  <1>5. SubtreesApart(D, n, i, e)
    BY <1>1, <1>3, SubtreeStandsApart
  <1>6. /\ r \in Seq(E) /\ Len(r) = m
        /\ \A j \in 1 .. m : r[j] = es[KeptPlace(i, e, j)]
        /\ \E G : Remains(es, D, i, e, G)
    <2> HIDE DEF e
    <2> QED
      BY <1>1, <1>2, <1>4, <1>5, WithoutTree
  <1>7. Page(I, T, U, r)
    <2>1. PICK G : Remains(es, D, i, e, G)
      BY <1>6
    <2>2. Tree(r, G)
      BY <2>1 DEF Remains
    <2> QED
      BY <1>1, <1>6, <2>2 DEF Page
  <1>8. DOMAIN r = 1 .. m
    BY <1>6, LenProperties
  <1> HIDE DEF r, e
  <1>9. ASSUME NEW j \in 1 .. m
        PROVE  /\ KeptPlace(i, e, j) \in 1 .. n /\ KeptPlace(i, e, j) \notin i .. (e - 1)
    BY <1>1, <1>4 DEF KeptPlace
  <1>10. ASSUME NEW k \in 1 .. n, k \notin i .. (e - 1)
         PROVE  \E j \in 1 .. m : KeptPlace(i, e, j) = k
    <2>1. CASE k < i
      <3>1. k \in 1 .. m /\ KeptPlace(i, e, k) = k
        BY <1>1, <1>4, <2>1 DEF KeptPlace
      <3> QED
        BY <3>1
    <2>2. CASE ~(k < i)
      <3> DEFINE j == k - (e - i)
      <3>1. j \in 1 .. m /\ ~(j < i) /\ j + (e - i) = k
        BY <1>1, <1>4, <1>10, <2>2
      <3> HIDE DEF j
      <3>2. KeptPlace(i, e, j) = k
        BY <3>1 DEF KeptPlace
      <3> QED
        BY <3>1, <3>2
    <2> QED
      BY <2>1, <2>2
  <1>11. \A a, b \in 1 .. n : es[a].id = es[b].id => a = b
    BY <1>3 DEF Named
  <1>12. i .. (e - 1) \subseteq 1 .. n
    BY <1>1, <1>4
  <1> HIDE DEF m, n
  <1>13. ASSUME NEW x \in Ids(r)
         PROVE  x \in Ids(es) \ SubtreeIds(es, i)
    <2>1. PICK j \in 1 .. m : x = r[j].id
      BY <1>8 DEF Ids
    <2> DEFINE k == KeptPlace(i, e, j)
    <2>2. k \in 1 .. n /\ k \notin i .. (e - 1) /\ x = es[k].id
      BY <1>6, <1>9, <2>1
    <2> HIDE DEF k
    <2>3. x \in Ids(es)
      BY <1>1, <2>2 DEF Ids
    <2>4. ASSUME NEW l \in i .. (e - 1), es[l].id = x
          PROVE  FALSE
      BY <1>11, <1>12, <2>2, <2>4
    <2> QED
      BY <2>3, <2>4 DEF SubtreeIds, e
  <1>14. ASSUME NEW x \in Ids(es) \ SubtreeIds(es, i)
         PROVE  x \in Ids(r)
    <2>1. PICK k \in 1 .. n : x = es[k].id
      BY <1>1 DEF Ids
    <2>2. k \notin i .. (e - 1)
      BY <2>1 DEF SubtreeIds, e
    <2>3. PICK j \in 1 .. m : KeptPlace(i, e, j) = k
      BY <1>10, <2>2
    <2>4. r[j] = es[k]
      BY <1>6, <2>3
    <2> QED
      BY <1>8, <2>1, <2>4 DEF Ids
  <1>15. Ids(r) = Ids(es) \ SubtreeIds(es, i)
    BY <1>13, <1>14
  <1> QED
    BY <1>7, <1>15 DEF r, e

\* The subtree of an entry is part of the Page, and has its root.
LEMMA SubtreeIdsIn ==
    ASSUME NEW I, NEW T, NEW U, NEW es, Page(I, T, U, es), NEW i \in 1 .. Len(es)
    PROVE  SubtreeIds(es, i) \subseteq Ids(es)
  <1> DEFINE n == Len(es)
             e == SubtreeEnd(es, i)
  <1>1. n \in Nat /\ DOMAIN es = 1 .. n
    BY PageIs
  <1>2. PICK D : Tree(es, D)
    BY DEF Page
  <1>3. EndOf(D, n, i, e)
    BY <1>1, <1>2, SubtreeEndIs
  <1>4. i .. (e - 1) \subseteq 1 .. n
    BY <1>1, <1>3 DEF EndOf
  <1> HIDE DEF e, n
  <1>5. SubtreeIds(es, i) = {es[k].id : k \in i .. (e - 1)}
    BY DEF SubtreeIds, e
  <1> QED
    BY <1>1, <1>4, <1>5 DEF Ids

-----------------------------------------------------------------------------
\* Positions in rising order, and the identifiers of the entries there.

\* The numbers of K in rising order.
Lists(q, K) ==
    /\ q \in Seq(Nat)
    /\ \A i, j \in 1 .. Len(q) : i < j => q[i] < q[j]
    /\ \A i \in 1 .. Len(q) : q[i] \in K
    /\ \A k \in K : \E i \in 1 .. Len(q) : q[i] = k

\* The identifiers of the entries at these positions.
IdsAt(es, q) == [j \in 1 .. Len(q) |-> es[q[j]].id]

\* They are as many.
LEMMA IdsAtIs ==
    ASSUME NEW es, NEW I, NEW q \in Seq(Nat), \A j \in 1 .. Len(q) : es[q[j]].id \in I
    PROVE  /\ IdsAt(es, q) \in Seq(I) /\ Len(IdsAt(es, q)) = Len(q)
           /\ \A j \in 1 .. Len(q) : IdsAt(es, q)[j] = es[q[j]].id
  <1> DEFINE f == IdsAt(es, q)
  <1>1. Len(q) \in Nat
    OBVIOUS
  <1>2. f \in [1 .. Len(q) -> I]
    BY DEF IdsAt
  <1>3. \A j \in 1 .. Len(q) : f[j] = es[q[j]].id
    BY DEF IdsAt
  <1> HIDE DEF f
  <1>4. f \in Seq(I)
    BY <1>1, <1>2, SeqDef
  <1>5. Len(f) = Len(q)
    BY <1>1, <1>2, <1>4, LenProperties
  <1> QED
    BY <1>3, <1>4, <1>5 DEF f

\* Nothing lists nothing.
LEMMA ListingNone ==
    /\ Lists(<<>>, {})
    /\ \A q : Lists(q, {}) => q = <<>>
  <1>1. Lists(<<>>, {})
    BY DEF Lists
  <1>2. ASSUME NEW q, Lists(q, {})
        PROVE  q = <<>>
    <2>1. q \in Seq(Nat) /\ \A i \in 1 .. Len(q) : q[i] \in {}
      BY <1>2 DEF Lists
    <2>2. Len(q) \in Nat /\ 1 .. Len(q) = {}
      BY <2>1
    <2>3. Len(q) = 0
      BY <2>2
    <2> QED
      BY <2>1, <2>3, EmptySeq
  <1> QED
    BY <1>1, <1>2

\* One run of numbers before another.
LEMMA ListingConcat ==
    ASSUME NEW q, NEW K, Lists(q, K), NEW r, NEW M, Lists(r, M),
           \A x \in K, y \in M : x < y
    PROVE  Lists(q \o r, K \cup M)
  <1> DEFINE c == q \o r
             m == Len(q)
             n == Len(r)
  <1>1. /\ q \in Seq(Nat) /\ m \in Nat
        /\ \A i, j \in 1 .. m : i < j => q[i] < q[j]
        /\ \A i \in 1 .. m : q[i] \in K
        /\ \A k \in K : \E i \in 1 .. m : q[i] = k
    BY DEF Lists
  <1>2. /\ r \in Seq(Nat) /\ n \in Nat
        /\ \A i, j \in 1 .. n : i < j => r[i] < r[j]
        /\ \A i \in 1 .. n : r[i] \in M
        /\ \A k \in M : \E i \in 1 .. n : r[i] = k
    BY DEF Lists
  <1>3. /\ c \in Seq(Nat) /\ Len(c) = m + n
        /\ \A j \in 1 .. m : c[j] = q[j]
        /\ \A j \in 1 .. n : c[m + j] = r[j]
    BY <1>1, <1>2, ConcatIs
  <1> HIDE DEF c, m, n
  <1>4. \A i \in 1 .. (m + n) : i \notin 1 .. m => i - m \in 1 .. n /\ m + (i - m) = i
    BY <1>1, <1>2
  <1>5. ASSUME NEW i \in 1 .. (m + n), NEW j \in 1 .. (m + n), i < j
        PROVE  c[i] < c[j]
    <2>1. CASE j \in 1 .. m
      <3>1. i \in 1 .. m
        BY <1>1, <1>5, <2>1
      <3> QED
        BY <1>1, <1>3, <1>5, <2>1, <3>1
    <2>2. CASE i \in 1 .. m /\ j \notin 1 .. m
      <3>1. c[j] = r[j - m] /\ j - m \in 1 .. n
        BY <1>3, <1>4, <2>2
      <3>2. c[i] \in K /\ c[j] \in M
        BY <1>1, <1>2, <1>3, <2>2, <3>1
      <3> QED
        BY <3>2
    <2>3. CASE i \notin 1 .. m /\ j \notin 1 .. m
      <3>1. /\ c[j] = r[j - m] /\ j - m \in 1 .. n
            /\ c[i] = r[i - m] /\ i - m \in 1 .. n
        BY <1>3, <1>4, <2>3
      <3>2. i - m < j - m
        BY <1>1, <1>2, <1>5
      <3> QED
        BY <1>2, <3>1, <3>2
    <2> QED
      BY <2>1, <2>2, <2>3
  <1>6. ASSUME NEW i \in 1 .. (m + n)
        PROVE  c[i] \in K \cup M
    <2>1. CASE i \in 1 .. m
      BY <1>1, <1>3, <2>1
    <2>2. CASE i \notin 1 .. m
      <3>1. i - m \in 1 .. n /\ c[i] = r[i - m]
        BY <1>3, <1>4, <2>2
      <3> QED
        BY <1>2, <3>1
    <2> QED
      BY <2>1, <2>2
  <1>7. ASSUME NEW k \in K \cup M
        PROVE  \E i \in 1 .. (m + n) : c[i] = k
    <2>1. CASE k \in K
      <3>1. PICK i \in 1 .. m : q[i] = k
        BY <1>1, <2>1
      <3>2. i \in 1 .. (m + n)
        BY <1>1, <1>2
      <3> QED
        BY <1>3, <3>1, <3>2
    <2>2. CASE k \in M
      <3>1. PICK i \in 1 .. n : r[i] = k
        BY <1>2, <2>2
      <3>2. m + i \in 1 .. (m + n)
        BY <1>1, <1>2
      <3> QED
        BY <1>3, <3>1, <3>2
    <2> QED
      BY <2>1, <2>2
  <1> QED
    BY <1>3, <1>5, <1>6, <1>7 DEF Lists, c

\* The identifiers of two runs.
LEMMA IdsAtConcat ==
    ASSUME NEW es, NEW I, NEW q \in Seq(Nat), NEW r \in Seq(Nat),
           \A j \in 1 .. Len(q) : es[q[j]].id \in I, \A j \in 1 .. Len(r) : es[r[j]].id \in I
    PROVE  IdsAt(es, q \o r) = IdsAt(es, q) \o IdsAt(es, r)
  <1> DEFINE c == q \o r
             m == Len(q)
             n == Len(r)
  <1>1. /\ c \in Seq(Nat) /\ Len(c) = m + n
        /\ \A j \in 1 .. m : c[j] = q[j]
        /\ \A j \in 1 .. n : c[m + j] = r[j]
    BY ConcatIs
  <1>2. m \in Nat /\ n \in Nat
    OBVIOUS
  <1> HIDE DEF c
  <1>3. \A i \in 1 .. (m + n) : i \notin 1 .. m => i - m \in 1 .. n /\ m + (i - m) = i
    BY <1>2
  <1>4. ASSUME NEW j \in 1 .. Len(c)
        PROVE  es[c[j]].id \in I
    <2>1. j \in 1 .. (m + n)
      BY <1>1
    <2>2. CASE j \in 1 .. m
      BY <1>1, <2>2
    <2>3. CASE j \notin 1 .. m
      <3>1. j - m \in 1 .. n /\ c[j] = r[j - m]
        BY <1>1, <1>3, <2>1, <2>3
      <3> QED
        BY <3>1
    <2> QED
      BY <2>2, <2>3
  <1>5. /\ IdsAt(es, q) \in Seq(I) /\ Len(IdsAt(es, q)) = m
        /\ \A j \in 1 .. m : IdsAt(es, q)[j] = es[q[j]].id
    BY IdsAtIs
  <1>6. /\ IdsAt(es, r) \in Seq(I) /\ Len(IdsAt(es, r)) = n
        /\ \A j \in 1 .. n : IdsAt(es, r)[j] = es[r[j]].id
    BY IdsAtIs
  <1>7. /\ IdsAt(es, c) \in Seq(I) /\ Len(IdsAt(es, c)) = m + n
        /\ \A j \in 1 .. (m + n) : IdsAt(es, c)[j] = es[c[j]].id
    <2>1. /\ IdsAt(es, c) \in Seq(I) /\ Len(IdsAt(es, c)) = Len(c)
          /\ \A j \in 1 .. Len(c) : IdsAt(es, c)[j] = es[c[j]].id
      BY <1>1, <1>4, IdsAtIs
    <2> QED
      BY <1>1, <2>1
  <1> DEFINE x == IdsAt(es, q)
             y == IdsAt(es, r)
             z == IdsAt(es, c)
             t == x \o y
  <1> HIDE DEF m, n, x, y, z, t
  <1>8. /\ t \in Seq(I) /\ Len(t) = m + n
        /\ \A j \in 1 .. m : t[j] = x[j]
        /\ \A j \in 1 .. n : t[m + j] = y[j]
    <2>1. x \in Seq(I) /\ y \in Seq(I) /\ Len(x) = m /\ Len(y) = n
      BY <1>5, <1>6 DEF x, y
    <2>2. /\ x \o y \in Seq(I) /\ Len(x \o y) = Len(x) + Len(y)
          /\ \A j \in 1 .. Len(x) : (x \o y)[j] = x[j]
          /\ \A j \in 1 .. Len(y) : (x \o y)[Len(x) + j] = y[j]
      <3>1. x \in Seq(I)
        BY <2>1
      <3>2. y \in Seq(I)
        BY <2>1
      <3> QED
        BY ONLY <3>1, <3>2, ConcatIs
    <2> QED
      BY <2>1, <2>2 DEF t
  <1>9. ASSUME NEW i \in 1 .. (m + n)
        PROVE  z[i] = t[i]
    <2>1. CASE i \in 1 .. m
      <3>1. c[i] = q[i] /\ x[i] = es[q[i]].id /\ z[i] = es[c[i]].id /\ t[i] = x[i]
        BY <1>1, <1>5, <1>7, <1>8, <2>1 DEF x, z, m, n
      <3> QED
        BY <3>1
    <2>2. CASE i \notin 1 .. m
      <3>1. i - m \in 1 .. n /\ m + (i - m) = i
        BY <1>3, <2>2 DEF m, n
      <3>2. c[i] = r[i - m]
        BY <1>1, <3>1 DEF m, n
      <3>3. t[i] = y[i - m]
        BY <1>8, <3>1
      <3>4. y[i - m] = es[r[i - m]].id
        BY <1>6, <3>1 DEF y, n
      <3>5. z[i] = es[c[i]].id
        BY <1>7 DEF z, m, n
      <3> QED
        BY <3>2, <3>3, <3>4, <3>5
    <2> QED
      BY <2>1, <2>2
  <1>10. z = t
    BY <1>7, <1>8, <1>9, SeqEqual DEF z
  <1> QED
    BY <1>10 DEF x, y, z, t, c

\* The least number comes first.
LEMMA ListingFirst ==
    ASSUME NEW q, NEW K, Lists(q, K), NEW m \in K, m \in Nat, \A x \in K : m <= x
    PROVE  q # <<>> /\ q[1] = m /\ Head(q) = m /\ Lists(Tail(q), K \ {m}) /\ Len(q) >= 1
  <1> DEFINE n == Len(q)
             t == Tail(q)
  <1>1. /\ q \in Seq(Nat) /\ n \in Nat
        /\ \A i, j \in 1 .. n : i < j => q[i] < q[j]
        /\ \A i \in 1 .. n : q[i] \in K /\ q[i] \in Nat
        /\ \A k \in K : \E i \in 1 .. n : q[i] = k
    BY DEF Lists
  <1>2. PICK i \in 1 .. n : q[i] = m
    BY <1>1
  <1>3. 1 \in 1 .. n /\ n >= 1
    BY <1>1, <1>2
  <1>4. q[1] = m
    <2>1. CASE i = 1
      BY <1>2, <2>1
    <2>2. CASE i # 1
      <3>1. 1 < i
        BY <1>1, <1>2, <2>2
      <3>2. q[1] < m /\ m <= q[1] /\ q[1] \in Nat
        BY <1>1, <1>2, <1>3, <3>1
      <3> QED
        BY <3>2
    <2> QED
      BY <2>1, <2>2
  <1>5. q # <<>>
    BY <1>1, <1>3
  <1>6. Head(q) = q[1]
    BY <1>1, <1>5
  <1>7. /\ t \in Seq(Nat) /\ Len(t) = n - 1
        /\ \A j \in 1 .. (n - 1) : t[j] = q[j + 1]
    BY <1>1, <1>5, HeadTailProperties
  <1> HIDE DEF n, t
  <1>8. \A j \in 1 .. (n - 1) : j + 1 \in 1 .. n /\ 1 < j + 1
    BY <1>1
  <1>9. \A j, k \in 1 .. (n - 1) : j < k => t[j] < t[k]
    <2> SUFFICES ASSUME NEW j \in 1 .. (n - 1), NEW k \in 1 .. (n - 1), j < k
                 PROVE  t[j] < t[k]
      OBVIOUS
    <2>1. j + 1 < k + 1
      BY <1>1
    <2> QED
      BY <1>1, <1>7, <1>8, <2>1
  <1>10. ASSUME NEW j \in 1 .. (n - 1)
         PROVE  t[j] \in K \ {m}
    <2>1. t[j] = q[j + 1] /\ q[1] < q[j + 1]
      BY <1>1, <1>3, <1>7, <1>8
    <2>2. q[j + 1] \in K /\ q[j + 1] # m
      BY <1>1, <1>4, <1>8, <2>1
    <2> QED
      BY <2>1, <2>2
  <1>11. ASSUME NEW k \in K \ {m}
         PROVE  \E j \in 1 .. (n - 1) : t[j] = k
    <2>1. PICK j \in 1 .. n : q[j] = k
      BY <1>1
    <2>2. j # 1
      BY <1>4, <2>1
    <2>3. j - 1 \in 1 .. (n - 1) /\ (j - 1) + 1 = j
      BY <1>1, <2>2
    <2> QED
      BY <1>7, <2>1, <2>3
  <1>12. Lists(t, K \ {m})
    BY <1>7, <1>9, <1>10, <1>11 DEF Lists
  <1> QED
    BY <1>3, <1>4, <1>5, <1>6, <1>12 DEF t, n

\* The identifiers after the first.
LEMMA IdsAtTail ==
    ASSUME NEW es, NEW I, NEW q \in Seq(Nat), q # <<>>,
           \A j \in 1 .. Len(q) : es[q[j]].id \in I
    PROVE  /\ IdsAt(es, q) # <<>> /\ Head(IdsAt(es, q)) = es[q[1]].id
           /\ Tail(IdsAt(es, q)) = IdsAt(es, Tail(q))
  <1> DEFINE n == Len(q)
             t == Tail(q)
             x == IdsAt(es, q)
             y == IdsAt(es, t)
             z == Tail(x)
  <1>1. n \in Nat /\ n # 0
    BY EmptySeq
  <1>2. /\ t \in Seq(Nat) /\ Len(t) = n - 1
        /\ \A j \in 1 .. (n - 1) : t[j] = q[j + 1]
    BY HeadTailProperties
  <1>3. /\ x \in Seq(I) /\ Len(x) = n
        /\ \A j \in 1 .. n : x[j] = es[q[j]].id
    BY IdsAtIs
  <1> HIDE DEF t, x
  <1>4. \A j \in 1 .. (n - 1) : j + 1 \in 1 .. n
    BY <1>1
  <1>5. \A j \in 1 .. Len(t) : es[t[j]].id \in I
    BY <1>2, <1>4
  <1>6. /\ y \in Seq(I) /\ Len(y) = n - 1
        /\ \A j \in 1 .. (n - 1) : y[j] = es[t[j]].id
    <2>1. /\ y \in Seq(I) /\ Len(y) = Len(t)
          /\ \A j \in 1 .. Len(t) : y[j] = es[t[j]].id
      BY <1>2, <1>5, IdsAtIs
    <2> QED
      BY <1>2, <2>1
  <1> HIDE DEF n, y
  <1>7. x # <<>> /\ Head(x) = x[1] /\ 1 \in 1 .. n
    BY <1>1, <1>3
  <1>8. /\ z \in Seq(I) /\ Len(z) = n - 1
        /\ \A j \in 1 .. (n - 1) : z[j] = x[j + 1]
    BY <1>3, <1>7, HeadTailProperties
  <1> HIDE DEF z
  <1>9. \A j \in 1 .. (n - 1) : z[j] = y[j]
    BY <1>2, <1>3, <1>4, <1>6, <1>8
  <1>10. z = y
    BY <1>6, <1>8, <1>9, SeqEqual
  <1> QED
    BY <1>3, <1>7, <1>10 DEF z, y, x, t

\* No positions, no identifiers.
LEMMA IdsAtNone == \A es : IdsAt(es, <<>>) = <<>>
  <1> SUFFICES ASSUME NEW es
               PROVE  IdsAt(es, <<>>) = <<>>
    OBVIOUS
  <1>1. Len(<<>>) = 0 /\ 1 .. 0 = {}
    OBVIOUS
  <1> QED
    BY <1>1 DEF IdsAt
-----------------------------------------------------------------------------
\* What an edit leaves of the children of each entry, and of its time.
ChildAt(es, x, i) == i \in 1 .. Len(es) /\ es[i].parent = x

\* The children of x are the same, in the same order.
Keeps(es, rs, x) ==
    /\ \A i : ChildAt(es, x, i) => \E k : ChildAt(rs, x, k) /\ rs[k].id = es[i].id
    /\ \A k : ChildAt(rs, x, k) => \E i : ChildAt(es, x, i) /\ rs[k].id = es[i].id
    /\ \A i, j, k, l :
          /\ ChildAt(es, x, i) /\ ChildAt(es, x, j) /\ i < j
          /\ ChildAt(rs, x, k) /\ es[i].id = rs[k].id
          /\ ChildAt(rs, x, l) /\ es[j].id = rs[l].id
          => k < l

\* f leads from the places of the children of x in es to those in rs, in order.
Aligns(es, rs, x, f) ==
    /\ \A i : ChildAt(es, x, i) => ChildAt(rs, x, f[i]) /\ rs[f[i]].id = es[i].id
    /\ \A i, j : ChildAt(es, x, i) /\ ChildAt(es, x, j) /\ i < j => f[i] < f[j]
    /\ \A k : ChildAt(rs, x, k) => \E i : ChildAt(es, x, i) /\ f[i] = k

\* Children whose places are led to in order are kept, either way round.
LEMMA AlignedKeeps ==
    ASSUME NEW es, NEW rs, Named(es), Named(rs), NEW x, NEW f, Aligns(es, rs, x, f)
    PROVE  Keeps(es, rs, x) /\ Keeps(rs, es, x)
  <1>1. /\ \A i : ChildAt(es, x, i) => ChildAt(rs, x, f[i]) /\ rs[f[i]].id = es[i].id
        /\ \A i, j : ChildAt(es, x, i) /\ ChildAt(es, x, j) /\ i < j => f[i] < f[j]
        /\ \A k : ChildAt(rs, x, k) => \E i : ChildAt(es, x, i) /\ f[i] = k
    BY DEF Aligns
  <1>2. \A i, k : ChildAt(es, x, i) /\ ChildAt(rs, x, k) /\ es[i].id = rs[k].id => k = f[i]
    <2>1. ASSUME NEW i, NEW k, ChildAt(es, x, i), ChildAt(rs, x, k), es[i].id = rs[k].id
          PROVE  k = f[i]
      <3>1. ChildAt(rs, x, f[i]) /\ rs[f[i]].id = es[i].id
        BY <1>1, <2>1
      <3>2. k \in 1 .. Len(rs) /\ f[i] \in 1 .. Len(rs)
        BY <2>1, <3>1 DEF ChildAt
      <3> QED
        BY <2>1, <3>1, <3>2 DEF Named
    <2> QED
      BY <2>1
  <1>3. \A i : ChildAt(es, x, i) => i \in Int
    BY DEF ChildAt
  <1>4. \A k : ChildAt(rs, x, k) => k \in Int
    BY DEF ChildAt
  <1>5. Keeps(es, rs, x)
    <2>1. ASSUME NEW i, NEW j, NEW k, NEW l, ChildAt(es, x, i), ChildAt(es, x, j), i < j,
                 ChildAt(rs, x, k), es[i].id = rs[k].id, ChildAt(rs, x, l), es[j].id = rs[l].id
          PROVE  k < l
      <3>1. k = f[i] /\ l = f[j]
        BY <1>2, <2>1
      <3> QED
        BY <1>1, <2>1, <3>1
    <2>2. \A i : ChildAt(es, x, i) => \E k : ChildAt(rs, x, k) /\ rs[k].id = es[i].id
      BY <1>1
    <2>3. \A k : ChildAt(rs, x, k) => \E i : ChildAt(es, x, i) /\ rs[k].id = es[i].id
      <3>1. ASSUME NEW k, ChildAt(rs, x, k)
            PROVE  \E i : ChildAt(es, x, i) /\ rs[k].id = es[i].id
        <4>1. PICK i : ChildAt(es, x, i) /\ f[i] = k
          BY <1>1, <3>1
        <4> QED
          BY <1>1, <4>1
      <3> QED
        BY <3>1
    <2> QED
      BY <2>1, <2>2, <2>3 DEF Keeps
  <1>6. ASSUME NEW i, NEW j, NEW k, NEW l, ChildAt(rs, x, i), ChildAt(rs, x, j), i < j,
               ChildAt(es, x, k), rs[i].id = es[k].id, ChildAt(es, x, l), rs[j].id = es[l].id
        PROVE  k < l
    <2>1. i = f[k] /\ j = f[l]
      BY <1>2, <1>6
    <2>2. k \in Int /\ l \in Int /\ i \in Int /\ j \in Int
      BY <1>3, <1>4, <1>6
    <2>3. CASE k = l
      BY <1>6, <2>1, <2>2, <2>3
    <2>4. CASE l < k
      <3>1. f[l] < f[k]
        BY <1>1, <1>6, <2>4
      <3> QED
        BY <1>6, <2>1, <2>2, <3>1
    <2> QED
      BY <2>2, <2>3, <2>4
  <1>7. Keeps(rs, es, x)
    <2>1. \A i : ChildAt(rs, x, i) => \E k : ChildAt(es, x, k) /\ es[k].id = rs[i].id
      BY <1>1
    <2>2. \A k : ChildAt(es, x, k) => \E i : ChildAt(rs, x, i) /\ es[k].id = rs[i].id
      BY <1>1
    <2> QED
      BY <1>6, <2>1, <2>2 DEF Keeps
  <1> QED
    BY <1>5, <1>7

\* Entries with the same identifiers and parents, in the same places.
InPlaces(es, rs) ==
    /\ Len(rs) = Len(es)
    /\ \A i \in 1 .. Len(es) : rs[i].id = es[i].id /\ rs[i].parent = es[i].parent

\* They have the same children, and keep what the others keep.
LEMMA InPlacesKeep ==
    ASSUME NEW es, NEW rs, InPlaces(es, rs)
    PROVE  \A ts, x : (Keeps(rs, ts, x) <=> Keeps(es, ts, x)) /\ (Keeps(ts, rs, x) <=> Keeps(ts, es, x))
  <1>1. \A x, i : ChildAt(rs, x, i) <=> ChildAt(es, x, i)
    BY DEF ChildAt, InPlaces
  <1>2. \A x, i : ChildAt(es, x, i) => rs[i].id = es[i].id
    BY DEF ChildAt, InPlaces
  <1> QED
    BY <1>1, <1>2 DEF Keeps

\* An edit that touches C: the children of just these change, and of the entries that
\* stay in their place none but e gets another time.
Traced(es, rs, C, e) ==
    /\ \A b \in {TopLevel} \cup (Ids(es) \cap Ids(rs)) : Keeps(es, rs, b) <=> b \notin C
    /\ \A i \in 1 .. Len(es), k \in 1 .. Len(rs) :
          es[i].id = rs[k].id /\ es[i].id # e /\ es[i].parent = rs[k].parent =>
              rs[k].updated = es[i].updated

\* All the entries but e have the times they had.
Timed(es, rs, e) == \A i \in 1 .. Len(es) : es[i].id # e => rs[i].updated = es[i].updated

\* The identifiers of alike entries.
LEMMA InPlacesIds ==
    ASSUME NEW es, NEW rs, InPlaces(es, rs), DOMAIN es = 1 .. Len(es), DOMAIN rs = 1 .. Len(rs)
    PROVE  Ids(rs) = Ids(es)
  BY DEF InPlaces, Ids

\* An entry is given its text before the edit ...
LEMMA TracedFromStamped ==
    ASSUME NEW es, NEW ks, NEW rs, NEW C, NEW e, InPlaces(es, ks), Timed(es, ks, e),
           DOMAIN es = 1 .. Len(es), DOMAIN ks = 1 .. Len(ks),
           Traced(ks, rs, C, TopLevel), \A i \in 1 .. Len(es) : es[i].id # TopLevel
    PROVE  Traced(es, rs, C, e)
  <1>1. Ids(ks) = Ids(es)
    BY InPlacesIds
  <1>2. \A x : Keeps(ks, rs, x) <=> Keeps(es, rs, x)
    BY InPlacesKeep
  <1>3. ASSUME NEW i \in 1 .. Len(es), NEW k \in 1 .. Len(rs),
               es[i].id = rs[k].id, es[i].id # e, es[i].parent = rs[k].parent
        PROVE  rs[k].updated = es[i].updated
    <2>1. i \in 1 .. Len(ks) /\ ks[i].id = es[i].id /\ ks[i].parent = es[i].parent
      BY DEF InPlaces
    <2>2. ks[i].id # TopLevel
      BY <2>1
    <2>3. rs[k].updated = ks[i].updated
      BY <1>3, <2>1, <2>2 DEF Traced
    <2> QED
      BY <1>3, <2>3 DEF Timed
  <1>4. \A b \in {TopLevel} \cup (Ids(es) \cap Ids(rs)) : Keeps(es, rs, b) <=> b \notin C
    BY <1>1, <1>2 DEF Traced
  <1> QED
    BY <1>3, <1>4 DEF Traced

\* ... or after it.
LEMMA TracedToStamped ==
    ASSUME NEW es, NEW ks, NEW rs, NEW C, NEW e, InPlaces(ks, rs), Timed(ks, rs, e),
           DOMAIN ks = 1 .. Len(ks), DOMAIN rs = 1 .. Len(rs),
           Traced(es, ks, C, TopLevel), \A i \in 1 .. Len(es) : es[i].id # TopLevel
    PROVE  Traced(es, rs, C, e)
  <1>1. Ids(ks) = Ids(rs)
    BY InPlacesIds
  <1>2. \A x : Keeps(es, rs, x) <=> Keeps(es, ks, x)
    BY InPlacesKeep
  <1>3. ASSUME NEW i \in 1 .. Len(es), NEW k \in 1 .. Len(rs),
               es[i].id = rs[k].id, es[i].id # e, es[i].parent = rs[k].parent
        PROVE  rs[k].updated = es[i].updated
    <2>1. k \in 1 .. Len(ks) /\ ks[k].id = rs[k].id /\ ks[k].parent = rs[k].parent
      BY DEF InPlaces
    <2>2. ks[k].updated = es[i].updated
      BY <1>3, <2>1 DEF Traced
    <2>3. rs[k].updated = ks[k].updated
      BY <1>3, <2>1 DEF Timed
    <2> QED
      BY <2>2, <2>3
  <1>4. \A b \in {TopLevel} \cup (Ids(es) \cap Ids(rs)) : Keeps(es, rs, b) <=> b \notin C
    BY <1>1, <1>2 DEF Traced
  <1> QED
    BY <1>3, <1>4 DEF Traced

\* A stamped entry changes its text and time only.
LEMMA StampedInPlaces ==
    ASSUME NEW I, NEW T, NEW U, NEW es, Page(I, T, U, es), NEW e, NEW text, NEW now
    PROVE  LET rs == Stamped(es, e, text, now)
           IN  /\ InPlaces(es, rs) /\ Timed(es, rs, e) /\ DOMAIN rs = 1 .. Len(rs)
               /\ \A i \in 1 .. Len(es) : es[i].id # e => rs[i] = es[i]
  <1> DEFINE rs == Stamped(es, e, text, now)
  <1>1. /\ Len(es) \in Nat /\ DOMAIN es = 1 .. Len(es)
        /\ \A i \in 1 .. Len(es) : es[i] \in Entry(I, T, U)
    BY PageIs
  <1>2. rs = [i \in 1 .. Len(es) |-> IF es[i].id = e
                                     THEN [es[i] EXCEPT !.text = text, !.updated = now] ELSE es[i]]
    BY <1>1 DEF Stamped
  <1> HIDE DEF rs
  <1>3. Len(rs) = Len(es) /\ DOMAIN rs = 1 .. Len(es)
    <2> DEFINE S == {rs[i] : i \in 1 .. Len(es)}
    <2>1. rs \in [1 .. Len(es) -> S] /\ DOMAIN rs = 1 .. Len(es)
      BY <1>2
    <2>2. rs \in Seq(S)
      BY <1>1, <2>1, SeqDef
    <2> QED
      BY <1>1, <2>1, <2>2, LenProperties
  <1>4. ASSUME NEW i \in 1 .. Len(es)
        PROVE  /\ rs[i].id = es[i].id /\ rs[i].parent = es[i].parent
               /\ es[i].id # e => rs[i] = es[i]
    <2>1. rs[i] = IF es[i].id = e THEN [es[i] EXCEPT !.text = text, !.updated = now] ELSE es[i]
      BY <1>2
    <2>2. es[i] \in Entry(I, T, U)
      BY <1>1
    <2> QED
      BY <2>1, <2>2 DEF Entry
  <1> QED
    BY <1>3, <1>4 DEF InPlaces, Timed, rs
-----------------------------------------------------------------------------
\* A run that comes in: its first entry hangs on p, the others on one another.
Incoming(es, t, p) ==
    /\ Len(t) \in Nat /\ Len(t) >= 1 /\ t[1].parent = p
    /\ \A k \in 1 .. Len(t) : t[k].id # TopLevel
    /\ \A i \in 1 .. Len(es), k \in 1 .. Len(t) : es[i].id # t[k].id
    /\ \A k \in 2 .. Len(t) : \E l \in 1 .. Len(t) : t[k].parent = t[l].id

\* Where the entries of a Page are after a run of m came in at x.
Moved(n, x, m) == [i \in 1 .. n |-> IF i < x THEN i ELSE i + m]

\* A run that comes in changes the children of the entry it is put under, and no others.
LEMMA SplicedTraced ==
    ASSUME NEW E, NEW es \in Seq(E), Named(es), NEW x \in 1 .. (Len(es) + 1),
           NEW t, NEW p, Incoming(es, t, p), NEW r, SplicedAs(E, es, x, t, r), Named(r)
    PROVE  Traced(es, r, {p}, TopLevel)
  <1> DEFINE n == Len(es)
             m == Len(t)
             f == Moved(n, x, m)
  <1>1. /\ n \in Nat /\ m \in Nat /\ m >= 1 /\ DOMAIN es = 1 .. n /\ x \in 1 .. (n + 1)
        /\ Len(r) = n + m /\ DOMAIN r = 1 .. (n + m)
    BY DEF SplicedAs, Incoming
  <1>2. /\ \A j \in 1 .. (x - 1) : r[j] = es[j]
        /\ \A j \in 1 .. m : r[x - 1 + j] = t[j]
        /\ \A j \in x .. n : r[j + m] = es[j]
    BY DEF SplicedAs
  <1>3. /\ t[1].parent = p /\ \A k \in 1 .. m : t[k].id # TopLevel
        /\ \A i \in 1 .. n, k \in 1 .. m : es[i].id # t[k].id
        /\ \A k \in 2 .. m : \E l \in 1 .. m : t[k].parent = t[l].id
    BY DEF Incoming
  <1>4. \A i \in 1 .. n : f[i] = IF i < x THEN i ELSE i + m
    BY DEF Moved
  <1> HIDE DEF n, m, f
  <1>5. \A i \in 1 .. n : f[i] \in 1 .. (n + m) /\ r[f[i]] = es[i]
    BY <1>1, <1>2, <1>4
  <1>6. ASSUME NEW k \in 1 .. (n + m)
        PROVE  \/ \E i \in 1 .. n : f[i] = k
               \/ k = x /\ r[k] = t[1]
               \/ \E j \in 2 .. m : r[k] = t[j]
    <2>1. CASE k < x
      BY <1>1, <1>4, <2>1
    <2>2. CASE k >= x + m
      <3>1. k - m \in x .. n /\ k - m \in 1 .. n /\ (k - m) + m = k
        BY <1>1, <2>2
      <3>2. f[k - m] = k
        BY <1>1, <1>4, <3>1
      <3> QED
        BY <3>1, <3>2
    <2>3. CASE k >= x /\ k < x + m
      <3>1. k - x + 1 \in 1 .. m /\ x - 1 + (k - x + 1) = k
        BY <1>1, <2>3
      <3>2. r[k] = t[k - x + 1]
        BY <1>2, <3>1
      <3>3. k - x + 1 = 1 => k = x
        BY <1>1
      <3>4. k - x + 1 # 1 => k - x + 1 \in 2 .. m
        BY <1>1, <3>1
      <3> QED
        BY <3>2, <3>3, <3>4
    <2> QED
      BY <1>1, <2>1, <2>2, <2>3
  <1>7. ASSUME NEW b \in {TopLevel} \cup (Ids(es) \cap Ids(r)), b # p
        PROVE  Keeps(es, r, b)
    <2>1. \A j \in 1 .. m : t[j].id # b
      BY <1>1, <1>3 DEF Ids
    <2>2. \A k \in 1 .. m : t[k].parent # b
      <3>1. ASSUME NEW k \in 1 .. m
            PROVE  t[k].parent # b
        <4>1. k = 1 \/ k \in 2 .. m
          BY <1>1
        <4> QED
          BY <1>3, <1>7, <2>1, <4>1
      <3> QED
        BY <3>1
    <2>3. ASSUME NEW i, ChildAt(es, b, i)
          PROVE  ChildAt(r, b, f[i]) /\ r[f[i]].id = es[i].id
      BY <1>1, <1>5, <2>3 DEF ChildAt, n
    <2>4. ASSUME NEW i, NEW j, ChildAt(es, b, i), ChildAt(es, b, j), i < j
          PROVE  f[i] < f[j]
      <3>1. i \in 1 .. n /\ j \in 1 .. n
        BY <2>4 DEF ChildAt, n
      <3> QED
        BY <1>1, <1>4, <2>4, <3>1
    <2>5. ASSUME NEW k, ChildAt(r, b, k)
          PROVE  \E i : ChildAt(es, b, i) /\ f[i] = k
      <3>1. k \in 1 .. (n + m) /\ r[k].parent = b
        BY <1>1, <2>5 DEF ChildAt
      <3>2. PICK i \in 1 .. n : f[i] = k
        BY <1>1, <1>6, <2>2, <3>1
      <3>3. es[i].parent = b
        BY <1>5, <3>1, <3>2
      <3> QED
        BY <3>2, <3>3 DEF ChildAt, n
    <2>6. Aligns(es, r, b, f)
      BY <2>3, <2>4, <2>5 DEF Aligns
    <2> QED
      BY <2>6, AlignedKeeps
  <1>8. ~Keeps(es, r, p)
    <2>1. x \in 1 .. Len(r) /\ r[x] = t[1] /\ 1 \in 1 .. m
      <3>1. 1 \in 1 .. m /\ x - 1 + 1 = x /\ x \in 1 .. Len(r)
        BY <1>1
      <3> QED
        BY <1>2, <3>1
    <2>2. ChildAt(r, p, x)
      BY <1>3, <2>1 DEF ChildAt
    <2>3. \A i : ChildAt(es, p, i) => r[x].id # es[i].id
      BY <1>3, <2>1 DEF ChildAt, n
    <2> QED
      BY <2>2, <2>3 DEF Keeps
  <1>9. ASSUME NEW i \in 1 .. Len(es), NEW k \in 1 .. Len(r), es[i].id = r[k].id
        PROVE  r[k].updated = es[i].updated
    <2>1. i \in 1 .. n /\ k \in 1 .. (n + m)
      BY <1>1 DEF n
    <2>2. \A j \in 1 .. m : r[k] # t[j]
      BY <1>3, <1>9, <2>1
    <2>3. PICK j \in 1 .. n : f[j] = k
      BY <1>1, <1>6, <2>1, <2>2
    <2>4. r[k] = es[j]
      BY <1>5, <2>3
    <2>5. i = j
      BY <1>9, <2>1, <2>4 DEF Named, n
    <2> QED
      BY <2>4, <2>5
  <1> QED
    BY <1>7, <1>8, <1>9 DEF Traced

\* A run that goes away, the others of it hanging on one another, changes the children
\* of the entry its first hung on, and no others.
LEMMA WithoutTraced ==
    ASSUME NEW es, Len(es) \in Nat, NEW D, Tree(es, D), DOMAIN es = 1 .. Len(es),
           NEW a \in 1 .. Len(es), NEW b \in (a + 1) .. (Len(es) + 1),
           SubtreesApart(D, Len(es), a, b), \A j \in (a + 1) .. (b - 1) : a <= D[j],
           NEW r, Named(r), Len(r) = Len(es) - (b - a), DOMAIN r = 1 .. Len(r),
           \A j \in 1 .. Len(r) : r[j] = es[KeptPlace(a, b, j)]
    PROVE  Traced(es, r, {es[a].parent}, TopLevel)
  <1> DEFINE n == Len(es)
             m == Len(r)
             f == [j \in 1 .. m |-> KeptPlace(a, b, j)]
  <1>1. /\ n \in Nat /\ m = n - (b - a) /\ m \in Nat /\ a \in 1 .. n /\ b \in (a + 1) .. (n + 1)
        /\ a \in 1 .. (n + 1) /\ DOMAIN es = 1 .. n /\ DOMAIN r = 1 .. m
    OBVIOUS
  <1>2. Named(es) /\ \A i \in 1 .. n : D[i] \in Nat /\ D[i] < i
    BY DEF Tree, Walk
  <1>3. \A j \in 1 .. m : f[j] = IF j < a THEN j ELSE j + (b - a)
    BY DEF KeptPlace
  <1>4. \A j \in 1 .. m : f[j] \in 1 .. n /\ f[j] \notin a .. (b - 1) /\ r[j] = es[f[j]]
    <2>1. \A j \in 1 .. m : r[j] = es[f[j]]
      OBVIOUS
    <2> HIDE DEF f, n, m
    <2>2. ASSUME NEW j \in 1 .. m
          PROVE  f[j] \in 1 .. n /\ f[j] \notin a .. (b - 1)
      <3>1. CASE j < a
        <4>1. j \in 1 .. n /\ j \notin a .. (b - 1)
          BY ONLY <1>1, <3>1, j \in 1 .. m
        <4> QED
          BY <1>3, <3>1, <4>1
      <3>2. CASE ~(j < a)
        <4>1. j + (b - a) \in 1 .. n /\ j + (b - a) \notin a .. (b - 1)
          BY ONLY <1>1, <3>2, j \in 1 .. m
        <4> QED
          BY <1>3, <3>2, <4>1
      <3> QED
        BY <3>1, <3>2
    <2> QED
      BY <2>1, <2>2
  <1>5. \A j \in (a + 1) .. (b - 1) : a <= D[j]
    OBVIOUS
  <1> HIDE DEF n, m, f
  <1>6. ASSUME NEW i \in 1 .. n, i \notin a .. (b - 1)
        PROVE  \E j \in 1 .. m : f[j] = i
    <2>1. CASE i < a
      <3>1. i \in 1 .. m
        BY ONLY <1>1, <2>1, i \in 1 .. n
      <3> QED
        BY <1>3, <2>1, <3>1
    <2>2. CASE i >= b
      <3>1. /\ i - (b - a) \in 1 .. m /\ ~(i - (b - a) < a)
            /\ (i - (b - a)) + (b - a) = i
        BY ONLY <1>1, <2>2, i \in 1 .. n
      <3>2. f[i - (b - a)] = i
        BY <1>3, <3>1
      <3> QED
        BY <3>1, <3>2
    <2> QED
      BY <1>1, <1>6, <2>1, <2>2
  <1>7. \A i \in 1 .. n, k \in 1 .. n : es[i].parent = es[k].id <=> D[i] = k
    <2>1. Len(es) \in Nat /\ Named(es) /\ D \in [1 .. Len(es) -> Nat] /\ Linked(es, D)
          /\ \A j \in 1 .. Len(es) : D[j] < j
      BY DEF Tree, Walk
    <2>2. \A i \in 1 .. Len(es), k \in 1 .. Len(es) : es[i].parent = es[k].id <=> D[i] = k
      <3>1. ASSUME NEW i \in 1 .. Len(es)
            PROVE  \A k \in 1 .. Len(es) : es[i].parent = es[k].id <=> D[i] = k
        BY ONLY <2>1, LinkIs
      <3> QED
        BY ONLY <3>1
    <2> QED
      BY <2>2 DEF n
  <1>8. \A i \in (a + 1) .. (b - 1) : \E k \in a .. (b - 1) : es[i].parent = es[k].id
    <2>1. ASSUME NEW i \in (a + 1) .. (b - 1)
          PROVE  \E k \in a .. (b - 1) : es[i].parent = es[k].id
      <3>1. i \in 1 .. n /\ a <= D[i] /\ D[i] < i /\ D[i] \in Nat
        BY <1>1, <1>2, <1>5
      <3>2. D[i] \in a .. (b - 1) /\ D[i] \in 1 .. n
        BY <1>1, <3>1
      <3>3. es[i].parent = es[D[i]].id
        BY <1>7, <3>1, <3>2
      <3> QED
        BY <3>2, <3>3
    <2> QED
      BY <2>1
  <1>9. \A k \in a .. (b - 1) : \A j \in 1 .. m : r[j].id # es[k].id
    <2>1. ASSUME NEW k \in a .. (b - 1), NEW j \in 1 .. m
          PROVE  r[j].id # es[k].id
      <3>1. k \in 1 .. n
        BY <1>1
      <3>2. f[j] \in 1 .. n /\ f[j] # k /\ r[j] = es[f[j]]
        BY <1>4
      <3> QED
        BY <1>2, <3>1, <3>2 DEF Named, n
    <2> QED
      BY <2>1
  <1>10. ASSUME NEW c \in {TopLevel} \cup (Ids(es) \cap Ids(r)), c # es[a].parent
         PROVE  Keeps(es, r, c)
    <2>1. ASSUME NEW i, ChildAt(es, c, i)
          PROVE  i \in 1 .. n /\ i \notin a .. (b - 1)
      <3>1. i \in 1 .. n /\ es[i].parent = c
        BY <2>1 DEF ChildAt, n
      <3>2. ASSUME i \in a .. (b - 1)
            PROVE  FALSE
        <4>1. i \in (a + 1) .. (b - 1)
          BY <1>1, <1>10, <3>1, <3>2
        <4>2. PICK k \in a .. (b - 1) : c = es[k].id
          BY <1>8, <3>1, <4>1
        <4>3. k \in 1 .. n
          BY <1>1
        <4>4. c # TopLevel
          BY <1>2, <4>2, <4>3 DEF Named, n
        <4>5. c \in Ids(r)
          BY <1>10, <4>4
        <4>6. PICK j \in 1 .. m : r[j].id = c
          BY <1>1, <4>5 DEF Ids
        <4> QED
          BY <1>9, <4>2, <4>6
      <3> QED
        BY <3>1, <3>2
    <2>2. ASSUME NEW j, ChildAt(r, c, j)
          PROVE  ChildAt(es, c, f[j]) /\ es[f[j]].id = r[j].id
      BY <1>4, <2>2 DEF ChildAt, n, m
    <2>3. ASSUME NEW i, NEW j, ChildAt(r, c, i), ChildAt(r, c, j), i < j
          PROVE  f[i] < f[j]
      <3>1. i \in 1 .. m /\ j \in 1 .. m
        BY <2>3 DEF ChildAt, m
      <3> QED
        BY <1>1, <1>3, <2>3, <3>1
    <2>4. ASSUME NEW i, ChildAt(es, c, i)
          PROVE  \E j : ChildAt(r, c, j) /\ f[j] = i
      <3>1. PICK j \in 1 .. m : f[j] = i
        BY <1>6, <2>1, <2>4
      <3>2. r[j].parent = c
        BY <1>4, <2>4, <3>1 DEF ChildAt
      <3> QED
        BY <3>1, <3>2 DEF ChildAt, m
    <2>5. Aligns(r, es, c, f)
      BY <2>2, <2>3, <2>4 DEF Aligns
    <2> QED
      BY <1>2, <2>5, AlignedKeeps
  <1>11. ~Keeps(es, r, es[a].parent)
    <2>1. ChildAt(es, es[a].parent, a)
      BY <1>1 DEF ChildAt, n
    <2>2. a \in a .. (b - 1)
      BY <1>1
    <2>3. \A k : ChildAt(r, es[a].parent, k) => r[k].id # es[a].id
      BY <1>9, <2>2 DEF ChildAt, m
    <2> QED
      BY <2>1, <2>3 DEF Keeps
  <1>12. ASSUME NEW i \in 1 .. Len(es), NEW k \in 1 .. Len(r), es[i].id = r[k].id
         PROVE  r[k].updated = es[i].updated
    <2>1. i \in 1 .. n /\ k \in 1 .. m
      BY DEF n, m
    <2>2. f[k] = i
      BY <1>2, <1>4, <1>12, <2>1 DEF Named, n
    <2> QED
      BY <1>4, <2>1, <2>2
  <1> QED
    BY <1>10, <1>11, <1>12 DEF Traced
-----------------------------------------------------------------------------
\* One entry, at a, changes its place among the others; f leads to where each is then.
Shifts(es, r, a, f) ==
    /\ Len(es) \in Nat /\ Len(r) = Len(es) /\ a \in 1 .. Len(es) /\ Named(es) /\ Named(r)
    /\ DOMAIN es = 1 .. Len(es) /\ DOMAIN r = 1 .. Len(r)
    /\ \A i \in 1 .. Len(es) : /\ f[i] \in 1 .. Len(es) /\ r[f[i]].id = es[i].id
                               /\ r[f[i]].updated = es[i].updated
                               /\ i # a => r[f[i]].parent = es[i].parent
    /\ \A k \in 1 .. Len(es) : \E i \in 1 .. Len(es) : f[i] = k
    /\ \A i, j \in 1 .. Len(es) :
          i < j /\ i # a /\ j # a /\ es[i].parent = es[j].parent => f[i] < f[j]

\* The children of the others stay as they are.
LEMMA ShiftedKeeps ==
    ASSUME NEW es, NEW r, NEW a, NEW f, Shifts(es, r, a, f),
           NEW x, x # es[a].parent, x # r[f[a]].parent
    PROVE  Keeps(es, r, x)
  <1> DEFINE n == Len(es)
  <1>1. /\ n \in Nat /\ Len(r) = n /\ a \in 1 .. n /\ Named(es) /\ Named(r)
        /\ \A i \in 1 .. n : /\ f[i] \in 1 .. n /\ r[f[i]].id = es[i].id
                             /\ i # a => r[f[i]].parent = es[i].parent
        /\ \A k \in 1 .. n : \E i \in 1 .. n : f[i] = k
        /\ \A i, j \in 1 .. n :
              i < j /\ i # a /\ j # a /\ es[i].parent = es[j].parent => f[i] < f[j]
    BY DEF Shifts
  <1>2. \A i : ChildAt(es, x, i) <=> i \in 1 .. n /\ es[i].parent = x
    BY DEF ChildAt
  <1>3. \A k : ChildAt(r, x, k) <=> k \in 1 .. n /\ r[k].parent = x
    BY <1>1 DEF ChildAt
  <1> HIDE DEF n
  <1>4. ASSUME NEW i, ChildAt(es, x, i)
        PROVE  ChildAt(r, x, f[i]) /\ r[f[i]].id = es[i].id
    <2>1. i \in 1 .. n /\ es[i].parent = x /\ i # a
      BY <1>2, <1>4
    <2>2. f[i] \in 1 .. n /\ r[f[i]].id = es[i].id /\ r[f[i]].parent = es[i].parent
      BY <1>1, <2>1
    <2> QED
      BY <1>3, <2>1, <2>2
  <1>5. ASSUME NEW i, NEW j, ChildAt(es, x, i), ChildAt(es, x, j), i < j
        PROVE  f[i] < f[j]
    <2>1. i \in 1 .. n /\ j \in 1 .. n /\ i # a /\ j # a /\ es[i].parent = es[j].parent
      BY <1>2, <1>5
    <2> QED
      BY <1>1, <1>5, <2>1
  <1>6. ASSUME NEW k, ChildAt(r, x, k)
        PROVE  \E i : ChildAt(es, x, i) /\ f[i] = k
    <2>1. k \in 1 .. n /\ r[k].parent = x
      BY <1>3, <1>6
    <2>2. PICK i \in 1 .. n : f[i] = k
      BY <1>1, <2>1
    <2>3. i # a
      BY <2>1, <2>2
    <2>4. es[i].parent = x
      BY <1>1, <2>1, <2>2, <2>3
    <2> QED
      BY <1>2, <2>2, <2>4
  <1>7. Aligns(es, r, x, f)
    BY <1>4, <1>5, <1>6 DEF Aligns
  <1> QED
    BY <1>1, <1>7, AlignedKeeps

\* No entry gets another time.
LEMMA ShiftedTimes ==
    ASSUME NEW es, NEW r, NEW a, NEW f, Shifts(es, r, a, f),
           NEW i \in 1 .. Len(es), NEW k \in 1 .. Len(r), es[i].id = r[k].id
    PROVE  r[k].updated = es[i].updated /\ k = f[i]
  <1>1. f[i] \in 1 .. Len(r) /\ r[f[i]].id = es[i].id /\ r[f[i]].updated = es[i].updated /\ Named(r)
    BY DEF Shifts
  <1>2. k = f[i]
    BY <1>1 DEF Named
  <1> QED
    BY <1>1, <1>2

\* Under another parent: the entry it left and the one it came to have other children.
LEMMA ShiftedAway ==
    ASSUME NEW es, NEW r, NEW a, NEW f, Shifts(es, r, a, f),
           NEW p, NEW q, p # q, es[a].parent = p, r[f[a]].parent = q
    PROVE  Traced(es, r, {p, q}, TopLevel)
  <1>1. /\ a \in 1 .. Len(es) /\ f[a] \in 1 .. Len(r) /\ r[f[a]].id = es[a].id
        /\ \A i, k \in 1 .. Len(es) : es[i].id = es[k].id => i = k
    BY DEF Shifts, Named
  <1>2. \A x : x # p /\ x # q => Keeps(es, r, x)
    BY ShiftedKeeps
  <1>3. ~Keeps(es, r, p)
    <2>1. ChildAt(es, p, a)
      BY <1>1 DEF ChildAt
    <2>2. ASSUME NEW k, ChildAt(r, p, k), r[k].id = es[a].id
          PROVE  FALSE
      <3>1. k \in 1 .. Len(r) /\ r[k].parent = p
        BY <2>2 DEF ChildAt
      <3>2. k = f[a]
        BY <1>1, <2>2, <3>1, ShiftedTimes
      <3> QED
        BY <3>1, <3>2
    <2> QED
      BY <2>1, <2>2 DEF Keeps
  <1>4. ~Keeps(es, r, q)
    <2>1. ChildAt(r, q, f[a])
      BY <1>1 DEF ChildAt
    <2>2. ASSUME NEW i, ChildAt(es, q, i), r[f[a]].id = es[i].id
          PROVE  FALSE
      <3>1. i \in 1 .. Len(es) /\ es[i].parent = q
        BY <2>2 DEF ChildAt
      <3>2. i = a
        BY <1>1, <2>2, <3>1
      <3> QED
        BY <3>1, <3>2
    <2> QED
      BY <2>1, <2>2 DEF Keeps
  <1> QED
    BY <1>2, <1>3, <1>4, ShiftedTimes DEF Traced

\* Past a sibling: the parent of both has its children in another order.
LEMMA ShiftedPast ==
    ASSUME NEW es, NEW r, NEW a, NEW f, Shifts(es, r, a, f),
           NEW p, es[a].parent = p, r[f[a]].parent = p,
           NEW b \in 1 .. Len(es), es[b].parent = p, a < b, f[b] < f[a]
    PROVE  Traced(es, r, {p}, TopLevel)
  <1>1. /\ a \in 1 .. Len(es) /\ f[a] \in 1 .. Len(r) /\ r[f[a]].id = es[a].id
        /\ f[b] \in 1 .. Len(r) /\ r[f[b]].id = es[b].id
        /\ b # a => r[f[b]].parent = es[b].parent
        /\ Len(es) \in Nat /\ Len(r) = Len(es)
    BY DEF Shifts
  <1>2. \A x : x # p => Keeps(es, r, x)
    BY ShiftedKeeps
  <1>3. ~Keeps(es, r, p)
    <2>1. ChildAt(es, p, a) /\ ChildAt(es, p, b)
      BY <1>1 DEF ChildAt
    <2>2. b # a
      BY <1>1
    <2>3. ChildAt(r, p, f[a]) /\ ChildAt(r, p, f[b])
      BY <1>1, <2>2 DEF ChildAt
    <2>4. ~(f[a] < f[b])
      BY <1>1
    <2> QED
      BY <1>1, <2>1, <2>3, <2>4 DEF Keeps
  <1> QED
    BY <1>2, <1>3, ShiftedTimes DEF Traced

\* Entries under the same parent keep their order when two runs change places, but for
\* the first of the first run.
LEMMA PlacedInOrder ==
    ASSUME NEW n \in Nat, NEW D, Walk(D, n), NEW a, NEW b, NEW c, NEW g, Turnable(D, n, a, b, c, g),
           NEW i \in 1 .. n, NEW j \in 1 .. n, i < j, i # a, j # a, D[i] = D[j]
    PROVE  Placed(a, b, c, i) < Placed(a, b, c, j)
  <1>1. /\ a \in 1 .. n /\ b \in (a + 1) .. (n + 1) /\ c \in b .. (n + 1)
        /\ \A l \in (a + 1) .. (b - 1) : a <= D[l]
        /\ \A l \in b .. (c - 1) : D[l] < a \/ b <= D[l]
    BY DEF Turnable
  <1>2. D[i] \in Nat /\ D[i] < i /\ D[j] \in Nat
    BY DEF Walk
  <1>3. ~(a <= i /\ i < b /\ b <= j /\ j < c)
    <2>1. ASSUME a <= i, i < b, b <= j, j < c
          PROVE  FALSE
      <3>1. i \in (a + 1) .. (b - 1) /\ j \in b .. (c - 1)
        BY <1>1, <2>1
      <3>2. a <= D[i] /\ (D[j] < a \/ b <= D[j])
        BY <1>1, <3>1
      <3> QED
        BY <1>1, <1>2, <2>1, <3>2
    <2> QED
      BY <2>1
  <1> QED
    BY ONLY <1>1, <1>3, i \in 1 .. n, j \in 1 .. n, n \in Nat, i < j DEF Placed

\* Two runs that change places shift the first of the first.
LEMMA TurnedShifts ==
    ASSUME NEW es, Len(es) \in Nat, NEW D, Tree(es, D), DOMAIN es = 1 .. Len(es),
           NEW a, NEW b, NEW c, NEW g, Turnable(D, Len(es), a, b, c, g),
           NEW r, Named(r), Len(r) = Len(es), DOMAIN r = 1 .. Len(r),
           \A j \in 1 .. Len(es) :
               LET o == Origin(a, b, c, j)
               IN  /\ r[j].id = es[o].id /\ r[j].updated = es[o].updated
                   /\ o # a => r[j].parent = es[o].parent
    PROVE  Shifts(es, r, a, [i \in 1 .. Len(es) |-> Placed(a, b, c, i)])
  <1> DEFINE n == Len(es)
             f == [i \in 1 .. n |-> Placed(a, b, c, i)]
  <1>1. n \in Nat /\ a \in 1 .. n /\ b \in (a + 1) .. (n + 1) /\ c \in b .. (n + 1)
    BY DEF Turnable
  <1>2. Named(es) /\ Walk(D, n)
    BY DEF Tree
  <1>3. \A i \in 1 .. n : f[i] = Placed(a, b, c, i)
    OBVIOUS
  <1>4. \A j \in 1 .. n : LET o == Origin(a, b, c, j)
                          IN  /\ r[j].id = es[o].id /\ r[j].updated = es[o].updated
                              /\ o # a => r[j].parent = es[o].parent
    OBVIOUS
  <1>5. Turnable(D, n, a, b, c, g) /\ DOMAIN es = 1 .. n /\ Len(r) = n /\ DOMAIN r = 1 .. n
    OBVIOUS
  <1>6. \A i, k \in 1 .. n : es[i].parent = es[k].parent => D[i] = D[k]
    <2>1. ASSUME NEW i \in 1 .. Len(es), NEW k \in 1 .. Len(es), es[i].parent = es[k].parent
          PROVE  D[i] = D[k]
      BY <2>1, SameParent
    <2> QED
      BY <2>1
  <1>7. \A i \in 1 .. n : /\ Origin(a, b, c, i) \in 1 .. n
                          /\ Placed(a, b, c, Origin(a, b, c, i)) = i
                          /\ Placed(a, b, c, i) \in 1 .. n
                          /\ Origin(a, b, c, Placed(a, b, c, i)) = i
    <2> HIDE DEF n, f
    <2> QED
      BY ZenonT(40), <1>1, OriginPlaced
  <1> HIDE DEF f
  <1>8. ASSUME NEW i \in 1 .. n
        PROVE  /\ f[i] \in 1 .. n /\ r[f[i]].id = es[i].id /\ r[f[i]].updated = es[i].updated
               /\ i # a => r[f[i]].parent = es[i].parent
    BY <1>3, <1>4, <1>7
  <1>9. ASSUME NEW k \in 1 .. n
        PROVE  \E i \in 1 .. n : f[i] = k
    <2>1. Origin(a, b, c, k) \in 1 .. n /\ Placed(a, b, c, Origin(a, b, c, k)) = k
      BY <1>7
    <2>2. f[Origin(a, b, c, k)] = k
      BY <1>3, <2>1
    <2> QED
      BY <2>1, <2>2
  <1> HIDE DEF n
  <1>10. ASSUME NEW i \in 1 .. n, NEW j \in 1 .. n, i < j, i # a, j # a, es[i].parent = es[j].parent
         PROVE  f[i] < f[j]
    <2>1. D[i] = D[j]
      BY <1>6, <1>10
    <2>2. Placed(a, b, c, i) < Placed(a, b, c, j)
      BY <1>1, <1>2, <1>5, <1>10, <2>1, PlacedInOrder
    <2> QED
      BY <1>3, <2>2
  <1>11. Shifts(es, r, a, f)
    <2>1. n = Len(es)
      BY DEF n
    <2> QED
      BY <1>1, <1>2, <1>5, <1>8, <1>9, <1>10, <2>1 DEF Shifts
  <1> QED
    BY <1>11 DEF f, n
-----------------------------------------------------------------------------
\* Indenting changes the children of the entry's parent, old and new.
LEMMA IndentedTraced ==
    ASSUME NEW I, NEW T, NEW U, NEW es, Page(I, T, U, es), NEW i \in 1 .. Len(es), CanIndent(es, i)
    PROVE  Traced(es, Indented(es, i), {es[i].parent, Indented(es, i)[i].parent}, TopLevel)
  <1> DEFINE k == Max(EarlierSiblings(es, i))
             r == Indented(es, i)
             n == Len(es)
             f == [j \in 1 .. n |-> j]
  <1>1. /\ n \in Nat /\ DOMAIN es = 1 .. n /\ TopLevel \notin I
        /\ \A j \in 1 .. n : es[j] \in Entry(I, T, U) /\ es[j].id \in I
    BY PageIs
  <1>2. PICK D : Tree(es, D)
    BY DEF Page
  <1>3. PreviousSibling(D, i, k)
    BY <1>1, <1>2, PreviousIs DEF CanIndent
  <1>4. r = [es EXCEPT ![i].parent = es[k].id]
    BY DEF Indented
  <1> HIDE DEF k, r
  <1>5. IndentedAs(Entry(I, T, U), es, i, k, r) /\ Tree(r, [D EXCEPT ![i] = k])
    BY <1>2, <1>3, <1>4, IndentedTree
  <1>6. k \in 1 .. (i - 1) /\ k \in 1 .. n /\ D[k] = D[i]
    BY <1>1, <1>3 DEF PreviousSibling
  <1>7. /\ Len(r) = n /\ DOMAIN r = 1 .. n /\ Named(r) /\ Named(es)
        /\ \A j \in 1 .. n : j # i => r[j] = es[j]
        /\ r[i] = WithParent(es[i], es[k].id)
    BY <1>1, <1>2, <1>5 DEF IndentedAs, Tree
  <1>8. r[i].id = es[i].id /\ r[i].parent = es[k].id /\ r[i].updated = es[i].updated
    <2>1. es[i] \in Entry(I, T, U) /\ es[k].id \in I
      BY <1>1, <1>6
    <2> QED
      BY <1>7, <2>1 DEF WithParent, Entry
  <1>9. es[i].parent # es[k].id
    <2>1. D[i] \in 0 .. (i - 1) /\ D[k] \in 0 .. (k - 1)
          /\ es[i].parent = IF D[i] = 0 THEN TopLevel ELSE es[D[i]].id
      BY <1>1, <1>2, <1>6, ParentIs
    <2>2. D[i] # k
      BY <1>6, <2>1
    <2>3. D[i] # 0 => D[i] \in 1 .. n
      BY <1>1, <2>1
    <2> QED
      BY <1>6, <1>7, <2>1, <2>2, <2>3 DEF Named
  <1>10. \A j \in 1 .. n : f[j] = j
    OBVIOUS
  <1> HIDE DEF f
  <1>11. Shifts(es, r, i, f)
    <2>1. \A j \in 1 .. n : /\ f[j] \in 1 .. n /\ r[f[j]].id = es[j].id
                            /\ r[f[j]].updated = es[j].updated
                            /\ j # i => r[f[j]].parent = es[j].parent
      <3>1. ASSUME NEW j \in 1 .. n
            PROVE  /\ r[j].id = es[j].id /\ r[j].updated = es[j].updated
                   /\ j # i => r[j].parent = es[j].parent
        BY <1>7, <1>8
      <3> QED
        BY <1>10, <3>1
    <2>2. \A j \in 1 .. n : \E l \in 1 .. n : f[l] = j
      BY <1>10
    <2>3. \A j, l \in 1 .. n :
             j < l /\ j # i /\ l # i /\ es[j].parent = es[l].parent => f[j] < f[l]
      BY <1>10
    <2> QED
      BY <1>1, <1>7, <2>1, <2>2, <2>3 DEF Shifts
  <1>12. r[f[i]].parent = r[i].parent
    BY <1>10
  <1> DEFINE p == es[i].parent
             q == r[i].parent
  <1>13. p # q
    BY <1>8, <1>9
  <1>14. Traced(es, r, {p, q}, TopLevel)
    BY <1>11, <1>12, <1>13, ShiftedAway
  <1> QED
    BY <1>14 DEF r

\* Two siblings that change places with their subtrees.
LEMMA RotatedTraced ==
    ASSUME NEW I, NEW T, NEW U, NEW es, Page(I, T, U, es), NEW D, Tree(es, D),
           NEW a, NEW b \in 1 .. Len(es), NEW c, b < c, Turnable(D, Len(es), a, b, c, D[a]),
           es[b].parent = es[a].parent
    PROVE  Traced(es, Rotated(es, a, b, c), {es[b].parent}, TopLevel)
  <1> DEFINE r == Rotated(es, a, b, c)
             n == Len(es)
             f == [i \in 1 .. n |-> Placed(a, b, c, i)]
             p == es[b].parent
  <1>1. n \in Nat /\ DOMAIN es = 1 .. n
    BY PageIs
  <1>2. a \in 1 .. n /\ b \in (a + 1) .. (n + 1) /\ c \in b .. (n + 1)
    BY DEF Turnable
  <1>3. /\ r \in Seq(Entry(I, T, U)) /\ Len(r) = n
        /\ \A j \in 1 .. n : r[j] = es[Origin(a, b, c, j)]
        /\ Tree(r, TurnedWalk(D, n, a, b, c, D[a]))
    BY RotatedTree
  <1> HIDE DEF r
  <1>4. DOMAIN r = 1 .. n /\ Named(r)
    BY <1>3 DEF Tree
  <1>5. Shifts(es, r, a, f)
    <2> DEFINE g == D[a]
    <2>1. Turnable(D, Len(es), a, b, c, g)
      OBVIOUS
    <2> HIDE DEF g
    <2>2. \A j \in 1 .. Len(es) :
               LET o == Origin(a, b, c, j)
               IN  /\ r[j].id = es[o].id /\ r[j].updated = es[o].updated
                   /\ o # a => r[j].parent = es[o].parent
      BY <1>3
    <2> HIDE DEF n, f, p
    <2>3. Len(es) \in Nat /\ DOMAIN es = 1 .. Len(es) /\ Len(r) = Len(es) /\ DOMAIN r = 1 .. Len(r)
      BY <1>1, <1>3, <1>4 DEF n
    <2>4. Shifts(es, r, a, [i \in 1 .. Len(es) |-> Placed(a, b, c, i)])
      BY ZenonT(60), <1>4, <2>1, <2>2, <2>3, TurnedShifts
    <2> QED
      BY <2>4 DEF f, n
  <1>6. f[a] = a + (c - b) /\ f[b] = a /\ a < b /\ a < a + (c - b)
    <2>1. Placed(a, b, c, a) = a + (c - b) /\ Placed(a, b, c, b) = a /\ a < b /\ a < a + (c - b)
      BY ONLY <1>1, <1>2, b < c DEF Placed
    <2> QED
      BY <1>2, <2>1
  <1>7. r[f[a]].parent = p
    <2>1. f[a] = Placed(a, b, c, a)
      BY <1>2
    <2>2. Placed(a, b, c, a) \in 1 .. n /\ Origin(a, b, c, Placed(a, b, c, a)) = a
      BY ONLY <1>1, <1>2, OriginPlaced
    <2>3. r[f[a]] = es[a]
      BY <1>3, <2>1, <2>2
    <2> QED
      BY <2>3
  <1>8. es[a].parent = p /\ es[b].parent = p /\ f[b] < f[a]
    BY <1>6
  <1> HIDE DEF f, p
  <1>9. Traced(es, r, {p}, TopLevel)
    BY <1>5, <1>6, <1>7, <1>8, ShiftedPast
  <1> QED
    BY <1>9 DEF r, p

\* Moving an entry up or down changes the order of its parent's children only.
LEMMA MovedUpTraced ==
    ASSUME NEW I, NEW T, NEW U, NEW es, Page(I, T, U, es), NEW i \in 1 .. Len(es), CanMoveUp(es, i)
    PROVE  Traced(es, MovedUp(es, i), {es[i].parent}, TopLevel)
  <1> DEFINE n == Len(es)
             k == Max(EarlierSiblings(es, i))
             e == SubtreeEnd(es, i)
  <1>1. n \in Nat
    BY PageIs
  <1>2. PICK D : Tree(es, D)
    BY DEF Page
  <1>3. Walk(D, n)
    BY <1>2 DEF Tree
  <1>4. PreviousSibling(D, i, k)
    BY <1>1, <1>2, PreviousIs DEF CanMoveUp
  <1>5. EndOf(D, n, i, e)
    BY <1>1, <1>2, SubtreeEndIs
  <1>6. Turnable(D, n, k, i, e, D[k])
    BY <1>1, <1>3, <1>4, <1>5, SwapTurns
  <1>7. MovedUp(es, i) = Rotated(es, k, i, e)
    BY DEF MovedUp
  <1> HIDE DEF k, e
  <1>8. i < e /\ k \in 1 .. n /\ D[k] = D[i]
    BY <1>1, <1>4, <1>5 DEF EndOf, PreviousSibling
  <1>9. es[k].parent = es[i].parent
    BY <1>1, <1>2, <1>8, SameParent
  <1> QED
    BY <1>2, <1>6, <1>7, <1>8, <1>9, RotatedTraced

\* Down is up for the next sibling.
LEMMA MovedDownTraced ==
    ASSUME NEW I, NEW T, NEW U, NEW es, Page(I, T, U, es), NEW i \in 1 .. Len(es), CanMoveDown(es, i)
    PROVE  Traced(es, MovedDown(es, i), {es[i].parent}, TopLevel)
  <1> DEFINE n == Len(es)
             e == SubtreeEnd(es, i)
             y == SubtreeEnd(es, e)
  <1>1. n \in Nat
    BY PageIs
  <1>2. PICK D : Tree(es, D)
    BY DEF Page
  <1>3. Walk(D, n)
    BY <1>2 DEF Tree
  <1>4. e <= Len(es) /\ es[e].parent = es[i].parent
    BY DEF CanMoveDown
  <1>5. EndOf(D, n, i, e)
    BY <1>1, <1>2, SubtreeEndIs
  <1>7. MovedDown(es, i) = Rotated(es, i, e, y)
    BY DEF MovedDown
  <1> HIDE DEF e
  <1>8. e \in 1 .. n /\ PreviousSibling(D, e, i)
    BY <1>1, <1>2, <1>4, <1>5, NextSibling
  <1>9. EndOf(D, n, e, y)
    BY <1>1, <1>2, <1>8, SubtreeEndIs
  <1> HIDE DEF y
  <1>10. Turnable(D, n, i, e, y, D[i])
    BY <1>1, <1>3, <1>8, <1>9, SwapTurns
  <1>11. e < y
    BY <1>1, <1>8, <1>9 DEF EndOf
  <1>12. Traced(es, Rotated(es, i, e, y), {es[e].parent}, TopLevel)
    BY <1>2, <1>4, <1>8, <1>10, <1>11, RotatedTraced
  <1> QED
    BY <1>4, <1>7, <1>12

\* Outdenting changes the children of the entry's parent, and of that one's parent.
LEMMA OutdentedTraced ==
    ASSUME NEW I, NEW T, NEW U, NEW es, Page(I, T, U, es), NEW i \in 1 .. Len(es), CanOutdent(es, i)
    PROVE  Traced(es, Outdented(es, i), {es[i].parent, GrandParent(es, i)}, TopLevel)
  <1> DEFINE e == SubtreeEnd(es, i)
             q == GrandParent(es, i)
             r == Outdented(es, i)
             n == Len(es)
             p == es[i].parent
  <1>1. /\ TopLevel \notin I /\ n \in Nat /\ DOMAIN es = 1 .. n
        /\ \A j \in 1 .. n : es[j] \in Entry(I, T, U)
    BY PageIs
  <1>2. PICK D : Tree(es, D)
    BY DEF Page
  <1> DEFINE z == SubtreeEnd(es, D[i])
             g == D[D[i]]
  <1>3. /\ D[i] \in 1 .. n /\ Turnable(D, n, i, e, z, g)
        /\ q \in I \cup {TopLevel} /\ q = IF g = 0 THEN TopLevel ELSE es[g].id
        /\ r \in Seq(Entry(I, T, U)) /\ Behind(es, i, e, z, q, r)
    BY <1>2, OutdentedIs
  <1>4. Page(I, T, U, r)
    BY OutdentedPage
  <1> HIDE DEF r, q
  <1>5. DOMAIN r = 1 .. Len(r) /\ Named(r) /\ Len(r) = n
    BY <1>3, <1>4, PageIs DEF Page, Tree, Behind
  <1>6. p # q
    <2>1. D[i] \in 0 .. (i - 1) /\ p = IF D[i] = 0 THEN TopLevel ELSE es[D[i]].id
      BY <1>1, <1>2, ParentIs
    <2>2. g \in 0 .. (D[i] - 1)
      BY <1>1, <1>2, <1>3, ParentIs
    <2> HIDE DEF g, p
    <2>3. D[i] # 0 /\ g # D[i] /\ (g # 0 => g \in 1 .. n)
      BY <1>1, <1>3, <2>1, <2>2
    <2>4. \A j, k \in 1 .. n : es[j].id = es[k].id => j = k
      BY <1>2 DEF Tree, Named
    <2>5. es[D[i]].id # TopLevel
      BY <1>2, <1>3 DEF Tree, Named
    <2> QED
      BY <1>3, <2>1, <2>3, <2>4, <2>5
  <1>7. /\ WithParent(es[i], q).id = es[i].id /\ WithParent(es[i], q).parent = q
        /\ WithParent(es[i], q).updated = es[i].updated
    <2>1. es[i] \in Entry(I, T, U)
      BY <1>1
    <2> QED
      BY <2>1 DEF WithParent, Entry
  <1> HIDE DEF e, z, g, p, n
  <1>8. \A j \in 1 .. n : r[j] = IF Origin(i, e, z, j) # i THEN es[Origin(i, e, z, j)]
                                 ELSE WithParent(es[i], q)
    BY <1>3 DEF Behind, n
  <1>9. \A j \in 1 .. Len(es) :
               LET o == Origin(i, e, z, j)
               IN  /\ r[j].id = es[o].id /\ r[j].updated = es[o].updated
                   /\ o # i => r[j].parent = es[o].parent
    BY <1>7, <1>8 DEF n
  <1>10. Len(es) \in Nat /\ DOMAIN es = 1 .. Len(es) /\ Len(r) = Len(es) /\ Turnable(D, Len(es), i, e, z, g)
    BY <1>1, <1>3, <1>5 DEF n
  <1>11. Shifts(es, r, i, [j \in 1 .. Len(es) |-> Placed(i, e, z, j)])
    BY ZenonT(60), <1>2, <1>5, <1>9, <1>10, TurnedShifts
  <1> DEFINE f == [j \in 1 .. Len(es) |-> Placed(i, e, z, j)]
  <1>12. r[f[i]].parent = q
    <2>1. i \in 1 .. n /\ e \in (i + 1) .. (n + 1) /\ z \in e .. (n + 1) /\ n \in Nat
      BY <1>1, <1>10 DEF Turnable, n
    <2>2. Placed(i, e, z, i) \in 1 .. n /\ Origin(i, e, z, Placed(i, e, z, i)) = i
      BY ONLY <2>1, OriginPlaced
    <2>3. f[i] = Placed(i, e, z, i)
      OBVIOUS
    <2> HIDE DEF f
    <2> QED
      BY <1>7, <1>8, <2>2, <2>3
  <1> HIDE DEF f
  <1>13. Shifts(es, r, i, f)
    BY <1>11 DEF f
  <1>14. es[i].parent = p
    BY DEF p
  <1>15. Traced(es, r, {p, q}, TopLevel)
    BY <1>6, <1>12, <1>13, <1>14, ShiftedAway
  <1> QED
    BY <1>15 DEF p, q, r
-----------------------------------------------------------------------------
\* An insertion point is a place among the entries, under one of them or the Page.
LEMMA InsertionPlace ==
    ASSUME NEW I, NEW T, NEW U, NEW es, Page(I, T, U, es), NEW after \in Ids(es) \cup {TopLevel}
    PROVE  /\ InsertionPoint(es, after).at \in 1 .. (Len(es) + 1)
           /\ InsertionPoint(es, after).parent \in I \cup {TopLevel}
           /\ InsertionPoint(es, after).parent \in Ids(es) \cup {TopLevel}
  <1> DEFINE p == InsertionPoint(es, after)
  <1>1. PICK D : Tree(es, D)
    BY DEF Page
  <1>2. Landing(I, es, D, p.at, p.parent)
    BY <1>1, InsertionLands
  <1> HIDE DEF p
  <1>3. PICK q : /\ Gap(D, Len(es), p.at, q) /\ p.parent \in I \cup {TopLevel}
                 /\ p.parent = IF q = 0 THEN TopLevel ELSE es[q].id
    BY <1>2 DEF Landing
  <1>4. Len(es) \in Nat /\ DOMAIN es = 1 .. Len(es)
    BY PageIs
  <1>5. p.at \in 1 .. (Len(es) + 1) /\ q \in 0 .. (p.at - 1)
    BY <1>3 DEF Gap
  <1>6. q # 0 => q \in 1 .. Len(es)
    BY <1>4, <1>5
  <1>7. p.parent \in Ids(es) \cup {TopLevel}
    BY <1>3, <1>4, <1>6 DEF Ids
  <1> QED
    BY <1>3, <1>5, <1>7 DEF p

\* A single new entry comes in.
LEMMA OneIncoming ==
    ASSUME NEW es, DOMAIN es = 1 .. Len(es), NEW e, e.id # TopLevel, e.id \notin Ids(es)
    PROVE  Incoming(es, <<e>>, e.parent)
  <1> DEFINE t == <<e>>
  <1>1. Len(t) = 1 /\ t[1] = e /\ Len(t) \in Nat /\ Len(t) >= 1
    OBVIOUS
  <1> HIDE DEF t
  <1>2. \A k \in 1 .. Len(t) : t[k] = e
    BY <1>1
  <1>3. \A i \in 1 .. Len(es) : es[i].id # e.id
    BY DEF Ids
  <1>4. Incoming(es, t, e.parent)
    BY <1>1, <1>2, <1>3 DEF Incoming
  <1> QED
    BY <1>4 DEF t

\* An insertion changes the children of the parent at the insertion point.
LEMMA InsertedTraced ==
    ASSUME NEW I, NEW T, NEW U, NEW es, Page(I, T, U, es),
           NEW after \in Ids(es) \cup {TopLevel}, NEW e \in Entry(I, T, U), e.id \notin Ids(es)
    PROVE  Traced(es, Inserted(es, after, e), {InsertionPoint(es, after).parent}, TopLevel)
  <1> DEFINE E == Entry(I, T, U)
             p == InsertionPoint(es, after)
             f == [e EXCEPT !.parent = p.parent]
             r == Inserted(es, after, e)
  <1>1. TopLevel \notin I /\ es \in Seq(E) /\ DOMAIN es = 1 .. Len(es)
    BY PageIs
  <1>2. Page(I, T, U, r)
    BY InsertedPage
  <1>3. p.at \in 1 .. (Len(es) + 1) /\ p.parent \in I \cup {TopLevel}
    BY InsertionPlace
  <1>4. r = Spliced(es, p.at, <<f>>)
    BY DEF Inserted
  <1> HIDE DEF p, r
  <1>5. f \in E /\ f.id = e.id /\ f.parent = p.parent /\ e.id \in I
    BY <1>3 DEF Entry
  <1> HIDE DEF f, E
  <1>6. <<f>> \in Seq(E)
    BY <1>5
  <1>7. SplicedAs(E, es, p.at, <<f>>, r)
    BY <1>1, <1>3, <1>4, <1>6, SplicedIs
  <1>8. Incoming(es, <<f>>, p.parent)
    <2>1. f.id # TopLevel /\ f.id \notin Ids(es)
      BY <1>1, <1>5
    <2>2. Incoming(es, <<f>>, f.parent)
      BY <1>1, <2>1, OneIncoming
    <2> QED
      BY <1>5, <2>2
  <1>9. Named(es) /\ Named(r)
    BY <1>2 DEF Page, Tree
  <1> DEFINE t == <<f>>
             q == p.parent
             x == p.at
  <1>10. Incoming(es, t, q) /\ SplicedAs(E, es, x, t, r) /\ x \in 1 .. (Len(es) + 1)
    BY <1>3, <1>7, <1>8
  <1> HIDE DEF t, q, x
  <1>11. Traced(es, r, {q}, TopLevel)
    BY <1>1, <1>9, <1>10, SplicedTraced
  <1> QED
    BY <1>11 DEF q, p, r

\* A split changes the children of the entry's parent, and stamps the entry.
LEMMA SplitTraced ==
    ASSUME NEW I, NEW T, NEW U, NEW es, Page(I, T, U, es), NEW i \in 1 .. Len(es),
           NEW text, NEW cut, SubSeq(text, 1, cut) \in T, SubSeq(text, cut + 1, Len(text)) \in T,
           NEW new \in I \ Ids(es), NEW now \in U
    PROVE  Traced(es, Split(es, i, text, cut, new, now), {es[i].parent}, es[i].id)
  <1> DEFINE E == Entry(I, T, U)
             id == es[i].id
             first == SubSeq(text, 1, cut)
             kept == Stamped(es, id, first, now)
             rest == [id |-> new, text |-> SubSeq(text, cut + 1, Len(text)),
                      updated |-> now, parent |-> es[i].parent]
             x == SubtreeEnd(es, i)
             r == Split(es, i, text, cut, new, now)
             p == es[i].parent
  <1>1. /\ TopLevel \notin I /\ es \in Seq(E) /\ DOMAIN es = 1 .. Len(es)
        /\ \A j \in 1 .. Len(es) : es[j].id \in I
        /\ es[i].parent \in I \cup {TopLevel}
    BY PageIs
  <1>2. Page(I, T, U, r)
    BY SplitPage
  <1>3. x \in 1 .. (Len(es) + 1)
    <2>1. x \in (i + 1) .. (Len(es) + 1) /\ Len(es) \in Nat
      BY LeafEnds, PageIs
    <2> QED
      BY <2>1
  <1>4. r = Spliced(kept, x, <<rest>>)
    BY DEF Split
  <1>5. rest \in E /\ rest.id = new /\ rest.parent = p
    BY <1>1 DEF Entry
  <1>6. first \in T
    OBVIOUS
  <1> HIDE DEF r, rest, E, x, p, id, first
  <1>7. /\ InPlaces(es, kept) /\ Timed(es, kept, id) /\ DOMAIN kept = 1 .. Len(kept)
        /\ \A j \in 1 .. Len(es) : es[j].id # id => kept[j] = es[j]
    BY StampedInPlaces
  <1>8. kept \in Seq(Entry(I, T, U)) /\ Len(kept) = Len(es) /\ \A D : Tree(es, D) => Tree(kept, D)
    BY <1>6, StampedPage
  <1> HIDE DEF kept
  <1>9. Page(I, T, U, kept)
    BY <1>8 DEF Page
  <1>10. Ids(kept) = Ids(es)
    BY <1>1, <1>7, InPlacesIds
  <1>11. Named(kept) /\ Named(r)
    BY <1>2, <1>9 DEF Page, Tree
  <1>12. <<rest>> \in Seq(E) /\ kept \in Seq(E) /\ x \in 1 .. (Len(kept) + 1)
    BY <1>3, <1>5, <1>8 DEF E
  <1>13. SplicedAs(E, kept, x, <<rest>>, r)
    BY <1>4, <1>12, SplicedIs
  <1>14. Incoming(kept, <<rest>>, p)
    <2>1. rest.id # TopLevel /\ rest.id \notin Ids(kept)
      BY <1>1, <1>5, <1>10
    <2>2. Incoming(kept, <<rest>>, rest.parent)
      BY <1>7, <2>1, OneIncoming
    <2> QED
      BY <1>5, <2>2
  <1> DEFINE t == <<rest>>
  <1>15. Incoming(kept, t, p) /\ SplicedAs(E, kept, x, t, r)
    BY <1>13, <1>14
  <1> HIDE DEF t
  <1>16. Traced(kept, r, {p}, TopLevel)
    BY <1>11, <1>12, <1>15, SplicedTraced
  <1>17. \A j \in 1 .. Len(es) : es[j].id # TopLevel
    BY <1>1
  <1>18. Traced(es, r, {p}, id)
    BY <1>1, <1>7, <1>16, <1>17, TracedFromStamped
  <1> QED
    BY <1>18 DEF r, p, id

\* A subtree that goes away changes the children of its root's parent.
LEMMA RunTraced ==
    ASSUME NEW I, NEW T, NEW U, NEW es, Page(I, T, U, es), NEW D, Tree(es, D),
           NEW i \in 1 .. Len(es), NEW e, EndOf(D, Len(es), i, e)
    PROVE  Traced(es, Without(es, i, e), {es[i].parent}, TopLevel)
  <1> DEFINE r == Without(es, i, e)
             n == Len(es)
  <1>1. /\ es \in Seq(Entry(I, T, U)) /\ n \in Nat /\ DOMAIN es = 1 .. n
    BY PageIs
  <1>2. Walk(D, n)
    BY DEF Tree
  <1>3. e \in (i + 1) .. (n + 1) /\ \A j \in (i + 1) .. (e - 1) : i <= D[j]
    BY DEF EndOf
  <1>4. SubtreesApart(D, n, i, e)
    BY <1>1, <1>2, SubtreeStandsApart
  <1>5. /\ r \in Seq(Entry(I, T, U)) /\ Len(r) = n - (e - i)
        /\ \A j \in 1 .. (n - (e - i)) : r[j] = es[KeptPlace(i, e, j)]
        /\ \E G : Remains(es, D, i, e, G)
    BY <1>1, <1>3, <1>4, WithoutTree
  <1>6. Named(r)
    <2>1. PICK G : Remains(es, D, i, e, G)
      BY <1>5
    <2> QED
      BY <2>1 DEF Remains, Tree
  <1> HIDE DEF r
  <1>7. /\ Len(es) \in Nat /\ DOMAIN es = 1 .. Len(es) /\ DOMAIN r = 1 .. Len(r)
        /\ e \in (i + 1) .. (Len(es) + 1) /\ SubtreesApart(D, Len(es), i, e)
        /\ Len(r) = Len(es) - (e - i)
        /\ \A j \in 1 .. Len(r) : r[j] = es[KeptPlace(i, e, j)]
    BY <1>1, <1>3, <1>4, <1>5
  <1>8. Traced(es, r, {es[i].parent}, TopLevel)
    BY <1>3, <1>6, <1>7, WithoutTraced
  <1> QED
    BY <1>8 DEF r

\* What is left when a subtree has moved away.
LEMMA LeftTraced ==
    ASSUME NEW I, NEW T, NEW U, NEW es, Page(I, T, U, es), NEW i \in 1 .. Len(es)
    PROVE  Traced(es, Without(es, i, SubtreeEnd(es, i)), {es[i].parent}, TopLevel)
  <1>1. PICK D : Tree(es, D)
    BY DEF Page
  <1>2. Len(es) \in Nat
    BY PageIs
  <1>3. EndOf(D, Len(es), i, SubtreeEnd(es, i))
    BY <1>1, <1>2, SubtreeEndIs
  <1> DEFINE e == SubtreeEnd(es, i)
  <1>4. EndOf(D, Len(es), i, e)
    BY <1>3
  <1> HIDE DEF e
  <1>5. Traced(es, Without(es, i, e), {es[i].parent}, TopLevel)
    BY <1>1, <1>4, RunTraced
  <1> QED
    BY <1>5 DEF e

\* An entry that is erased changes the children of its parent.
LEMMA ErasedTraced ==
    ASSUME NEW I, NEW T, NEW U, NEW es, Page(I, T, U, es), NEW i \in 1 .. Len(es), CanErase(es, i)
    PROVE  Traced(es, Erased(es, i), {es[i].parent}, TopLevel)
  <1>1. SubtreeEnd(es, i) = i + 1
    BY LeafEnds DEF CanErase
  <1>2. Traced(es, Without(es, i, SubtreeEnd(es, i)), {es[i].parent}, TopLevel)
    BY LeftTraced
  <1> QED
    BY <1>1, <1>2 DEF Erased

\* So does one that is joined to the entry before it, which is stamped.
LEMMA JoinedTraced ==
    ASSUME NEW I, NEW T, NEW U, NEW es, Page(I, T, U, es), NEW i \in 1 .. Len(es), CanJoin(es, i),
           NEW text, es[i - 1].text \o text \in T, NEW now \in U
    PROVE  Traced(es, Joined(es, i, text, now), {es[i].parent}, es[i - 1].id)
  <1> DEFINE id == es[i - 1].id
             t == es[i - 1].text \o text
             s == Stamped(es, id, t, now)
             r == Joined(es, i, text, now)
             p == es[i].parent
  <1>1. t \in T
    OBVIOUS
  <1>2. r = Erased(s, i)
    BY DEF Joined, Erased
  <1>3. /\ TopLevel \notin I /\ Len(es) \in Nat /\ DOMAIN es = 1 .. Len(es)
        /\ \A j \in 1 .. Len(es) : es[j].parent # es[i].id
        /\ \A j \in 1 .. Len(es) : es[j].id # TopLevel
    <2>1. DOMAIN es = 1 .. Len(es) /\ TopLevel \notin I /\ Len(es) \in Nat
          /\ \A j \in 1 .. Len(es) : es[j].id \in I
      BY PageIs
    <2> QED
      BY <2>1 DEF CanJoin, HasChildren
  <1> HIDE DEF id, t, r, p
  <1>4. /\ InPlaces(es, s) /\ Timed(es, s, id) /\ DOMAIN s = 1 .. Len(s)
        /\ \A j \in 1 .. Len(es) : es[j].id # id => s[j] = es[j]
    BY StampedInPlaces
  <1>5. /\ s \in Seq(Entry(I, T, U)) /\ Len(s) = Len(es)
        /\ \A D : Tree(es, D) => Tree(s, D)
    BY <1>1, StampedPage
  <1> HIDE DEF s
  <1>6. Page(I, T, U, s)
    BY <1>3, <1>5 DEF Page
  <1>7. i \in 1 .. Len(s) /\ s[i].parent = p /\ CanErase(s, i)
    BY <1>3, <1>4, <1>5 DEF CanErase, HasChildren, InPlaces, p
  <1>8. Traced(s, r, {p}, TopLevel)
    BY <1>2, <1>6, <1>7, ErasedTraced
  <1>9. Traced(es, r, {p}, id)
    BY <1>3, <1>4, <1>8, TracedFromStamped
  <1> QED
    BY <1>9 DEF r, p, id
-----------------------------------------------------------------------------
\* The entries of a deleted selection that hang on no other one of it.
RootParents(es, ids) == {es[PositionOf(es, b)].parent : b \in SelectedRoots(es, ids)}

\* A selection that goes with its subtrees changes the children of its roots' parents.
LEMMA WithoutSubtreesTraced ==
    ASSUME NEW I, NEW T, NEW U, NEW es, Page(I, T, U, es), NEW ids \in SUBSET Ids(es)
    PROVE  Traced(es, WithoutSubtrees(es, ids), RootParents(es, ids), TopLevel)
  <1> DEFINE E == Entry(I, T, U)
             n == Len(es)
             gone == Gone(es, ids)
             r == Remaining(es, gone)
             m == Len(r)
             C == RootParents(es, ids)
             B == BelowAny(es, ids)
  <1>1. TopLevel \notin I /\ es \in Seq(E) /\ n \in Nat /\ DOMAIN es = 1 .. n
    BY PageIs
  <1>2. Named(es)
    BY DEF Page, Tree
  <1>3. WithoutSubtrees(es, ids) = r
    BY DEF WithoutSubtrees, Gone
  <1>4. Selected(E, es, gone, r, n)
    BY <1>1, RemainingIs
  <1>5. Named(r)
    <2>1. Page(I, T, U, r)
      BY <1>3, WithoutSubtreesPage
    <2> QED
      BY <2>1 DEF Page, Tree
  <1>6. \A x \in gone : x \in ids \/ \E i \in B : es[i].id = x
    BY DEF Gone
  <1>7. ids \subseteq gone /\ \A i \in B : es[i].id \in gone
    BY DEF Gone
  <1>8. /\ B \subseteq 1 .. n
        /\ \A i \in 1 .. n : i \in B => es[i].parent \in ids \/ \E k \in B : es[i].parent = es[k].id
    BY <1>1, BelowAnyIs
  <1>9. \A i \in 1 .. n : i \notin B /\ es[i].id \in ids => es[i].parent \in C
    <2>1. ASSUME NEW i \in 1 .. n, i \notin B, es[i].id \in ids
          PROVE  es[i].parent \in C
      <3>1. es[i].id \in SelectedRoots(es, ids)
        BY <1>1, <2>1 DEF SelectedRoots
      <3>2. PositionOf(es, es[i].id) = i
        BY <1>1, <1>2, FoundAt
      <3> QED
        BY <3>1, <3>2 DEF RootParents
    <2> QED
      BY <2>1
  <1>10. \A c \in C : \E i \in 1 .. n : es[i].id \in ids /\ es[i].parent = c
    <2>1. ASSUME NEW c \in C
          PROVE  \E i \in 1 .. n : es[i].id \in ids /\ es[i].parent = c
      <3>1. PICK b \in SelectedRoots(es, ids) : c = es[PositionOf(es, b)].parent
        BY DEF RootParents
      <3>2. PICK i \in 1 .. n : es[i].id = b /\ b \in ids
        BY <1>1 DEF SelectedRoots
      <3>3. PositionOf(es, b) = i
        BY <1>1, <1>2, <3>2, FoundAt
      <3> QED
        BY <3>1, <3>2, <3>3
    <2> QED
      BY <2>1
  <1> HIDE DEF gone, r, C, B, E
  <1>11. r \in Seq(E) /\ m \in Nat /\ DOMAIN r = 1 .. m
    BY <1>4 DEF Selected
  <1>12. PICK s : Selection(es, gone, r, n, m, s)
    BY <1>4 DEF Selected
  <1> HIDE DEF m, n
  <1>13. /\ s \in [0 .. m -> 0 .. n] /\ s[0] = 0
         /\ \A i, j \in 0 .. m : i < j => s[i] < s[j]
         /\ \A j \in 1 .. m : r[j] = es[s[j]] /\ es[s[j]].id \notin gone
         /\ \A i \in 1 .. n : es[i].id \notin gone => \E j \in 1 .. m : s[j] = i
    BY <1>12 DEF Selection
  <1>14. ASSUME NEW j \in 1 .. m
         PROVE  s[j] \in 1 .. n
    <2>1. 0 \in 0 .. m /\ j \in 0 .. m /\ 0 < j
      BY <1>11
    <2>2. s[j] \in 0 .. n /\ s[0] < s[j]
      BY <1>13, <2>1
    <2> QED
      BY <1>1, <1>13, <2>2
  <1>15. \A b \in Ids(r) : b \notin gone
    BY <1>11, <1>13 DEF Ids
  <1>16. TopLevel \notin gone
    <2>1. TopLevel \notin ids /\ \A i \in B : es[i].id # TopLevel
      BY <1>1, <1>2, <1>8 DEF Ids, Named, n
    <2> QED
      BY <1>6, <2>1
  <1>17. ASSUME NEW c \in {TopLevel} \cup (Ids(es) \cap Ids(r)), c \notin C
         PROVE  Keeps(es, r, c)
    <2>1. c \notin gone
      BY <1>15, <1>16
    <2>2. ASSUME NEW i, ChildAt(es, c, i)
          PROVE  i \in 1 .. n /\ es[i].id \notin gone
      <3>1. i \in 1 .. n /\ es[i].parent = c
        BY <2>2 DEF ChildAt, n
      <3>2. i \notin B
        BY <1>7, <1>8, <2>1, <3>1
      <3>3. es[i].id \notin ids
        BY <1>9, <1>17, <3>1, <3>2
      <3>4. ASSUME NEW k \in B, es[k].id = es[i].id
            PROVE  FALSE
        <4>1. k = i
          BY <1>2, <1>8, <3>1, <3>4 DEF Named, n
        <4> QED
          BY <3>2, <4>1
      <3> QED
        BY <1>6, <3>1, <3>3, <3>4
    <2>3. ASSUME NEW j, ChildAt(r, c, j)
          PROVE  ChildAt(es, c, s[j]) /\ es[s[j]].id = r[j].id
      <3>1. j \in 1 .. m /\ r[j].parent = c
        BY <2>3 DEF ChildAt, m
      <3>2. s[j] \in 1 .. n /\ r[j] = es[s[j]]
        BY <1>13, <1>14, <3>1
      <3> QED
        BY <3>1, <3>2 DEF ChildAt, n
    <2>4. ASSUME NEW i, NEW j, ChildAt(r, c, i), ChildAt(r, c, j), i < j
          PROVE  s[i] < s[j]
      <3>1. i \in 0 .. m /\ j \in 0 .. m
        BY <1>11, <2>4 DEF ChildAt, m
      <3> QED
        BY <1>13, <2>4, <3>1
    <2>5. ASSUME NEW i, ChildAt(es, c, i)
          PROVE  \E j : ChildAt(r, c, j) /\ s[j] = i
      <3>1. i \in 1 .. n /\ es[i].id \notin gone
        BY <2>2, <2>5
      <3>2. PICK j \in 1 .. m : s[j] = i
        BY <1>13, <3>1
      <3>3. r[j].parent = c
        BY <1>13, <2>5, <3>2 DEF ChildAt
      <3> QED
        BY <3>2, <3>3 DEF ChildAt, m
    <2>6. Aligns(r, es, c, s)
      BY <2>3, <2>4, <2>5 DEF Aligns
    <2> QED
      BY <1>2, <1>5, <2>6, AlignedKeeps
  <1>18. ASSUME NEW c \in C
         PROVE  ~Keeps(es, r, c)
    <2>1. PICK i \in 1 .. n : es[i].id \in ids /\ es[i].parent = c
      BY <1>10
    <2>2. ChildAt(es, c, i) /\ es[i].id \notin Ids(r)
      BY <1>7, <1>15, <2>1 DEF ChildAt, n
    <2>3. \A k : ChildAt(r, c, k) => r[k].id \in Ids(r)
      BY <1>11 DEF ChildAt, Ids, m
    <2> QED
      BY <2>2, <2>3 DEF Keeps
  <1>19. ASSUME NEW i \in 1 .. Len(es), NEW k \in 1 .. Len(r), es[i].id = r[k].id
         PROVE  r[k].updated = es[i].updated
    <2>1. k \in 1 .. m /\ i \in 1 .. n
      BY DEF m, n
    <2>2. s[k] \in 1 .. n /\ r[k] = es[s[k]]
      BY <1>13, <1>14, <2>1
    <2>3. s[k] = i
      BY <1>2, <1>19, <2>1, <2>2 DEF Named, n
    <2> QED
      BY <2>2, <2>3
  <1>20. Traced(es, r, C, TopLevel)
    BY <1>17, <1>18, <1>19 DEF Traced
  <1> QED
    BY <1>3, <1>20 DEF C

\* What a moved subtree keeps: its texts and the order below each entry; only its root
\* hangs elsewhere and is stamped.
Whole(src, rs, c) ==
    \A i \in 1 .. Len(src), k \in 1 .. Len(rs) : src[i].id = rs[k].id =>
        /\ rs[k].text = src[i].text /\ Keeps(src, rs, src[i].id)
        /\ IF rs[k].parent = src[i].parent /\ src[i].parent # TopLevel
           THEN rs[k].updated = src[i].updated ELSE rs[k].updated = c

\* A subtree arrives whole, and changes the children of the entry it is put under.
LEMMA ArrivedTraced ==
    ASSUME NEW I, NEW T, NEW U, NEW src, Page(I, T, U, src), NEW i \in 1 .. Len(src),
           NEW es, Page(I, T, U, es), Ids(src) \cap Ids(es) = {},
           NEW after \in Ids(es) \cup {TopLevel}, NEW now \in U
    PROVE  LET to == InsertionPoint(es, after)
               r == Spliced(es, to.at, MovingSubtree(src, i, to.parent, now))
           IN  Traced(es, r, {to.parent}, TopLevel) /\ Whole(src, r, now)
  <1> DEFINE at == InsertionPoint(es, after).at
             p == InsertionPoint(es, after).parent
             t == MovingSubtree(src, i, p, now)
             r == Spliced(es, at, t)
             e == SubtreeEnd(src, i)
             m == e - i
             n == Len(es)
             E == Entry(I, T, U)
             l == Len(src)
  <1>1. /\ TopLevel \notin I /\ src \in Seq(E) /\ l \in Nat /\ DOMAIN src = 1 .. l
        /\ es \in Seq(E) /\ n \in Nat /\ DOMAIN es = 1 .. n
        /\ \A k \in 1 .. l : src[k] \in Entry(I, T, U)
    BY PageIs
  <1>2. PICK D : Tree(src, D)
    BY DEF Page
  <1>3. Named(src) /\ Walk(D, l)
    BY <1>2 DEF Tree
  <1>4. at \in 1 .. (n + 1) /\ p \in I \cup {TopLevel} /\ p \in Ids(es) \cup {TopLevel}
    BY InsertionPlace
  <1>5. EndOf(D, l, i, e) /\ e \in (i + 1) .. (l + 1)
    <2>1. EndOf(D, Len(src), i, e)
      BY <1>1, <1>2, SubtreeEndIs
    <2> QED
      BY <2>1 DEF EndOf
  <1>6. Page(I, T, U, r)
    BY ArrivedPage
  <1> HIDE DEF at, p
  <1>7. MovingAs(I, T, U, src, i, e, p, now, t)
    BY <1>1, <1>4, <1>5, MovingIs
  <1> HIDE DEF t, e
  <1>8. t \in Seq(E) /\ Len(t) = m /\ t[1] = Landed(src[i], p, now)
        /\ \A k \in 2 .. m : t[k] = src[i + k - 1]
    BY <1>7 DEF MovingAs
  <1>9. SplicedAs(E, es, at, t, r)
    BY <1>1, <1>4, <1>8, SplicedIs
  <1>10. Named(es) /\ Named(r)
    BY <1>6 DEF Page, Tree
  <1> HIDE DEF E, r
  <1>11. m \in Nat /\ m >= 1 /\ i \in 1 .. l
    BY <1>1, <1>5
  <1>12. t[1].id = src[i].id /\ t[1].parent = p /\ t[1].text = src[i].text /\ t[1].updated = now
    BY <1>1, <1>8 DEF Landed, Entry
  <1> HIDE DEF m
  <1>13. ASSUME NEW k \in 1 .. m
         PROVE  /\ i + k - 1 \in i .. (e - 1) /\ i + k - 1 \in 1 .. l
                /\ t[k].id = src[i + k - 1].id /\ t[k].text = src[i + k - 1].text
                /\ k # 1 => t[k] = src[i + k - 1]
    <2>1. i + k - 1 \in i .. (e - 1) /\ i + k - 1 \in 1 .. l
      BY <1>1, <1>5, <1>11 DEF m
    <2>2. CASE k = 1
      <3>1. i + 1 - 1 = i
        BY <1>11
      <3> QED
        BY <1>12, <2>1, <2>2, <3>1
    <2>3. CASE k # 1
      <3>1. k \in 2 .. m
        BY <1>11, <2>3
      <3> QED
        BY <1>8, <2>1, <3>1
    <2> QED
      BY <2>2, <2>3
  <1>14. \A j \in (i + 1) .. (e - 1) : D[j] \in i .. (e - 1) /\ src[j].parent = src[D[j]].id
    <2>1. ASSUME NEW j \in (i + 1) .. (e - 1)
          PROVE  D[j] \in i .. (e - 1) /\ src[j].parent = src[D[j]].id
      <3>1. j \in 1 .. l /\ i <= D[j]
        BY <1>1, <1>5 DEF EndOf
      <3>2. D[j] \in 0 .. (j - 1) /\ src[j].parent = IF D[j] = 0 THEN TopLevel ELSE src[D[j]].id
        BY <1>1, <1>2, <3>1, ParentIs
      <3>3. D[j] \in i .. (e - 1)
        <4> DEFINE d == D[j]
        <4>1. d \in 0 .. (j - 1) /\ i <= d
          BY <3>1, <3>2
        <4> HIDE DEF d
        <4>2. d \in i .. (e - 1)
          BY ONLY <1>1, <1>5, <1>11, <4>1, j \in (i + 1) .. (e - 1)
        <4> QED
          BY <4>2 DEF d
      <3>4. D[j] # 0
        BY <1>11, <3>1
      <3> QED
        BY <3>2, <3>3, <3>4
    <2> QED
      BY <2>1
  <1>15. \A j \in 1 .. l : src[j].id # TopLevel /\ src[j].id \in Ids(src) /\ src[j].id \notin Ids(es)
    BY <1>1, <1>3 DEF Ids, Named
  <1>16. \A k \in 2 .. m : \E j \in 1 .. m : t[k].parent = t[j].id
    <2>1. ASSUME NEW k \in 2 .. m
          PROVE  \E j \in 1 .. m : t[k].parent = t[j].id
      <3>1. t[k] = src[i + k - 1] /\ i + k - 1 \in (i + 1) .. (e - 1)
        BY <1>1, <1>5, <1>8, <1>11 DEF m
      <3>2. D[i + k - 1] \in i .. (e - 1) /\ t[k].parent = src[D[i + k - 1]].id
        BY <1>14, <3>1
      <3> DEFINE d == D[i + k - 1]
      <3>3. d \in i .. (e - 1) /\ t[k].parent = src[d].id
        BY <3>2
      <3> HIDE DEF d
      <3>4. d - i + 1 \in 1 .. m /\ i + (d - i + 1) - 1 = d
        BY <1>1, <1>5, <3>3 DEF m
      <3>5. t[d - i + 1].id = src[d].id
        BY <1>13, <3>4
      <3> QED
        BY <3>3, <3>4, <3>5
    <2> QED
      BY <2>1
  <1>17. Incoming(es, t, p)
    <2>1. \A k \in 1 .. m : t[k].id # TopLevel /\ t[k].id \notin Ids(es)
      BY <1>13, <1>15
    <2>2. \A j \in 1 .. Len(es), k \in 1 .. m : es[j].id # t[k].id
      BY <1>1, <2>1 DEF Ids
    <2> QED
      BY <1>8, <1>11, <1>12, <1>16, <2>1, <2>2 DEF Incoming
  <1>18. Traced(es, r, {p}, TopLevel)
    <2>1. es \in Seq(E) /\ at \in 1 .. (Len(es) + 1)
      BY <1>1, <1>4
    <2> HIDE DEF n
    <2> QED
      BY <1>9, <1>10, <1>17, <2>1, SplicedTraced
  <1> HIDE DEF n
  <1>19. /\ r \in Seq(E) /\ Len(r) = n + m
         /\ \A j \in 1 .. (at - 1) : r[j] = es[j]
         /\ \A j \in 1 .. m : r[at - 1 + j] = t[j]
         /\ \A j \in at .. n : r[j + m] = es[j]
    BY <1>8, <1>9 DEF SplicedAs, n
  <1>20. ASSUME NEW k \in 1 .. (n + m)
         PROVE  (\E j \in 1 .. n : r[k] = es[j]) \/ (\E j \in 1 .. m : k = at - 1 + j /\ r[k] = t[j])
    <2>1. CASE k < at
      <3>1. k \in 1 .. (at - 1) /\ k \in 1 .. n
        BY <1>1, <1>4, <2>1
      <3> QED
        BY <1>19, <3>1
    <2>2. CASE ~(k < at) /\ k < at + m
      <3> DEFINE j == k - (at - 1)
      <3>1. j \in 1 .. m /\ k = at - 1 + j
        BY <1>4, <1>11, <2>2
      <3> HIDE DEF j
      <3> QED
        BY <1>19, <3>1
    <2>3. CASE ~(k < at + m)
      <3> DEFINE j == k - m
      <3>1. j \in at .. n /\ j \in 1 .. n /\ k = j + m
        BY <1>1, <1>4, <1>11, <2>3
      <3> HIDE DEF j
      <3> QED
        BY <1>19, <3>1
    <2> QED
      BY <2>1, <2>2, <2>3
  <1>21. \A j \in 1 .. n : es[j].id \in Ids(es) /\ es[j].parent \in Ids(es) \cup {TopLevel}
    <2>1. PICK G : Tree(es, G)
      BY DEF Page
    <2>2. ASSUME NEW j \in 1 .. n
          PROVE  es[j].parent \in Ids(es) \cup {TopLevel}
      <3>1. G[j] \in 0 .. (j - 1) /\ es[j].parent = IF G[j] = 0 THEN TopLevel ELSE es[G[j]].id
        BY <1>1, <2>1, ParentIs DEF n
      <3>2. G[j] # 0 => G[j] \in 1 .. n
        BY <1>1, <3>1
      <3> QED
        BY <1>1, <3>1, <3>2 DEF Ids
    <2> QED
      BY <1>1, <2>2 DEF Ids
  <1>22. ASSUME NEW a \in 1 .. l, NEW k \in 1 .. (n + m), src[a].id = r[k].id
         PROVE  \E j \in 1 .. m : k = at - 1 + j /\ r[k] = t[j] /\ a = i + j - 1
    <2>1. \A j \in 1 .. n : r[k] # es[j]
      BY <1>15, <1>21, <1>22
    <2>2. PICK j \in 1 .. m : k = at - 1 + j /\ r[k] = t[j]
      BY <1>20, <2>1
    <2>3. i + j - 1 \in 1 .. l /\ src[a].id = src[i + j - 1].id
      BY <1>13, <1>22, <2>2
    <2>4. a = i + j - 1
      BY <1>3, <2>3 DEF Named, l
    <2> QED
      BY <2>2, <2>4
  <1> DEFINE f == [j \in 1 .. l |-> at + (j - i)]
  <1>23. \A j \in 1 .. l : f[j] = at + (j - i)
    OBVIOUS
  <1>24. SubtreesApart(D, l, i, e)
    BY <1>1, <1>3, <1>5, SubtreeStandsApart
  <1> HIDE DEF f, l
  <1>25. ASSUME NEW a \in i .. (e - 1)
         PROVE  Keeps(src, r, src[a].id)
    <2> DEFINE b == src[a].id
    <2>1. a \in 1 .. l /\ a \in Nat
      BY <1>1, <1>5, <1>11
    <2>2. b # TopLevel /\ b \notin Ids(es) /\ b # p
      BY <1>4, <1>15, <2>1
    <2>3. ASSUME NEW j, ChildAt(src, b, j)
          PROVE  j \in 1 .. l /\ j \in (i + 1) .. (e - 1)
      <3>1. j \in 1 .. l /\ src[j].parent = src[a].id
        BY <2>3 DEF ChildAt, l
      <3>2. D[j] \in 0 .. (j - 1) /\ src[j].parent = IF D[j] = 0 THEN TopLevel ELSE src[D[j]].id
        BY <1>1, <1>2, <3>1, ParentIs DEF l
      <3>3. D[j] # 0 => D[j] \in 1 .. l
        BY <1>1, <3>1, <3>2
      <3>4. D[j] = a
        BY <1>3, <2>1, <2>2, <3>1, <3>2, <3>3 DEF Named, l
      <3>5. j \in i .. (e - 1)
        BY <1>24, <3>1, <3>4 DEF SubtreesApart
      <3>6. j > a
        BY <2>1, <3>1, <3>2, <3>4
      <3> QED
        BY <1>1, <1>5, <1>11, <2>1, <3>1, <3>5, <3>6
    <2>4. ASSUME NEW j \in (i + 1) .. (e - 1)
          PROVE  f[j] \in 1 .. (n + m) /\ r[f[j]] = src[j] /\ j \in 1 .. l
      <3> DEFINE k == j - i + 1
      <3>1. k \in 1 .. m /\ k # 1 /\ i + k - 1 = j /\ at - 1 + k = at + (j - i) /\ j \in 1 .. l
            /\ at - 1 + k \in 1 .. (n + m)
        BY <1>1, <1>4, <1>5, <1>11 DEF m
      <3> HIDE DEF k
      <3>2. t[k] = src[j] /\ r[at - 1 + k] = t[k]
        BY <1>13, <1>19, <3>1
      <3> QED
        BY <1>23, <3>1, <3>2
    <2>5. ASSUME NEW j, ChildAt(src, b, j)
          PROVE  ChildAt(r, b, f[j]) /\ r[f[j]].id = src[j].id
      <3>1. j \in (i + 1) .. (e - 1) /\ src[j].parent = b
        BY <2>3, <2>5 DEF ChildAt
      <3>2. f[j] \in 1 .. (n + m) /\ r[f[j]] = src[j]
        BY <2>4, <3>1
      <3> QED
        BY <1>19, <3>1, <3>2 DEF ChildAt
    <2>6. ASSUME NEW j, NEW k, ChildAt(src, b, j), ChildAt(src, b, k), j < k
          PROVE  f[j] < f[k]
      <3>1. j \in 1 .. l /\ k \in 1 .. l
        BY <2>3, <2>6
      <3>2. at + (j - i) < at + (k - i)
        BY <1>1, <1>4, <1>11, <2>6, <3>1
      <3> QED
        BY <1>23, <3>1, <3>2
    <2>7. ASSUME NEW k, ChildAt(r, b, k)
          PROVE  \E j : ChildAt(src, b, j) /\ f[j] = k
      <3>1. k \in 1 .. (n + m) /\ r[k].parent = b
        BY <1>19, <2>7 DEF ChildAt
      <3>2. \A j \in 1 .. n : r[k] # es[j]
        BY <1>21, <2>2, <3>1
      <3>3. PICK j \in 1 .. m : k = at - 1 + j /\ r[k] = t[j]
        BY <1>20, <3>1, <3>2
      <3>4. j # 1
        BY <1>12, <2>2, <3>1, <3>3
      <3>5. i + j - 1 \in 1 .. l /\ t[j] = src[i + j - 1] /\ at + ((i + j - 1) - i) = k
        <4>1. i + j - 1 \in 1 .. l /\ t[j] = src[i + j - 1]
          BY <1>13, <3>3, <3>4
        <4>2. at + ((i + j - 1) - i) = k
          BY ONLY <1>1, <1>4, <1>11, <3>3
        <4> QED
          BY <4>1, <4>2
      <3>6. f[i + j - 1] = k
        BY <1>23, <3>5
      <3>7. ChildAt(src, b, i + j - 1)
        BY <3>1, <3>3, <3>5 DEF ChildAt, l
      <3> QED
        BY <3>6, <3>7
    <2> HIDE DEF b
    <2>8. Aligns(src, r, b, f)
      BY <2>5, <2>6, <2>7 DEF Aligns
    <2>9. Keeps(src, r, b)
      BY <1>3, <1>10, <2>8, AlignedKeeps
    <2> QED
      BY <2>9 DEF b
  <1>26. src[i].parent = TopLevel \/ src[i].parent \in Ids(src)
    <2>1. D[i] \in 0 .. (i - 1) /\ src[i].parent = IF D[i] = 0 THEN TopLevel ELSE src[D[i]].id
      BY <1>1, <1>2, ParentIs DEF l
    <2>2. D[i] # 0 => D[i] \in 1 .. l
      BY <1>1, <1>11, <2>1
    <2> QED
      BY <1>15, <2>1, <2>2
  <1>27. ASSUME NEW a \in 1 .. Len(src), NEW k \in 1 .. Len(r), src[a].id = r[k].id
         PROVE  /\ r[k].text = src[a].text /\ Keeps(src, r, src[a].id)
                /\ IF r[k].parent = src[a].parent /\ src[a].parent # TopLevel
                   THEN r[k].updated = src[a].updated ELSE r[k].updated = now
    <2>1. a \in 1 .. l /\ k \in 1 .. (n + m)
      BY <1>19 DEF l
    <2>2. PICK j \in 1 .. m : k = at - 1 + j /\ r[k] = t[j] /\ a = i + j - 1
      BY <1>22, <1>27, <2>1
    <2>3. a \in i .. (e - 1) /\ r[k].text = src[a].text /\ (j # 1 => r[k] = src[a])
      BY <1>13, <2>2
    <2>4. Keeps(src, r, src[a].id)
      BY <1>25, <2>3
    <2>5. CASE j = 1
      <3>1. a = i /\ r[k].parent = p /\ r[k].updated = now
        BY <1>11, <1>12, <2>2, <2>5
      <3>2. ~(r[k].parent = src[a].parent /\ src[a].parent # TopLevel)
        BY <1>4, <1>26, <3>1
      <3> QED
        BY <2>3, <2>4, <3>1, <3>2
    <2>6. CASE j # 1
      <3>1. a \in (i + 1) .. (e - 1)
        BY <1>11, <2>2, <2>3, <2>6
      <3>2. src[a].parent = src[D[a]].id /\ D[a] \in i .. (e - 1)
        BY <1>14, <3>1
      <3>3. D[a] \in 1 .. l
        BY <1>1, <1>5, <1>11, <3>2
      <3>4. src[a].parent # TopLevel
        BY <1>15, <3>2, <3>3
      <3> QED
        BY <2>3, <2>4, <2>6, <3>4
    <2> QED
      BY <2>5, <2>6
  <1>28. Whole(src, r, now)
    BY <1>27 DEF Whole
  <1> QED
    BY <1>18, <1>28 DEF r, t, at, p
-----------------------------------------------------------------------------
\* Children listed alike are children kept.

\* An increasing numbering never falls behind.
LEMMA IncreasingAhead ==
    ASSUME NEW n \in Nat, NEW f, \A a \in 1 .. n : f[a] \in Nat /\ f[a] >= 1,
           \A a, b \in 1 .. n : a < b => f[a] < f[b]
    PROVE  \A a \in 1 .. n : f[a] >= a
  <1> DEFINE J == {m \in Nat : m \in 1 .. n => f[m] >= m}
  <1>1. 0 \in J
    OBVIOUS
  <1>2. ASSUME NEW m \in Nat, m \in J
        PROVE  m + 1 \in J
    <2> SUFFICES ASSUME m + 1 \in 1 .. n
                 PROVE  f[m + 1] >= m + 1
      OBVIOUS
    <2>1. CASE m = 0
      BY <2>1
    <2>2. CASE m # 0
      <3>1. m \in 1 .. n /\ m < m + 1
        BY <2>2
      <3>2. f[m] >= m /\ f[m] < f[m + 1] /\ f[m] \in Nat /\ f[m + 1] \in Nat
        BY <1>2, <3>1
      <3> QED
        BY <3>2
    <2> QED
      BY <2>1, <2>2
  <1>3. \A m \in Nat : m \in J
    <2> HIDE DEF J
    <2> QED
      BY <1>1, <1>2, IndexInduction
  <1> QED
    BY <1>3

\* One that leaves no number out leaves every number where it is.
Renumbers(f, n, m) ==
    /\ n \in Nat /\ m \in Nat /\ \A a \in 1 .. n : f[a] \in 1 .. m
    /\ \A a, b \in 1 .. n : a < b => f[a] < f[b]
    /\ \A c \in 1 .. m : \E a \in 1 .. n : f[a] = c
LEMMA IncreasingIs ==
    ASSUME NEW n, NEW m, NEW f, Renumbers(f, n, m)
    PROVE  n = m /\ \A a \in 1 .. n : f[a] = a
  <1>0. /\ n \in Nat /\ m \in Nat /\ \A a \in 1 .. n : f[a] \in 1 .. m
        /\ \A a, b \in 1 .. n : a < b => f[a] < f[b]
        /\ \A c \in 1 .. m : \E a \in 1 .. n : f[a] = c
    BY DEF Renumbers
  <1> DEFINE g == [c \in 1 .. m |-> CHOOSE a \in 1 .. n : f[a] = c]
  <1>1. \A c \in 1 .. m : g[c] \in 1 .. n /\ f[g[c]] = c
    BY <1>0
  <1> HIDE DEF g
  <1>2. ASSUME NEW c \in 1 .. m, NEW d \in 1 .. m, c < d
        PROVE  g[c] < g[d]
    <2>1. g[c] \in 1 .. n /\ g[d] \in 1 .. n /\ f[g[c]] = c /\ f[g[d]] = d
      BY <1>0, <1>1
    <2>2. CASE g[d] = g[c]
      BY <1>0, <1>2, <2>1, <2>2
    <2>3. CASE g[d] < g[c]
      <3>1. f[g[d]] < f[g[c]]
        BY <1>0, <2>1, <2>3
      <3> QED
        BY <1>0, <1>2, <2>1, <3>1
    <2> QED
      BY <1>0, <2>1, <2>2, <2>3
  <1>3. \A a \in 1 .. n : f[a] >= a
    <2>1. \A a \in 1 .. n : f[a] \in Nat /\ f[a] >= 1
      BY <1>0
    <2> QED
      BY <1>0, <2>1, IncreasingAhead
  <1>4. \A c \in 1 .. m : g[c] >= c
    <2>1. \A c \in 1 .. m : g[c] \in Nat /\ g[c] >= 1
      BY <1>0, <1>1
    <2> QED
      BY <1>0, <1>2, <2>1, IncreasingAhead
  <1>5. ASSUME NEW a \in 1 .. n
        PROVE  f[a] = a
    <2>1. f[a] \in 1 .. m /\ f[a] >= a
      BY <1>0, <1>3
    <2>2. g[f[a]] \in 1 .. n /\ f[g[f[a]]] = f[a] /\ g[f[a]] >= f[a]
      BY <1>0, <1>1, <1>4, <2>1
    <2>3. ~(a < g[f[a]])
      <3>1. SUFFICES ASSUME a < g[f[a]]
                     PROVE  FALSE
        OBVIOUS
      <3>2. f[a] < f[g[f[a]]]
        BY <1>0, <2>2, <3>1
      <3> QED
        BY <1>0, <2>1, <2>2, <3>2
    <2> QED
      BY <1>0, <2>1, <2>2, <2>3
  <1>6. n <= m
    <2>1. CASE n = 0
      BY <1>0, <2>1
    <2>2. CASE n # 0
      <3>1. n \in 1 .. n
        BY <1>0, <2>2
      <3>2. f[n] = n /\ f[n] \in 1 .. m
        BY <1>0, <1>5, <3>1
      <3> QED
        BY <1>0, <3>2
    <2> QED
      BY <1>0, <2>1, <2>2
  <1>7. m <= n
    <2>1. CASE m = 0
      BY <1>0, <2>1
    <2>2. CASE m # 0
      <3>1. m \in 1 .. m
        BY <1>0, <2>2
      <3>2. g[m] \in 1 .. n /\ g[m] >= m
        BY <1>0, <1>1, <1>4, <3>1
      <3> QED
        BY <1>0, <3>2
    <2> QED
      BY <1>0, <2>1, <2>2
  <1> QED
    BY <1>0, <1>5, <1>6, <1>7

\* Which positions are those of the children of x.
AreChildren(K, es, x) == \A i : i \in K <=> ChildAt(es, x, i)

\* Listed positions, and what they list.
LEMMA ListIs ==
    ASSUME NEW es, NEW x, NEW K, AreChildren(K, es, x), NEW q, Lists(q, K)
    PROVE  /\ Len(q) \in Nat
           /\ \A a \in 1 .. Len(q) : ChildAt(es, x, q[a]) /\ q[a] \in Nat
           /\ \A a, b \in 1 .. Len(q) : a < b <=> q[a] < q[b]
           /\ \A i : ChildAt(es, x, i) => \E a \in 1 .. Len(q) : q[a] = i
           /\ IdsAt(es, q) = [a \in 1 .. Len(q) |-> es[q[a]].id]
  <1>1. /\ q \in Seq(Nat) /\ \A i, j \in 1 .. Len(q) : i < j => q[i] < q[j]
        /\ \A i \in 1 .. Len(q) : q[i] \in K
        /\ \A k \in K : \E i \in 1 .. Len(q) : q[i] = k
    BY DEF Lists
  <1>2. Len(q) \in Nat /\ \A a \in 1 .. Len(q) : q[a] \in Nat
    BY <1>1
  <1>3. ASSUME NEW a \in 1 .. Len(q), NEW b \in 1 .. Len(q)
        PROVE  a < b <=> q[a] < q[b]
    <2>1. a < b => q[a] < q[b]
      BY <1>1
    <2>2. b < a => q[b] < q[a]
      BY <1>1
    <2>3. a = b => q[a] = q[b]
      OBVIOUS
    <2>4. a \in Nat /\ b \in Nat /\ q[a] \in Nat /\ q[b] \in Nat
      BY <1>2
    <2> QED
      BY <2>1, <2>2, <2>3, <2>4
  <1> QED
    BY <1>1, <1>2, <1>3 DEF AreChildren, IdsAt

\* The children of x are listed alike exactly when they are kept.
LEMMA KeptListed ==
    ASSUME NEW es, NEW rs, Named(es), Named(rs), NEW x,
           NEW K, AreChildren(K, es, x), NEW q, Lists(q, K),
           NEW M, AreChildren(M, rs, x), NEW r, Lists(r, M)
    PROVE  IdsAt(es, q) = IdsAt(rs, r) <=> Keeps(es, rs, x)
  <1> DEFINE n == Len(q)
             m == Len(r)
             E == IdsAt(es, q)
             R == IdsAt(rs, r)
  <1>1. /\ n \in Nat
        /\ \A a \in 1 .. n : ChildAt(es, x, q[a]) /\ q[a] \in Nat
        /\ \A a, b \in 1 .. n : a < b <=> q[a] < q[b]
        /\ \A i : ChildAt(es, x, i) => \E a \in 1 .. n : q[a] = i
        /\ E = [a \in 1 .. n |-> es[q[a]].id]
    BY ListIs
  <1>2. /\ m \in Nat
        /\ \A a \in 1 .. m : ChildAt(rs, x, r[a]) /\ r[a] \in Nat
        /\ \A a, b \in 1 .. m : a < b <=> r[a] < r[b]
        /\ \A i : ChildAt(rs, x, i) => \E a \in 1 .. m : r[a] = i
        /\ R = [a \in 1 .. m |-> rs[r[a]].id]
    BY ListIs
  <1>3. /\ \A i, k : ChildAt(es, x, i) /\ ChildAt(es, x, k) /\ es[i].id = es[k].id => i = k
        /\ \A i, k : ChildAt(rs, x, i) /\ ChildAt(rs, x, k) /\ rs[i].id = rs[k].id => i = k
    BY DEF Named, ChildAt
  <1>4. (\A a \in 1 .. n : E[a] = es[q[a]].id) /\ (\A a \in 1 .. m : R[a] = rs[r[a]].id)
        /\ DOMAIN E = 1 .. n /\ DOMAIN R = 1 .. m
    BY <1>1, <1>2
  <1> HIDE DEF n, m, E, R
  <1>5. ASSUME E = R
        PROVE  Keeps(es, rs, x)
    <2>1. n = m
      BY <1>1, <1>2, <1>4, <1>5
    <2>2. \A a \in 1 .. n : es[q[a]].id = rs[r[a]].id
      BY <1>4, <1>5, <2>1
    <2>3. ASSUME NEW i, ChildAt(es, x, i)
          PROVE  \E k : ChildAt(rs, x, k) /\ rs[k].id = es[i].id
      <3>1. PICK a \in 1 .. n : q[a] = i
        BY <1>1, <2>3
      <3>2. ChildAt(rs, x, r[a]) /\ rs[r[a]].id = es[i].id
        BY <1>2, <2>1, <2>2, <3>1
      <3> QED
        BY <3>2
    <2>4. ASSUME NEW k, ChildAt(rs, x, k)
          PROVE  \E i : ChildAt(es, x, i) /\ rs[k].id = es[i].id
      <3>1. PICK a \in 1 .. m : r[a] = k
        BY <1>2, <2>4
      <3>2. ChildAt(es, x, q[a]) /\ es[q[a]].id = rs[k].id
        BY <1>1, <2>1, <2>2, <3>1
      <3> QED
        BY <3>2
    <2>5. ASSUME NEW i, NEW j, NEW k, NEW l,
                 ChildAt(es, x, i), ChildAt(es, x, j), i < j,
                 ChildAt(rs, x, k), es[i].id = rs[k].id,
                 ChildAt(rs, x, l), es[j].id = rs[l].id
          PROVE  k < l
      <3>1. PICK a \in 1 .. n : q[a] = i
        BY <1>1, <2>5
      <3>2. PICK b \in 1 .. n : q[b] = j
        BY <1>1, <2>5
      <3>3. a < b
        BY <1>1, <2>5, <3>1, <3>2
      <3>4. ChildAt(rs, x, r[a]) /\ rs[r[a]].id = rs[k].id
        BY <1>2, <2>1, <2>2, <2>5, <3>1
      <3>5. ChildAt(rs, x, r[b]) /\ rs[r[b]].id = rs[l].id
        BY <1>2, <2>1, <2>2, <2>5, <3>2
      <3>6. r[a] = k
        BY <1>3, <2>5, <3>4
      <3>7. r[b] = l
        BY <1>3, <2>5, <3>5
      <3>8. r[a] < r[b]
        BY <1>2, <2>1, <3>3
      <3> QED
        BY <3>6, <3>7, <3>8
    <2> QED
      BY <2>3, <2>4, <2>5 DEF Keeps
  <1>6. ASSUME Keeps(es, rs, x)
        PROVE  E = R
    <2>1. /\ \A i : ChildAt(es, x, i) => \E k : ChildAt(rs, x, k) /\ rs[k].id = es[i].id
          /\ \A k : ChildAt(rs, x, k) => \E i : ChildAt(es, x, i) /\ rs[k].id = es[i].id
          /\ \A i, j, k, l :
                /\ ChildAt(es, x, i) /\ ChildAt(es, x, j) /\ i < j
                /\ ChildAt(rs, x, k) /\ es[i].id = rs[k].id
                /\ ChildAt(rs, x, l) /\ es[j].id = rs[l].id
                => k < l
      BY <1>6 DEF Keeps
    <2> DEFINE f == [a \in 1 .. n |-> CHOOSE c \in 1 .. m : rs[r[c]].id = es[q[a]].id]
    <2>2. ASSUME NEW a \in 1 .. n
          PROVE  \E c \in 1 .. m : rs[r[c]].id = es[q[a]].id
      <3>1. PICK k : ChildAt(rs, x, k) /\ rs[k].id = es[q[a]].id
        BY <1>1, <2>1
      <3>2. PICK c \in 1 .. m : r[c] = k
        BY <1>2, <3>1
      <3> QED
        BY <3>1, <3>2
    <2>3. \A a \in 1 .. n : f[a] \in 1 .. m /\ rs[r[f[a]]].id = es[q[a]].id
      BY <2>2
    <2> HIDE DEF f
    <2>4. ASSUME NEW a \in 1 .. n, NEW b \in 1 .. n, a < b
          PROVE  f[a] < f[b]
      <3>1. ChildAt(es, x, q[a]) /\ ChildAt(es, x, q[b]) /\ q[a] < q[b]
        BY <1>1, <2>4
      <3>2. /\ ChildAt(rs, x, r[f[a]]) /\ rs[r[f[a]]].id = es[q[a]].id
            /\ ChildAt(rs, x, r[f[b]]) /\ rs[r[f[b]]].id = es[q[b]].id
        BY <1>2, <2>3
      <3>3. r[f[a]] < r[f[b]]
        BY <2>1, <3>1, <3>2
      <3> QED
        BY <1>2, <2>3, <3>3
    <2>5. ASSUME NEW c \in 1 .. m
          PROVE  \E a \in 1 .. n : f[a] = c
      <3>1. ChildAt(rs, x, r[c])
        BY <1>2
      <3>2. PICK i : ChildAt(es, x, i) /\ rs[r[c]].id = es[i].id
        BY <2>1, <3>1
      <3>3. PICK a \in 1 .. n : q[a] = i
        BY <1>1, <3>2
      <3>4. f[a] \in 1 .. m /\ rs[r[f[a]]].id = rs[r[c]].id
        BY <2>3, <3>2, <3>3
      <3>5. r[f[a]] = r[c]
        <4>1. ChildAt(rs, x, r[f[a]])
          BY <1>2, <3>4
        <4> QED
          BY <1>3, <3>1, <3>4, <4>1
      <3>6. ~(f[a] < c) /\ ~(c < f[a])
        <4>1. r[c] \in Nat /\ r[f[a]] \in Nat
          BY <1>2, <3>4
        <4>2. ~(r[f[a]] < r[c]) /\ ~(r[c] < r[f[a]])
          BY <3>5, <4>1
        <4> QED
          BY <1>2, <3>4, <4>2
      <3> QED
        BY <3>4, <3>6
    <2>6. n = m /\ \A a \in 1 .. n : f[a] = a
      <3>1. n \in Nat /\ m \in Nat /\ \A a \in 1 .. n : f[a] \in 1 .. m
        BY <1>1, <1>2, <2>3
      <3>2. \A a, b \in 1 .. n : a < b => f[a] < f[b]
        BY <2>4
      <3>3. \A c \in 1 .. m : \E a \in 1 .. n : f[a] = c
        BY <2>5
      <3> QED
        <4>1. Renumbers(f, n, m)
          BY <3>1, <3>2, <3>3 DEF Renumbers
        <4> QED
          BY <4>1, IncreasingIs
    <2>7. ASSUME NEW a \in 1 .. n
          PROVE  es[q[a]].id = rs[r[a]].id
      BY <2>3, <2>6
    <2>8. E = [a \in 1 .. n |-> es[q[a]].id] /\ R = [a \in 1 .. n |-> rs[r[a]].id]
      BY <1>1, <1>2, <2>6 DEF E, R, n, m
    <2>9. [a \in 1 .. n |-> es[q[a]].id] = [a \in 1 .. n |-> rs[r[a]].id]
      BY <2>7
    <2> QED
      BY <2>8, <2>9
  <1> QED
    BY <1>5, <1>6 DEF E, R
=============================================================================
