------------------------------ MODULE Recursion ------------------------------
(***************************************************************************)
(* Facts about natural numbers that the proofs about loops need, in a form *)
(* that speaks of sets and functions only: a set of numbers has a least    *)
(* one, a function of numbers may be given by its values at smaller ones,  *)
(* and so the values of a loop variable, turn by turn, exist.              *)
(***************************************************************************)
EXTENDS Integers, TLAPS, FiniteSetTheorems, WellFoundedInduction

\* Every set of natural numbers that is not empty has a least element.
LEMMA LeastNumber ==
  ASSUME NEW T \in SUBSET Nat, T # {}
  PROVE  \E x \in T : \A y \in T : x <= y
<1> DEFINE W == {0..n : n \in T}
<1>1. \A n \in Nat : IsFiniteSet(0..n) BY FS_Interval
<1>2. W \subseteq FiniteSubsetsOf(Nat)
  <2>1. ASSUME NEW n \in T PROVE 0..n \in FiniteSubsetsOf(Nat)
    BY <1>1 DEF FiniteSubsetsOf
  <2> QED BY <2>1
<1>3. W # {} OBVIOUS
<1>4. IsWellFoundedOn(StrictSubsetOrdering(Nat), FiniteSubsetsOf(Nat))
  BY FS_StrictSubsetOrderingWellFounded
<1> HIDE DEF W
<1>5. PICK w \in W : \A v \in W : ~ (<<v, w>> \in StrictSubsetOrdering(Nat))
  BY <1>2, <1>3, <1>4, WFMin
<1>6. PICK x \in T : w = 0..x BY DEF W
<1>7. ASSUME NEW y \in T, y < x PROVE FALSE
  <2>1. 0..y \in W BY DEF W
  <2>2. x \in 0..x /\ x \notin 0..y BY <1>7
  <2>3. 0..y \subseteq 0..x BY <1>7
  <2>4. <<0..y, 0..x>> \in StrictSubsetOrdering(Nat)
    BY <2>2, <2>3 DEF StrictSubsetOrdering
  <2> QED BY <1>5, <1>6, <2>1, <2>4
<1> QED BY <1>7

\* Induction over the numbers up to N, for a property given by its set.
LEMMA CountingUp ==
  ASSUME NEW N \in Nat, NEW P \in SUBSET Nat, 0 \in P,
         \A k \in P : k < N => k + 1 \in P
  PROVE  0..N \subseteq P
<1> DEFINE T == (0..N) \ P
<1>1. SUFFICES ASSUME T # {} PROVE FALSE OBVIOUS
<1>2. T \in SUBSET Nat OBVIOUS
<1> HIDE DEF T
<1>3. PICK x \in T : \A y \in T : x <= y BY <1>1, <1>2, LeastNumber
<1>4. x # 0 /\ x \in Nat /\ x <= N /\ x \notin P BY DEF T
<1>5. x - 1 \in Nat /\ x - 1 \in 0..N /\ x - 1 \notin T BY <1>3, <1>4
<1>6. x - 1 \in P /\ x - 1 < N /\ (x - 1) + 1 = x BY <1>4, <1>5 DEF T
<1> QED BY <1>4, <1>6

\* A function that is a at 0, and at k is G[k] of its value at the smaller D[k].
Descends(f, N, a, D, G) == f = [k \in 0..N |-> IF k = 0 THEN a ELSE G[k][f[D[k]]]]

LEMMA DescendingExists ==
  ASSUME NEW N \in Nat, NEW X, NEW a \in X, NEW D \in [1..N -> Nat],
         \A k \in 1..N : D[k] < k, NEW G \in [1..N -> [X -> X]]
  PROVE  \E f \in [0..N -> X] : Descends(f, N, a, D, G)
<1> DEFINE P == {n \in Nat : n <= N => \E f \in [0..n -> X] : Descends(f, n, a, D, G)}
<1>1. 0 \in P
  <2> DEFINE f == [k \in 0..0 |-> a]
  <2>1. f \in [0..0 -> X] /\ Descends(f, 0, a, D, G) BY DEF Descends
  <2> QED BY <2>1
<1>2. ASSUME NEW n \in P, n < N PROVE n + 1 \in P
  <2>1. PICK f \in [0..n -> X] : Descends(f, n, a, D, G) BY <1>2
  <2>2. /\ G[n + 1] \in [X -> X] /\ D[n + 1] \in 0..n
        /\ \A k \in 1..n : D[k] \in 0..n
    BY <1>2
  <2> DEFINE g == [k \in 0..(n + 1) |-> IF k = n + 1 THEN G[n + 1][f[D[n + 1]]] ELSE f[k]]
  <2>3. g \in [0..(n + 1) -> X] BY <2>2
  <2>4. ASSUME NEW k \in 0..(n + 1) PROVE g[k] = IF k = 0 THEN a ELSE G[k][g[D[k]]]
    <3>1. \A j \in 0..n : g[j] = f[j] OBVIOUS
    <3>2. \A j \in 0..n : f[j] = IF j = 0 THEN a ELSE G[j][f[D[j]]] BY <2>1 DEF Descends
    <3>3. g[n + 1] = G[n + 1][f[D[n + 1]]] OBVIOUS
    <3> HIDE DEF g
    <3>4. CASE k = n + 1 BY <1>2, <2>2, <3>1, <3>3, <3>4
    <3>5. CASE k # n + 1
      <4>1. k \in 0..n /\ (k # 0 => k \in 1..n) BY <1>2, <3>5
      <4> QED BY <2>2, <3>1, <3>2, <4>1
    <3> QED BY <3>4, <3>5
  <2>5. Descends(g, n + 1, a, D, G) BY <2>4 DEF Descends
  <2> QED BY <2>3, <2>5
<1>3. 0..N \subseteq P
  <2>1. P \in SUBSET Nat OBVIOUS
  <2> HIDE DEF P
  <2> QED BY <1>1, <1>2, <2>1, CountingUp
<1> QED BY <1>3

\* Whatever is given so, and starts in X, stays there.
StartsIn(h, N, X, D, G) ==
  /\ D \in [1..N -> Nat] /\ G \in [1..N -> [X -> X]] /\ \A k \in 1..N : D[k] < k
  /\ h[0] \in X
  /\ \A k \in 1..N : h[D[k]] \in X => h[k] = G[k][h[D[k]]]

LEMMA DescendingStays ==
  ASSUME NEW N \in Nat, NEW X, NEW h, NEW D, NEW G, StartsIn(h, N, X, D, G)
  PROVE  \A k \in 0..N : h[k] \in X
<1> DEFINE P == {k \in Nat : k <= N => \A j \in 0..k : h[j] \in X}
<1>1. 0 \in P
  <2>1. \A j \in 0..0 : j = 0 OBVIOUS
  <2> QED BY <2>1 DEF StartsIn
<1>2. ASSUME NEW k \in P, k < N PROVE k + 1 \in P
  <2>1. /\ k + 1 \in 1..N /\ D[k + 1] \in 0..k /\ \A j \in 0..k : h[j] \in X
        /\ G[k + 1] \in [X -> X]
    BY <1>2 DEF StartsIn
  <2>2. h[k + 1] \in X BY <2>1 DEF StartsIn
  <2>3. \A j \in 0..(k + 1) : j = k + 1 \/ j \in 0..k BY <1>2
  <2> QED BY <2>1, <2>2, <2>3
<1>3. P \in SUBSET Nat OBVIOUS
<1> HIDE DEF P
<1>4. 0..N \subseteq P BY <1>1, <1>2, <1>3, CountingUp
<1>5. N \in P BY <1>4
<1> QED BY <1>5 DEF P

\* A variable that starts as a and becomes G[k][it] in turn k.
Turns(f, N, a, G) == f = [k \in 0..N |-> IF k = 0 THEN a ELSE G[k][f[k - 1]]]

LEMMA TurnsExist ==
  ASSUME NEW N \in Nat, NEW X, NEW a \in X, NEW G \in [1..N -> [X -> X]]
  PROVE  \E f \in [0..N -> X] : Turns(f, N, a, G)
<1> DEFINE D == [k \in 1..N |-> k - 1]
<1>1. D \in [1..N -> Nat] /\ \A k \in 1..N : D[k] < k OBVIOUS
<1>2. \A k \in 1..N : D[k] = k - 1 OBVIOUS
<1> HIDE DEF D
<1>3. PICK f \in [0..N -> X] : Descends(f, N, a, D, G) BY <1>1, DescendingExists
<1>4. ASSUME NEW k \in 0..N PROVE f[k] = IF k = 0 THEN a ELSE G[k][f[k - 1]]
  <2>1. f[k] = IF k = 0 THEN a ELSE G[k][f[D[k]]] BY <1>3 DEF Descends
  <2>2. k # 0 => k \in 1..N OBVIOUS
  <2> QED BY <1>2, <2>1, <2>2
<1> QED BY <1>4 DEF Turns

\* A variable of X that each turn leaves in X.
LEMMA TurnsStay ==
  ASSUME NEW N \in Nat, NEW X, NEW h, NEW G \in [1..N -> [X -> X]], h[0] \in X,
         \A k \in 1..N : h[k - 1] \in X => h[k] = G[k][h[k - 1]]
  PROVE  \A k \in 0..N : h[k] \in X
<1> DEFINE D == [k \in 1..N |-> k - 1]
<1>1. D \in [1..N -> Nat] /\ \A k \in 1..N : D[k] < k OBVIOUS
<1>2. \A k \in 1..N : D[k] = k - 1 OBVIOUS
<1> HIDE DEF D
<1>3. \A k \in 1..N : h[D[k]] \in X => h[k] = G[k][h[D[k]]] BY <1>2
<1>4. StartsIn(h, N, X, D, G) BY <1>1, <1>3 DEF StartsIn
<1> QED BY <1>4, DescendingStays

=============================================================================
