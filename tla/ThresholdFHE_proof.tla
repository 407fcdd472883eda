------------------------- MODULE ThresholdFHE_proof -------------------------
(***************************************************************************)
(* Proofs about ThresholdFHE, for all parties, thresholds, moduli and      *)
(* draws.                                                                  *)
(***************************************************************************)
EXTENDS ThresholdFHE, FiniteSetTheorems, WellFoundedInduction, TLAPS

-----------------------------------------------------------------------------
(* Induction over the natural numbers, for sets.                           *)

(* A non-empty set of natural numbers has a least element.                  *)
LEMMA LeastExists ==
  ASSUME NEW S \in SUBSET Nat, S # {}
  PROVE  \E x \in S : \A y \in S : x <= y
PROOF
<1> DEFINE T == {0 .. n : n \in S}
<1>1. \A n \in Nat : 0 .. n \in SUBSET Nat /\ IsFiniteSet(0 .. n)
  BY FS_Interval
<1>2. T \subseteq FiniteSubsetsOf(Nat) /\ T # {}
  BY <1>1 DEF FiniteSubsetsOf
<1>3. PICK X \in T : \A Y \in T : <<Y, X>> \notin StrictSubsetOrdering(Nat)
  <2> HIDE DEF T
  <2> QED
    BY <1>2, FS_StrictSubsetOrderingWellFounded, WFMin
<1>4. PICK x \in S : X = 0 .. x
  BY <1>3
<1>5. ASSUME NEW y \in S, y < x
      PROVE  FALSE
  <2>1. x \in 0 .. x /\ x \notin 0 .. y /\ 0 .. y \subseteq 0 .. x
    BY <1>5
  <2>2. <<0 .. y, 0 .. x>> \in (SUBSET Nat) \X (SUBSET Nat)
    BY <1>1
  <2>3. <<0 .. y, 0 .. x>> \in StrictSubsetOrdering(Nat)
    BY <2>1, <2>2 DEF StrictSubsetOrdering
  <2> QED
    BY <1>3, <1>4, <2>3
<1> QED
  BY <1>5

(* A set that holds 0, and with a number its successor, up to a bound.      *)
LEMMA BoundedInduction ==
  ASSUME NEW Members, NEW top \in Nat, 0 \in Members, \A n \in 0 .. top - 1 : n \in Members => n + 1 \in Members
  PROVE  \A n \in 0 .. top : n \in Members
PROOF
<1> DEFINE Missing == {n \in 0 .. top : n \notin Members}
<1>1. SUFFICES ASSUME Missing # {} PROVE FALSE
  OBVIOUS
<1>2. Missing \in SUBSET Nat
  OBVIOUS
<1>3. PICK x \in Missing : \A y \in Missing : x <= y
  <2> HIDE DEF Missing
  <2> QED
    BY <1>1, <1>2, LeastExists
<1>4. x - 1 \in 0 .. top - 1 /\ x - 1 \in Members /\ x - 1 + 1 = x
  BY <1>3
<1> QED
  BY <1>3, <1>4

(* Recursion up to a bound: F[k] makes the k-th value, in S, of the one    *)
(* before, and there is a function of these values.                        *)
RecursionSteps(S, top) == [1 .. top -> [S -> S]]
IsRecursion(f, S, a, F, top) ==
  /\ f \in [0 .. top -> S]
  /\ f[0] = a
  /\ \A k \in 1 .. top : f[k] = F[k][f[k - 1]]

LEMMA RecursionExists ==
  ASSUME NEW S, NEW a \in S, NEW top \in Nat, NEW F \in RecursionSteps(S, top)
  PROVE  \E f : IsRecursion(f, S, a, F, top)
PROOF
<1> USE DEF RecursionSteps
<1> DEFINE Is(f, n) == f = [k \in 0 .. n |-> IF k = 0 THEN a ELSE F[k][f[k - 1]]]
           Members == {n \in 0 .. top : \E f \in [0 .. n -> S] : Is(f, n)}
<1>1. 0 \in Members
  <2> DEFINE f == [k \in 0 .. 0 |-> a]
  <2>1. f \in [0 .. 0 -> S]
    OBVIOUS
  <2>2. Is(f, 0)
    OBVIOUS
  <2>3. 0 \in 0 .. top
    OBVIOUS
  <2> HIDE DEF f
  <2> QED
    BY <2>1, <2>2, <2>3
<1>2. ASSUME NEW n \in 0 .. top - 1, n \in Members
      PROVE  n + 1 \in Members
  <2>1. PICK f \in [0 .. n -> S] : Is(f, n)
    BY <1>2
  <2> DEFINE h == [k \in 0 .. n + 1 |-> IF k = 0 THEN a ELSE F[k][f[k - 1]]]
  <2>2. \A k \in 0 .. n : h[k] = f[k]
    <3>1. \A k \in 0 .. n : f[k] = IF k = 0 THEN a ELSE F[k][f[k - 1]]
      BY <2>1
    <3>2. \A k \in 0 .. n : k \in 0 .. n + 1
      OBVIOUS
    <3> HIDE DEF Is, Members
    <3> QED
      BY <3>1, <3>2
  <2>3. \A k \in 0 .. n + 1 : h[k] \in S
    <3>1. \A k \in 0 .. n + 1 : k # 0 => k - 1 \in 0 .. n /\ k \in 1 .. top
      OBVIOUS
    <3>2. \A k \in 1 .. top, v \in S : F[k][v] \in S
      OBVIOUS
    <3> HIDE DEF Is, Members
    <3> QED
      BY <3>1, <3>2
  <2> HIDE DEF h
  <2>4. \A k \in 0 .. n + 1 : k # 0 => f[k - 1] = h[k - 1]
    BY <2>2
  <2>5. Is(h, n + 1)
    BY <2>4 DEF h
  <2>6. h \in [0 .. n + 1 -> S]
    BY <2>3, <2>5
  <2>7. n + 1 \in 0 .. top
    OBVIOUS
  <2> QED
    BY <2>5, <2>6, <2>7
<1>3. \A n \in 0 .. top : n \in Members
  <2> HIDE DEF Members
  <2> QED
    BY <1>1, <1>2, BoundedInduction, Zenon
<1>4. PICK f \in [0 .. top -> S] : Is(f, top)
  BY <1>3
<1>5. f[0] = a /\ \A k \in 1 .. top : f[k] = F[k][f[k - 1]]
  BY <1>4
<1> QED
  BY <1>5 DEF IsRecursion

(* Quotient and remainder.                                                 *)
LEMMA Division ==
  ASSUME NEW a \in Int, NEW b \in Nat \ {0}
  PROVE  \E k \in Int, r \in 0 .. b - 1 : a = b * k + r /\ k = a \div b /\ r = a % b
OBVIOUS

-----------------------------------------------------------------------------
(***************************************************************************)
(* Congruences.                                                            *)
(***************************************************************************)
Congruent(x, y, m) == \E k \in Int : x = y + k * m

LEMMA CongruentRefl ==
  ASSUME NEW x \in Int, NEW m \in Int
  PROVE  Congruent(x, x, m)
PROOF
<1>1. 0 \in Int /\ x = x + 0 * m
  OBVIOUS
<1> QED
  BY <1>1 DEF Congruent

LEMMA CongruentSym ==
  ASSUME NEW x \in Int, NEW y \in Int, NEW m \in Int, Congruent(x, y, m)
  PROVE  Congruent(y, x, m)
PROOF
<1>1. PICK k \in Int : x = y + k * m
  BY DEF Congruent
<1>2. -k \in Int /\ y = x + (-k) * m
  BY <1>1
<1> QED
  BY <1>2 DEF Congruent

LEMMA CongruentTrans ==
  ASSUME NEW x \in Int, NEW y \in Int, NEW z \in Int, NEW m \in Int,
         Congruent(x, y, m), Congruent(y, z, m)
  PROVE  Congruent(x, z, m)
PROOF
<1>1. PICK k \in Int : x = y + k * m
  BY DEF Congruent
<1>2. PICK j \in Int : y = z + j * m
  BY DEF Congruent
<1>3. j + k \in Int /\ x = z + (j + k) * m
  BY <1>1, <1>2
<1> QED
  BY <1>3 DEF Congruent

LEMMA CongruentAdd ==
  ASSUME NEW x \in Int, NEW y \in Int, NEW u \in Int, NEW v \in Int, NEW m \in Int,
         Congruent(x, y, m), Congruent(u, v, m)
  PROVE  Congruent(x + u, y + v, m) /\ Congruent(x - u, y - v, m)
PROOF
<1>1. PICK k \in Int : x = y + k * m
  BY DEF Congruent
<1>2. PICK j \in Int : u = v + j * m
  BY DEF Congruent
<1>3. /\ k + j \in Int /\ x + u = y + v + (k + j) * m
      /\ k - j \in Int /\ x - u = y - v + (k - j) * m
  BY <1>1, <1>2
<1> QED
  BY <1>3 DEF Congruent

LEMMA CongruentMul ==
  ASSUME NEW x \in Int, NEW y \in Int, NEW u \in Int, NEW v \in Int, NEW m \in Int,
         Congruent(x, y, m), Congruent(u, v, m)
  PROVE  Congruent(x * u, y * v, m)
PROOF
<1>1. PICK k \in Int : x = y + k * m
  BY DEF Congruent
<1>2. PICK j \in Int : u = v + j * m
  BY DEF Congruent
<1>3. x * u = y * u + (k * m) * u
  BY <1>1
<1>4. y * u = y * v + y * (j * m)
  BY <1>2
<1>5. (k * m) * u = (k * u) * m /\ y * (j * m) = (y * j) * m
  OBVIOUS
<1>6. k * u + y * j \in Int /\ (k * u) * m + (y * j) * m = (k * u + y * j) * m
  OBVIOUS
<1>7. x * u = y * v + (k * u + y * j) * m
  BY <1>3, <1>4, <1>5, <1>6
<1> QED
  BY <1>6, <1>7 DEF Congruent

(* A number and its residue.                                               *)
LEMMA CongruentMod ==
  ASSUME NEW x \in Int, NEW m \in Nat \ {0}
  PROVE  x % m \in 0 .. m - 1 /\ Congruent(x % m, x, m) /\ Congruent(x, x % m, m)
PROOF
<1>1. PICK k \in Int, r \in 0 .. m - 1 : x = m * k + r /\ r = x % m
  BY Division
<1>2. x = r + k * m /\ r = x + (-k) * m /\ -k \in Int
  BY <1>1
<1> QED
  BY <1>1, <1>2 DEF Congruent

(* Two numbers less than a modulus apart are equal if they are congruent.  *)
LEMMA CongruentClose ==
  ASSUME NEW x \in Int, NEW y \in Int, NEW m \in Nat \ {0}, Congruent(x, y, m),
         x - y < m, y - x < m
  PROVE  x = y
PROOF
<1>1. PICK k \in Int : x = y + k * m
  BY DEF Congruent
<1>2. k >= 1 => k * m >= m
  OBVIOUS
<1>3. k <= -1 => k * m <= -m
  OBVIOUS
<1>4. k * m < m /\ k * m > -m
  BY <1>1
<1>5. k = 0
  BY <1>2, <1>3, <1>4
<1> QED
  BY <1>1, <1>5

LEMMA CongruentModEqual ==
  ASSUME NEW x \in Int, NEW y \in Int, NEW m \in Nat \ {0}
  PROVE  Congruent(x, y, m) <=> x % m = y % m
PROOF
<1>1. /\ x % m \in 0 .. m - 1 /\ Congruent(x % m, x, m) /\ Congruent(x, x % m, m)
      /\ y % m \in 0 .. m - 1 /\ Congruent(y % m, y, m) /\ Congruent(y, y % m, m)
  BY CongruentMod
<1>2. ASSUME Congruent(x, y, m) PROVE x % m = y % m
  <2>1. Congruent(x % m, y, m)
    BY <1>1, <1>2, CongruentTrans
  <2>2. Congruent(x % m, y % m, m)
    BY <1>1, <2>1, CongruentTrans
  <2> QED
    BY <1>1, <2>2, CongruentClose
<1>3. ASSUME x % m = y % m PROVE Congruent(x, y, m)
  BY <1>1, <1>3, CongruentTrans
<1> QED
  BY <1>2, <1>3

(* What is congruent modulo a multiple is congruent modulo its factor.     *)
LEMMA CongruentFactor ==
  ASSUME NEW x \in Int, NEW y \in Int, NEW m \in Int, NEW n \in Int, Congruent(x, y, m * n)
  PROVE  Congruent(x, y, m) /\ Congruent(x, y, n)
PROOF
<1>1. PICK k \in Int : x = y + k * (m * n)
  BY DEF Congruent
<1>2. k * (m * n) = (k * n) * m /\ k * (m * n) = (k * m) * n /\ k * n \in Int /\ k * m \in Int
  OBVIOUS
<1> QED
  BY <1>1, <1>2 DEF Congruent

(***************************************************************************)
(* Induction over the subsets of a finite set.                             *)
(***************************************************************************)
LEMMA StrictSubsetInduction ==
  ASSUME NEW D, IsFiniteSet(D), NEW P,
         \A s \in SUBSET D : (\A t \in SUBSET s : t # s => t \in P) => s \in P
  PROVE  \A s \in SUBSET D : s \in P
PROOF
<1> DEFINE B == {s \in SUBSET D : s \notin P}
<1>1. SUFFICES ASSUME B # {} PROVE FALSE
  OBVIOUS
<1>2. B \subseteq FiniteSubsetsOf(D)
  BY FS_Subset DEF FiniteSubsetsOf
<1>3. PICK X \in B : \A Y \in B : <<Y, X>> \notin StrictSubsetOrdering(D)
  <2> HIDE DEF B
  <2> QED
    BY <1>1, <1>2, FS_StrictSubsetOrderingWellFounded, WFMin
<1>4. ASSUME NEW Y \in SUBSET X, Y # X PROVE Y \in P
  <2>1. Y \in SUBSET D /\ X \in SUBSET D
    BY <1>3, <1>4
  <2>2. <<Y, X>> \in StrictSubsetOrdering(D)
    BY <1>4, <2>1 DEF StrictSubsetOrdering
  <2> QED
    BY <1>3, <2>1, <2>2
<1> QED
  BY <1>3, <1>4

LEMMA SubsetInduction ==
  ASSUME NEW D, IsFiniteSet(D), NEW P, {} \in P,
         \A s \in SUBSET D : \A x \in D : x \notin s /\ s \in P => s \cup {x} \in P
  PROVE  \A s \in SUBSET D : s \in P
PROOF
<1>1. ASSUME NEW s \in SUBSET D, \A t \in SUBSET s : t # s => t \in P
      PROVE  s \in P
  <2>1. CASE s = {}
    BY <2>1
  <2>2. CASE s # {}
    <3>1. PICK x \in s : TRUE
      BY <2>2
    <3>2. s \ {x} \in SUBSET s /\ s \ {x} # s /\ s = (s \ {x}) \cup {x} /\ x \notin s \ {x}
      BY <3>1
    <3>3. s \ {x} \in P
      BY <1>1, <3>2
    <3> QED
      BY <3>1, <3>2, <3>3
  <2> QED
    BY <2>1, <2>2
<1> QED
  BY <1>1, StrictSubsetInduction, Zenon

(***************************************************************************)
(* Folds: h[s] is what the elements of s make of base, one after the       *)
(* other; G[x] is what x does.                                             *)
(***************************************************************************)
Pick(s) == CHOOSE x \in s : TRUE
IsFold(h, S, base, G) ==
  h = [s \in SUBSET S |-> IF s = {} THEN base ELSE G[Pick(s)][h[s \ {Pick(s)}]]]

LEMMA PickIn ==
  ASSUME NEW s, s # {}
  PROVE  Pick(s) \in s
BY DEF Pick

LEMMA FoldExists ==
  ASSUME NEW S, IsFiniteSet(S), NEW V, NEW base \in V, NEW G \in [S -> [V -> V]]
  PROVE  \E h \in [SUBSET S -> V] : IsFold(h, S, base, G)
PROOF
<1> DEFINE N == Cardinality(S)
           W == [SUBSET S -> V]
           Step(g) == [s \in SUBSET S |-> IF s = {} THEN base ELSE G[Pick(s)][g[s \ {Pick(s)}]]]
           F == [k \in 1 .. N + 1 |-> [g \in W |-> Step(g)]]
           zero == [s \in SUBSET S |-> base]
<1>1. N \in Nat
  BY FS_CardinalityType
<1>2. ASSUME NEW g \in W PROVE Step(g) \in W
  <2>1. ASSUME NEW s \in SUBSET S, s # {} PROVE G[Pick(s)][g[s \ {Pick(s)}]] \in V
    <3>1. Pick(s) \in S /\ s \ {Pick(s)} \in SUBSET S
      BY <2>1, PickIn
    <3> QED
      BY <3>1
  <2> QED
    BY <2>1
<1>3. zero \in W /\ F \in RecursionSteps(W, N + 1)
  BY <1>2 DEF RecursionSteps
<1>4. N + 1 \in Nat
  BY <1>1
<1>5. PICK f : IsRecursion(f, W, zero, F, N + 1)
  <2> HIDE DEF N, W, F, zero
  <2> QED
    BY <1>3, <1>4, RecursionExists, Zenon
<1>6. /\ \A k \in 0 .. N + 1 : f[k] \in W
      /\ f[0] = zero
      /\ \A k \in 1 .. N + 1 : f[k] = Step(f[k - 1])
  <2>1. /\ \A k \in 0 .. N + 1 : f[k] \in W
        /\ f[0] = zero
        /\ \A k \in 1 .. N + 1 : f[k] = F[k][f[k - 1]]
    <3> HIDE DEF N, W, F, zero
    <3> QED
      BY <1>5 DEF IsRecursion
  <2>2. \A k \in 1 .. N + 1 : k - 1 \in 0 .. N + 1
    BY <1>1
  <2> HIDE DEF N, W, Step
  <2> QED
    BY <2>1, <2>2
<1> DEFINE P == {k \in 0 .. N : \A s \in SUBSET S : Cardinality(s) <= k => f[k + 1][s] = f[k][s]}
<1>7. 0 \in P
  <2>1. 1 \in 1 .. N + 1 /\ 1 - 1 = 0 /\ 0 \in 0 .. N /\ 0 + 1 = 1
    BY <1>1
  <2>2. f[1] = Step(f[0])
    BY <1>6, <2>1
  <2>3. ASSUME NEW s \in SUBSET S, Cardinality(s) <= 0 PROVE f[1][s] = f[0][s]
    <3>1. IsFiniteSet(s) /\ Cardinality(s) \in Nat
      BY FS_Subset, FS_CardinalityType
    <3>2. s = {}
      BY <2>3, <3>1, FS_EmptySet
    <3> QED
      BY <1>6, <2>2, <3>2
  <2> QED
    BY <2>1, <2>3
<1>8. ASSUME NEW k \in 0 .. N - 1, k \in P PROVE k + 1 \in P
  <2>1. /\ k + 1 \in 0 .. N /\ k + 1 \in 1 .. N + 1 /\ k + 2 \in 1 .. N + 1
        /\ k + 1 - 1 = k /\ k + 2 - 1 = k + 1 /\ k + 1 + 1 = k + 2
    BY <1>1
  <2>2. f[k + 2] = Step(f[k + 1]) /\ f[k + 1] = Step(f[k])
    <3> HIDE DEF Step
    <3> QED
      BY <1>6, <2>1
  <2>3. ASSUME NEW s \in SUBSET S, Cardinality(s) <= k + 1 PROVE f[k + 2][s] = f[k + 1][s]
    <3>1. CASE s = {}
      BY <2>2, <3>1
    <3>2. CASE s # {}
      <4>1. Pick(s) \in s /\ s \ {Pick(s)} \in SUBSET S
        BY <3>2, PickIn
      <4>2. Cardinality(s \ {Pick(s)}) <= k
        BY <2>3, <4>1, FS_Subset, FS_RemoveElement, FS_CardinalityType
      <4>3. f[k + 1][s \ {Pick(s)}] = f[k][s \ {Pick(s)}]
        BY <1>8, <4>1, <4>2
      <4>4. f[k + 2][s] = Step(f[k + 1])[s] /\ f[k + 1][s] = Step(f[k])[s]
        <5> HIDE DEF Step
        <5> QED
          BY <2>2
      <4>5. \A g : Step(g)[s] = G[Pick(s)][g[s \ {Pick(s)}]]
        BY <3>2
      <4> HIDE DEF Step
      <4> QED
        BY <4>3, <4>4, <4>5
    <3> QED
      BY <3>1, <3>2
  <2> QED
    BY <2>1, <2>3
<1>9. \A k \in 0 .. N : k \in P
  <2> HIDE DEF P, N
  <2> QED
    BY <1>1, <1>7, <1>8, BoundedInduction, Zenon
<1>10. \A s \in SUBSET S : f[N + 1][s] = f[N][s]
  <2>1. N \in 0 .. N /\ \A s \in SUBSET S : Cardinality(s) <= N
    BY <1>1, FS_Subset
  <2> QED
    BY <1>9, <2>1
<1>11. N + 1 \in 1 .. N + 1 /\ N + 1 - 1 = N /\ N \in 0 .. N + 1 /\ N + 1 \in 0 .. N + 1
  BY <1>1
<1>12. f[N] \in W /\ f[N + 1] \in W /\ f[N + 1] = Step(f[N])
  <2> HIDE DEF N, W, Step
  <2> QED
    BY <1>6, <1>11
<1>13. f[N + 1] = f[N]
  <2> HIDE DEF N, Step
  <2> QED
    BY <1>10, <1>12
<1>14. f[N] = Step(f[N])
  BY <1>12, <1>13
<1> QED
  BY <1>12, <1>14 DEF IsFold

(* A fold does not depend on the set of which it is over a part.           *)
LEMMA FoldUnique ==
  ASSUME NEW S, IsFiniteSet(S), NEW T, T \subseteq S, NEW base, NEW G, NEW H,
         \A x \in T : G[x] = H[x],
         NEW g, IsFold(g, S, base, G), NEW h, IsFold(h, T, base, H)
  PROVE  \A s \in SUBSET T : g[s] = h[s]
PROOF
<1> DEFINE P == {s \in SUBSET T : g[s] = h[s]}
<1>1. ASSUME NEW s \in SUBSET T, \A t \in SUBSET s : t # s => t \in P
      PROVE  s \in P
  <2>1. s \in SUBSET S
    OBVIOUS
  <2>2. CASE s = {}
    BY <2>1, <2>2 DEF IsFold
  <2>3. CASE s # {}
    <3>1. Pick(s) \in s
      BY <2>3, PickIn
    <3>2. s \ {Pick(s)} \in SUBSET s /\ s \ {Pick(s)} # s
      BY <3>1
    <3>3. g[s \ {Pick(s)}] = h[s \ {Pick(s)}]
      BY <1>1, <3>2
    <3>4. /\ g[s] = G[Pick(s)][g[s \ {Pick(s)}]]
          /\ h[s] = H[Pick(s)][h[s \ {Pick(s)}]]
      BY <2>1, <2>3 DEF IsFold
    <3> QED
      BY <3>1, <3>3, <3>4
  <2> QED
    BY <2>2, <2>3
<1>2. IsFiniteSet(T)
  BY FS_Subset
<1>3. \A s \in SUBSET T : s \in P
  <2> HIDE DEF P
  <2> QED
    BY <1>1, <1>2, StrictSubsetInduction, Zenon
<1> QED
  BY <1>3

(* Where the order does not matter, any element may be taken first.        *)
Commutes(G, S, V) ==
  G \in [S -> [V -> V]] /\ \A x, y \in S : \A v \in V : G[x][G[y][v]] = G[y][G[x][v]]

TakesAny(h, S, G) ==
  \A s \in SUBSET S, x \in S : x \in s => h[s] = G[x][h[s \ {x}]]

LEMMA FoldStep ==
  ASSUME NEW S, IsFiniteSet(S), NEW V, NEW base, NEW G, Commutes(G, S, V),
         NEW h \in [SUBSET S -> V], IsFold(h, S, base, G)
  PROVE  TakesAny(h, S, G)
PROOF
<1> DEFINE P == {s \in SUBSET S : \A x \in S : x \in s => h[s] = G[x][h[s \ {x}]]}
<1>1. ASSUME NEW s \in SUBSET S, \A t \in SUBSET s : t # s => t \in P
      PROVE  s \in P
  <2>1. SUFFICES ASSUME NEW x \in S, x \in s PROVE h[s] = G[x][h[s \ {x}]]
    OBVIOUS
  <2> DEFINE c == Pick(s)
  <2>2. c \in s /\ c \in S
    BY <2>1, PickIn
  <2>3. h[s] = G[c][h[s \ {c}]]
    BY <2>1 DEF IsFold
  <2> HIDE DEF c
  <2>4. CASE x = c
    BY <2>3, <2>4
  <2>5. CASE x # c
    <3> DEFINE r == (s \ {c}) \ {x}
    <3>1. /\ s \ {c} \in SUBSET s /\ s \ {c} # s /\ x \in s \ {c}
          /\ s \ {x} \in SUBSET s /\ s \ {x} # s /\ c \in s \ {x}
          /\ r = (s \ {x}) \ {c} /\ r \in SUBSET S
      BY <2>1, <2>2, <2>5
    <3> HIDE DEF r
    <3>2. h[s \ {c}] = G[x][h[r]]
      <4>1. s \ {c} \in P
        BY <1>1, <3>1
      <4> QED
        BY <2>1, <3>1, <4>1 DEF r
    <3>3. h[s \ {x}] = G[c][h[r]]
      <4>1. s \ {x} \in P
        BY <1>1, <3>1
      <4> QED
        BY <2>2, <3>1, <4>1 DEF r
    <3>4. h[r] \in V
      BY <3>1
    <3>5. G[c][G[x][h[r]]] = G[x][G[c][h[r]]]
      BY <2>1, <2>2, <3>4 DEF Commutes
    <3> QED
      BY <2>3, <3>2, <3>3, <3>5
  <2> QED
    BY <2>4, <2>5
<1>2. \A s \in SUBSET S : s \in P
  <2> HIDE DEF P
  <2> QED
    BY <1>1, StrictSubsetInduction, Zenon
<1> QED
  BY <1>2 DEF TakesAny

(***************************************************************************)
(* Sums.                                                                   *)
(***************************************************************************)
SumOver(f, S) == MapThenSumSet(LAMBDA k : f[k], S)
Summands(f, S) == [x \in S |-> [v \in Int |-> f[x] + v]]
SumFold(f, S) ==
  CHOOSE h : h = [s \in SUBSET S |-> IF s = {} THEN 0 ELSE f[Pick(s)] + h[s \ {Pick(s)}]]

LEMMA SumIsFold ==
  ASSUME NEW f, NEW S, IsFiniteSet(S), \A x \in S : f[x] \in Int
  PROVE  /\ SumOver(f, S) = SumFold(f, S)[S]
         /\ SumFold(f, S) \in [SUBSET S -> Int]
         /\ IsFold(SumFold(f, S), S, 0, Summands(f, S))
PROOF
<1> DEFINE G == Summands(f, S)
           Is(h) == h = [s \in SUBSET S |-> IF s = {} THEN 0 ELSE f[Pick(s)] + h[s \ {Pick(s)}]]
<1>1. SumOver(f, S) = SumFold(f, S)[S]
  BY DEF SumOver, SumFold, MapThenSumSet, MapThenFoldSet, Pick
<1>2. G \in [S -> [Int -> Int]] /\ 0 \in Int
  BY DEF Summands
<1>3. PICK g \in [SUBSET S -> Int] : IsFold(g, S, 0, G)
  <2> HIDE DEF G
  <2> QED
    BY <1>2, FoldExists
<1>4. ASSUME NEW h, NEW s \in SUBSET S, s # {}, h[s \ {Pick(s)}] \in Int
      PROVE  G[Pick(s)][h[s \ {Pick(s)}]] = f[Pick(s)] + h[s \ {Pick(s)}]
  <2>1. Pick(s) \in S
    BY <1>4, PickIn
  <2> QED
    BY <1>4, <2>1 DEF Summands
<1>5. Is(g)
  <2>1. ASSUME NEW s \in SUBSET S, s # {} PROVE g[s \ {Pick(s)}] \in Int
    BY <1>3
  <2>2. \A s \in SUBSET S : s # {} => G[Pick(s)][g[s \ {Pick(s)}]] = f[Pick(s)] + g[s \ {Pick(s)}]
    BY <1>4, <2>1
  <2> HIDE DEF G
  <2> QED
    BY <1>3, <2>2 DEF IsFold
<1>6. Is(SumFold(f, S))
  <2> HIDE DEF G
  <2> QED
    BY <1>5 DEF SumFold
<1> DEFINE h == SumFold(f, S)
<1>7. \A s \in SUBSET S : g[s] = h[s]
  <2> DEFINE P == {s \in SUBSET S : g[s] = h[s]}
  <2> HIDE DEF G, h
  <2>1. ASSUME NEW s \in SUBSET S, \A t \in SUBSET s : t # s => t \in P
        PROVE  s \in P
    <3>1. CASE s = {}
      BY <1>5, <1>6, <3>1 DEF h
    <3>2. CASE s # {}
      <4>1. Pick(s) \in s
        BY <3>2, PickIn
      <4>2. s \ {Pick(s)} \in SUBSET s /\ s \ {Pick(s)} # s
        BY <4>1
      <4>3. g[s \ {Pick(s)}] = h[s \ {Pick(s)}]
        BY <2>1, <4>2
      <4> QED
        BY <1>5, <1>6, <3>2, <4>3 DEF h
    <3> QED
      BY <3>1, <3>2
  <2>2. \A s \in SUBSET S : s \in P
    <3> HIDE DEF P
    <3> QED
      BY <2>1, StrictSubsetInduction, Zenon
  <2> QED
    BY <2>2
<1>8. h = g
  <2>1. h = [s \in SUBSET S |-> h[s]]
    BY <1>6
  <2> HIDE DEF h
  <2> QED
    BY <1>3, <1>7, <2>1
<1>9. h \in [SUBSET S -> Int] /\ IsFold(h, S, 0, G)
  <2> HIDE DEF G, h
  <2> QED
    BY <1>3, <1>8
<1> QED
  BY <1>1, <1>9

LEMMA SumEmpty ==
  ASSUME NEW f
  PROVE  SumOver(f, {}) = 0
PROOF
<1>1. IsFiniteSet({})
  BY FS_EmptySet
<1>2. SumOver(f, {}) = SumFold(f, {})[{}] /\ IsFold(SumFold(f, {}), {}, 0, Summands(f, {}))
  BY <1>1, SumIsFold
<1> QED
  BY <1>2 DEF IsFold

LEMMA SumInt ==
  ASSUME NEW f, NEW S, IsFiniteSet(S), \A x \in S : f[x] \in Int
  PROVE  SumOver(f, S) \in Int
PROOF
<1>1. SumOver(f, S) = SumFold(f, S)[S] /\ SumFold(f, S) \in [SUBSET S -> Int] /\ S \in SUBSET S
  BY SumIsFold
<1> QED
  BY <1>1

LEMMA SumStep ==
  ASSUME NEW f, NEW S, IsFiniteSet(S), \A x \in S : f[x] \in Int, NEW x \in S
  PROVE  SumOver(f, S) = f[x] + SumOver(f, S \ {x})
PROOF
<1> DEFINE T == S \ {x}
           G == Summands(f, S)
           g == SumFold(f, S)
           h == SumFold(f, T)
<1>1. IsFiniteSet(T) /\ T \subseteq S /\ \A y \in T : f[y] \in Int
  BY FS_Subset
<1>2. SumOver(f, S) = g[S] /\ g \in [SUBSET S -> Int] /\ IsFold(g, S, 0, G)
  BY SumIsFold
<1>3. SumOver(f, T) = h[T] /\ IsFold(h, T, 0, Summands(f, T))
  <2> HIDE DEF T
  <2> QED
    BY <1>1, SumIsFold
<1>4. \A y \in T : G[y] = Summands(f, T)[y]
  BY DEF Summands
<1> HIDE DEF g, h, T
<1>5. g[T] = h[T]
  <2>1. T \in SUBSET T
    OBVIOUS
  <2> HIDE DEF G
  <2> QED
    BY <1>1, <1>2, <1>3, <1>4, <2>1, FoldUnique
<1>6. G \in [S -> [Int -> Int]] /\ \A y, z \in S : \A v \in Int : G[y][G[z][v]] = G[z][G[y][v]]
  BY DEF Summands
<1>7. g[S] = G[x][g[T]]
  <2>1. S \in SUBSET S /\ 0 \in Int
    OBVIOUS
  <2> HIDE DEF G
  <2>2. Commutes(G, S, Int)
    BY <1>6 DEF Commutes
  <2>3. TakesAny(g, S, G)
    BY <1>2, <2>2, FoldStep
  <2> QED
    BY <2>1, <2>3 DEF T, TakesAny
<1>8. g[T] \in Int
  BY <1>1, <1>2
<1>9. G[x][g[T]] = f[x] + g[T]
  BY <1>8 DEF Summands
<1> HIDE DEF G
<1> QED
  BY <1>2, <1>3, <1>5, <1>7, <1>9 DEF T

LEMMA SumInsert ==
  ASSUME NEW f, NEW S, IsFiniteSet(S), NEW x, x \notin S, f[x] \in Int, \A y \in S : f[y] \in Int
  PROVE  SumOver(f, S \cup {x}) = f[x] + SumOver(f, S)
PROOF
<1> DEFINE T == S \cup {x}
<1>1. IsFiniteSet(T) /\ x \in T /\ \A y \in T : f[y] \in Int
  BY FS_AddElement
<1>2. T \ {x} = S
  OBVIOUS
<1> HIDE DEF T
<1>3. SumOver(f, T) = f[x] + SumOver(f, T \ {x})
  BY <1>1, SumStep
<1> QED
  BY <1>2, <1>3 DEF T

(* The sum of combinations is the combination of the sums.                 *)
LEMMA SumLinear ==
  ASSUME NEW S, IsFiniteSet(S), NEW f, NEW g, NEW h, NEW c \in Int,
         \A x \in S : f[x] \in Int /\ g[x] \in Int /\ h[x] = f[x] + c * g[x]
  PROVE  SumOver(h, S) = SumOver(f, S) + c * SumOver(g, S)
PROOF
<1> DEFINE P == {s \in SUBSET S : SumOver(h, s) = SumOver(f, s) + c * SumOver(g, s)}
<1>1. {} \in P
  BY SumEmpty
<1>2. ASSUME NEW s \in SUBSET S, NEW x \in S, x \notin s, s \in P
      PROVE  s \cup {x} \in P
  <2>1. IsFiniteSet(s) /\ s \cup {x} \in SUBSET S
    BY FS_Subset
  <2>2. \A y \in s \cup {x} : f[y] \in Int /\ g[y] \in Int /\ h[y] \in Int
    OBVIOUS
  <2>3. SumOver(f, s) \in Int /\ SumOver(g, s) \in Int /\ SumOver(h, s) \in Int
    BY <2>1, <2>2, SumInt
  <2>4. /\ SumOver(f, s \cup {x}) = f[x] + SumOver(f, s)
        /\ SumOver(g, s \cup {x}) = g[x] + SumOver(g, s)
        /\ SumOver(h, s \cup {x}) = h[x] + SumOver(h, s)
    BY <1>2, <2>1, <2>2, SumInsert
  <2>5. SumOver(h, s) = SumOver(f, s) + c * SumOver(g, s)
    BY <1>2
  <2>6. h[x] = f[x] + c * g[x] /\ f[x] \in Int /\ g[x] \in Int
    OBVIOUS
  <2>7. h[x] + SumOver(h, s) = f[x] + SumOver(f, s) + c * (g[x] + SumOver(g, s))
    BY <2>3, <2>5, <2>6
  <2> QED
    BY <2>1, <2>4, <2>7
<1>3. \A s \in SUBSET S : s \in P
  <2> HIDE DEF P
  <2> QED
    BY <1>1, <1>2, SubsetInduction, Zenon
<1> QED
  BY <1>3

LEMMA SumCongruent ==
  ASSUME NEW S, IsFiniteSet(S), NEW f, NEW g, NEW m \in Int,
         \A x \in S : f[x] \in Int /\ g[x] \in Int /\ Congruent(f[x], g[x], m)
  PROVE  Congruent(SumOver(f, S), SumOver(g, S), m)
PROOF
<1> DEFINE P == {s \in SUBSET S : Congruent(SumOver(f, s), SumOver(g, s), m)}
<1>1. {} \in P
  BY SumEmpty, CongruentRefl
<1>2. ASSUME NEW s \in SUBSET S, NEW x \in S, x \notin s, s \in P
      PROVE  s \cup {x} \in P
  <2>1. IsFiniteSet(s) /\ s \cup {x} \in SUBSET S
    BY FS_Subset
  <2>2. \A y \in s \cup {x} : f[y] \in Int /\ g[y] \in Int
    OBVIOUS
  <2>3. SumOver(f, s) \in Int /\ SumOver(g, s) \in Int
    BY <2>1, <2>2, SumInt
  <2>4. /\ SumOver(f, s \cup {x}) = f[x] + SumOver(f, s)
        /\ SumOver(g, s \cup {x}) = g[x] + SumOver(g, s)
    BY <1>2, <2>1, <2>2, SumInsert
  <2>5. Congruent(f[x] + SumOver(f, s), g[x] + SumOver(g, s), m)
    BY <1>2, <2>3, CongruentAdd
  <2> QED
    BY <2>1, <2>4, <2>5
<1>3. \A s \in SUBSET S : s \in P
  <2> HIDE DEF P
  <2> QED
    BY <1>1, <1>2, SubsetInduction, Zenon
<1> QED
  BY <1>3

LEMMA SumEqual ==
  ASSUME NEW S, IsFiniteSet(S), NEW f, NEW g, \A x \in S : f[x] \in Int /\ g[x] = f[x]
  PROVE  SumOver(f, S) = SumOver(g, S)
PROOF
<1> DEFINE z == [x \in S |-> 0]
<1>1. \A x \in S : f[x] \in Int /\ z[x] \in Int /\ g[x] = f[x] + 0 * z[x]
  OBVIOUS
<1>2. \A x \in S : z[x] \in Int
  OBVIOUS
<1> HIDE DEF z
<1>3. SumOver(g, S) = SumOver(f, S) + 0 * SumOver(z, S)
  BY <1>1, SumLinear
<1>4. SumOver(f, S) \in Int /\ SumOver(z, S) \in Int
  BY <1>2, SumInt
<1> QED
  BY <1>3, <1>4

LEMMA SumZero ==
  ASSUME NEW S, IsFiniteSet(S), NEW f, \A x \in S : f[x] = 0
  PROVE  SumOver(f, S) = 0
PROOF
<1>1. \A x \in S : f[x] \in Int /\ f[x] = f[x] + 1 * f[x]
  OBVIOUS
<1>2. SumOver(f, S) = SumOver(f, S) + 1 * SumOver(f, S)
  BY <1>1, SumLinear
<1>3. SumOver(f, S) \in Int
  BY <1>1, SumInt
<1>4. \A u \in Int : u = u + 1 * u => u = 0
  OBVIOUS
<1> QED
  BY <1>2, <1>3, <1>4

LEMMA SumSingle ==
  ASSUME NEW S, IsFiniteSet(S), NEW f, NEW x \in S, f[x] \in Int, \A y \in S : y # x => f[y] = 0
  PROVE  SumOver(f, S) = f[x]
PROOF
<1>1. \A y \in S : f[y] \in Int
  OBVIOUS
<1>2. SumOver(f, S) = f[x] + SumOver(f, S \ {x})
  BY <1>1, SumStep
<1>3. IsFiniteSet(S \ {x}) /\ \A y \in S \ {x} : f[y] = 0
  BY FS_Subset
<1>4. SumOver(f, S \ {x}) = 0
  BY <1>3, SumZero
<1> QED
  BY <1>2, <1>4

(* A sum over as many elements, each with the value of its image.          *)
LEMMA SumReindex ==
  ASSUME NEW S, IsFiniteSet(S), NEW f, NEW g, NEW p,
         \A x \in S : g[p[x]] \in Int /\ f[x] = g[p[x]],
         \A x, y \in S : p[x] = p[y] => x = y
  PROVE  SumOver(f, S) = SumOver(g, {p[x] : x \in S})
PROOF
<1> DEFINE Image(s) == {p[x] : x \in s}
           P == {s \in SUBSET S : SumOver(f, s) = SumOver(g, Image(s)) /\ IsFiniteSet(Image(s))}
<1>1. {} \in P
  <2>1. Image({}) = {}
    OBVIOUS
  <2> QED
    BY <2>1, SumEmpty, FS_EmptySet
<1>2. ASSUME NEW s \in SUBSET S, NEW x \in S, x \notin s, s \in P
      PROVE  s \cup {x} \in P
  <2>1. IsFiniteSet(s) /\ s \cup {x} \in SUBSET S
    BY FS_Subset
  <2>2. /\ Image(s \cup {x}) = Image(s) \cup {p[x]} /\ p[x] \notin Image(s)
        /\ IsFiniteSet(Image(s)) /\ SumOver(f, s) = SumOver(g, Image(s))
    BY <1>2
  <2>3. \A y \in s \cup {x} : f[y] \in Int
    OBVIOUS
  <2>4. g[p[x]] \in Int /\ \A y \in Image(s) : g[y] \in Int
    OBVIOUS
  <2> HIDE DEF Image
  <2>5. SumOver(f, s \cup {x}) = f[x] + SumOver(f, s)
    BY <1>2, <2>1, <2>3, SumInsert
  <2>6. SumOver(g, Image(s) \cup {p[x]}) = g[p[x]] + SumOver(g, Image(s))
    BY <2>2, <2>4, SumInsert
  <2>7. IsFiniteSet(Image(s) \cup {p[x]})
    BY <2>2, FS_AddElement
  <2> QED
    BY <2>1, <2>2, <2>5, <2>6, <2>7
<1>3. \A s \in SUBSET S : s \in P
  <2> HIDE DEF P
  <2> QED
    BY <1>1, <1>2, SubsetInduction, Zenon
<1> QED
  BY <1>3

(* A sum of numbers no larger than b is no larger than b for each of them. *)
LEMMA SumBound ==
  ASSUME NEW S, IsFiniteSet(S), NEW f, NEW b \in Int,
         \A x \in S : f[x] \in Int /\ f[x] <= b
  PROVE  SumOver(f, S) <= Cardinality(S) * b
PROOF
<1> DEFINE P == {s \in SUBSET S : SumOver(f, s) <= Cardinality(s) * b}
<1>1. {} \in P
  BY SumEmpty, FS_EmptySet
<1>2. ASSUME NEW s \in SUBSET S, NEW x \in S, x \notin s, s \in P
      PROVE  s \cup {x} \in P
  <2>1. IsFiniteSet(s) /\ s \cup {x} \in SUBSET S /\ Cardinality(s) \in Nat
    BY FS_Subset, FS_CardinalityType
  <2>2. \A y \in s \cup {x} : f[y] \in Int
    OBVIOUS
  <2>3. SumOver(f, s) \in Int
    BY <2>1, <2>2, SumInt
  <2>4. SumOver(f, s \cup {x}) = f[x] + SumOver(f, s)
    BY <1>2, <2>1, <2>2, SumInsert
  <2>5. Cardinality(s \cup {x}) = Cardinality(s) + 1
    BY <1>2, <2>1, FS_AddElement
  <2>6. f[x] \in Int /\ f[x] <= b /\ SumOver(f, s) <= Cardinality(s) * b
    BY <1>2
  <2>7. (Cardinality(s) + 1) * b = Cardinality(s) * b + b /\ Cardinality(s) * b \in Int
    BY <2>1
  <2>8. f[x] + SumOver(f, s) <= (Cardinality(s) + 1) * b
    BY <2>3, <2>6, <2>7
  <2> QED
    BY <2>1, <2>4, <2>5, <2>8
<1>3. \A s \in SUBSET S : s \in P
  <2> HIDE DEF P
  <2> QED
    BY <1>1, <1>2, SubsetInduction, Zenon
<1> QED
  BY <1>3

LEMMA SumBoundBelow ==
  ASSUME NEW S, IsFiniteSet(S), NEW f, NEW b \in Int,
         \A x \in S : f[x] \in Int /\ b <= f[x]
  PROVE  Cardinality(S) * b <= SumOver(f, S)
PROOF
<1> DEFINE z == [x \in S |-> 0]
           h == [x \in S |-> - f[x]]
<1>0. PICK c \in Int : c = -1
  OBVIOUS
<1>1. \A x \in S : z[x] \in Int /\ f[x] \in Int /\ h[x] = z[x] + c * f[x]
  BY <1>0
<1>2. \A x \in S : h[x] \in Int /\ h[x] <= - b
  OBVIOUS
<1>3. \A x \in S : z[x] \in Int /\ z[x] <= 0 /\ z[x] = 0
  OBVIOUS
<1> HIDE DEF z, h
<1>4. -b \in Int /\ 0 \in Int
  OBVIOUS
<1>5. SumOver(h, S) = SumOver(z, S) + c * SumOver(f, S)
  BY <1>1, SumLinear
<1>6. SumOver(h, S) <= Cardinality(S) * (- b)
  BY <1>2, <1>4, SumBound
<1>7. SumOver(z, S) = 0
  <2>1. \A x \in S : z[x] \in Int /\ z[x] = z[x] + c * z[x]
    BY <1>3
  <2>2. SumOver(z, S) = SumOver(z, S) + c * SumOver(z, S)
    BY <2>1, SumLinear
  <2>3. SumOver(z, S) \in Int
    BY <1>3, SumInt
  <2> QED
    BY <1>0, <2>2, <2>3
<1>8. SumOver(f, S) \in Int /\ Cardinality(S) \in Nat
  BY SumInt, FS_CardinalityType
<1>9. Cardinality(S) * (- b) = - (Cardinality(S) * b) /\ Cardinality(S) * b \in Int
  BY <1>8
<1> QED
  BY <1>0, <1>5, <1>6, <1>7, <1>8, <1>9

(***************************************************************************)
(* Modulo a prime, what is not a multiple of it has an inverse: the least  *)
(* positive multiple of the number, modulo the prime, divides the prime.   *)
(***************************************************************************)
IsPrime(m) == m \in Nat /\ m >= 2 /\ \A d \in 2 .. m - 1 : m % d # 0

LEMMA PrimeInverse ==
  ASSUME NEW m, IsPrime(m), NEW x \in Int, x % m # 0
  PROVE  \E y \in 1 .. m - 1 : Congruent(x * y, 1, m)
PROOF
<1>1. m \in Nat \ {0} /\ m >= 2
  BY DEF IsPrime
<1> DEFINE S == {r \in 1 .. m - 1 : \E y \in Int : Congruent(x * y, r, m)}
<1>2. S # {}
  <2>1. x % m \in 0 .. m - 1 /\ Congruent(x, x % m, m)
    BY <1>1, CongruentMod
  <2>2. Congruent(x * 1, x % m, m) /\ 1 \in Int
    BY <2>1
  <2>3. x % m \in 1 .. m - 1
    BY <1>1, <2>1
  <2> QED
    BY <2>2, <2>3
<1>3. PICK d \in S : \A r \in S : d <= r
  <2>1. S \in SUBSET Nat
    OBVIOUS
  <2> HIDE DEF S
  <2> QED
    BY <1>2, <2>1, LeastExists
<1>4. PICK y \in Int : Congruent(x * y, d, m)
  BY <1>3
<1>5. d \in 1 .. m - 1 /\ d \in Nat \ {0}
  BY <1>3
<1>6. PICK e \in Int, r \in 0 .. d - 1 : m = d * e + r /\ r = m % d
  BY <1>1, <1>5, Division
<1>7. r = 0
  <2>1. Congruent(x * (- (e * y)), r, m)
    <3>1. PICK k \in Int : x * y = d + k * m
      BY <1>4 DEF Congruent
    <3>2. x * (- (e * y)) = - (e * (x * y))
      BY <1>4
    <3>3. e * (x * y) = e * d + e * (k * m)
      <4>1. k * m \in Int /\ d \in Int
        BY <1>1, <1>5
      <4>2. \A u \in Int : e * (d + u) = e * d + e * u
        BY <4>1
      <4> QED
        BY <3>1, <4>1, <4>2
    <3>4. e * (k * m) = (e * k) * m /\ e * k \in Int /\ e * d = d * e /\ d * e \in Int
      BY <1>1, <1>5
    <3>5. d * e = m - r
      BY <1>1, <1>5, <1>6, <3>4
    <3>6. x * (- (e * y)) = - (m - r) - (e * k) * m
      BY <1>1, <3>2, <3>3, <3>4, <3>5
    <3>7. - (e * k) - 1 \in Int /\ (- (e * k) - 1) * m = - ((e * k) * m) - m
      BY <1>1, <3>4
    <3>8. x * (- (e * y)) = r + (- (e * k) - 1) * m
      BY <1>1, <3>4, <3>6, <3>7
    <3> QED
      BY <3>7, <3>8 DEF Congruent
  <2>2. - (e * y) \in Int
    OBVIOUS
  <2>3. ASSUME r # 0 PROVE FALSE
    <3>1. r \in 1 .. m - 1 /\ r < d
      BY <1>1, <1>5, <1>6, <2>3
    <3>2. r \in S
      BY <2>1, <2>2, <3>1
    <3>3. d <= r
      BY <1>3, <3>2
    <3> QED
      BY <1>5, <3>1, <3>3
  <2> QED
    BY <2>3
<1>8. d = 1
  <2>1. m % d = 0
    BY <1>6, <1>7
  <2> QED
    BY <1>1, <1>5, <2>1 DEF IsPrime
<1>9. y % m \in 0 .. m - 1 /\ Congruent(y % m, y, m)
  BY <1>1, CongruentMod
<1>10. Congruent(x * (y % m), 1, m)
  <2>1. Congruent(x, x, m) /\ y % m \in Int /\ x * (y % m) \in Int /\ x * y \in Int
    BY <1>1, <1>9, CongruentRefl
  <2>2. Congruent(x * (y % m), x * y, m)
    BY <1>1, <1>9, <2>1, CongruentMul
  <2> QED
    BY <1>1, <1>4, <1>8, <2>1, <2>2, CongruentTrans
<1>11. y % m # 0
  <2>1. ASSUME y % m = 0 PROVE FALSE
    <3>1. Congruent(0, 1, m)
      BY <1>10, <2>1
    <3> QED
      BY <1>1, <3>1, CongruentClose
  <2> QED
    BY <2>1
<1> QED
  BY <1>9, <1>10, <1>11

(* A factor that is prime to the modulus may be cancelled.                 *)
LEMMA PrimeCancel ==
  ASSUME NEW m, IsPrime(m), NEW x \in Int, x % m # 0, NEW y \in Int, Congruent(x * y, 0, m)
  PROVE  Congruent(y, 0, m)
PROOF
<1>1. m \in Nat \ {0}
  BY DEF IsPrime
<1>2. PICK z \in 1 .. m - 1 : Congruent(x * z, 1, m)
  BY PrimeInverse
<1>3. Congruent((x * z) * y, 1 * y, m)
  BY <1>1, <1>2, CongruentRefl, CongruentMul
<1>4. Congruent((x * y) * z, 0 * z, m)
  <2>1. Congruent(z, z, m) /\ z \in Int /\ x * y \in Int /\ 0 \in Int /\ m \in Int
    BY <1>1, <1>2, CongruentRefl
  <2> QED
    BY <2>1, CongruentMul
<1>5. (x * z) * y = (x * y) * z /\ 1 * y = y /\ 0 * z = 0 /\ (x * y) * z \in Int
  BY <1>2
<1>6. Congruent(y, (x * y) * z, m)
  BY <1>1, <1>3, <1>5, CongruentSym
<1> QED
  BY <1>1, <1>4, <1>5, <1>6, CongruentTrans

(* A product taken modulo q, factor after factor.                          *)
ModProducts(c, q, S) == [x \in S |-> [v \in Int |-> (v * c[x]) % q]]

LEMMA ModProductsCommute ==
  ASSUME NEW S, NEW c, \A x \in S : c[x] \in Int, NEW q \in Nat \ {0}
  PROVE  Commutes(ModProducts(c, q, S), S, Int)
PROOF
<1> DEFINE G == ModProducts(c, q, S)
<1>0. ASSUME NEW u \in Int PROVE u % q \in Int
  <2>1. u % q \in 0 .. q - 1
    BY <1>0, CongruentMod
  <2> QED
    BY <2>1
<1>1. ASSUME NEW x \in S PROVE G[x] = [v \in Int |-> (v * c[x]) % q] /\ G[x] \in [Int -> Int]
  <2>1. \A v \in Int : v * c[x] \in Int
    OBVIOUS
  <2> QED
    BY <1>0, <2>1 DEF ModProducts
<1>2. ASSUME NEW u \in Int, NEW w \in Int PROVE ((u % q) * w) % q = (u * w) % q
  <2>1. u % q \in Int /\ Congruent(u % q, u, q) /\ Congruent(w, w, q) /\ q \in Int
    BY <1>0, <1>2, CongruentMod, CongruentRefl
  <2>2. Congruent((u % q) * w, u * w, q)
    BY <2>1, CongruentMul, Zenon
  <2>3. (u % q) * w \in Int /\ u * w \in Int
    BY <2>1
  <2> QED
    BY <2>2, <2>3, CongruentModEqual, Zenon
<1>3. ASSUME NEW x \in S, NEW y \in S, NEW v \in Int
      PROVE  G[x][G[y][v]] = (v * (c[x] * c[y])) % q
  <2>1. c[x] \in Int /\ c[y] \in Int /\ v * c[y] \in Int
    OBVIOUS
  <2>2. G[y][v] = (v * c[y]) % q /\ (v * c[y]) % q \in Int
    BY <1>0, <1>1, <2>1
  <2>3. G[x][G[y][v]] = (((v * c[y]) % q) * c[x]) % q
    <3> DEFINE u == (v * c[y]) % q
    <3>1. G[x][u] = (u * c[x]) % q
      <4>1. u \in Int /\ G[x] = [w \in Int |-> (w * c[x]) % q]
        BY <1>1, <2>2
      <4> HIDE DEF u, G
      <4> QED
        BY <4>1
    <3> HIDE DEF G
    <3> QED
      BY <2>2, <3>1
  <2>4. (((v * c[y]) % q) * c[x]) % q = ((v * c[y]) * c[x]) % q
    BY <1>2, <2>1, Zenon
  <2>5. (v * c[y]) * c[x] = v * (c[x] * c[y])
    BY <2>1
  <2> QED
    BY <2>3, <2>4, <2>5
<1>4. ASSUME NEW x \in S, NEW y \in S, NEW v \in Int PROVE G[x][G[y][v]] = G[y][G[x][v]]
  <2>1. c[x] * c[y] = c[y] * c[x]
    BY <1>4
  <2> QED
    BY <1>3, <2>1
<1>5. G \in [S -> [Int -> Int]]
  BY <1>1 DEF ModProducts
<1> QED
  BY <1>4, <1>5 DEF Commutes


-----------------------------------------------------------------------------
(* The moduli and their products.                                          *)
Index == 1 .. Full

LEMMA FullFacts ==
  /\ Full \in Nat \ {0}
  /\ CompressionLevel \in 0 .. Full /\ NumTowersToKeep \in 1 .. Full
  /\ \A k \in Index : Moduli[k] \in Nat \ {0} /\ Moduli[k] >= 2 /\ IsPrime(Moduli[k])
PROOF
<1>1. Full \in Nat /\ Moduli \in [1 .. Full -> Nat]
  BY ModuliAssumption DEF Full
<1>2. Full # 0 /\ CompressionLevel \in 0 .. Full /\ NumTowersToKeep \in 1 .. Full
  BY <1>1, ModuliAssumption DEF Full, NumTowersToKeep
<1>3. \A k \in Index : Moduli[k] \in Nat \ {0} /\ Moduli[k] >= 2 /\ IsPrime(Moduli[k])
  BY <1>1, ModuliAssumption DEF Full, Index, Prime, IsPrime
<1> QED
  BY <1>1, <1>2, <1>3

LEMMA QFacts ==
  /\ \A k \in 0 .. Full : Q[k] \in Nat \ {0}
  /\ Q[0] = 1
  /\ \A k \in Index : Q[k] = Q[k - 1] * Moduli[k]
PROOF
<1> DEFINE V == Nat \ {0}
           F == [k \in 1 .. Full |-> [v \in V |-> v * Moduli[k]]]
           Is(f) == f = [k \in 0 .. Full |-> IF k = 0 THEN 1 ELSE f[k - 1] * Moduli[k]]
<1>1. Full \in Nat
  BY FullFacts
<1>2. ASSUME NEW a \in V, NEW b \in V PROVE a * b \in V
  <2>1. a >= 1 /\ b >= 1 /\ a * b \in Int
    OBVIOUS
  <2>2. a * b >= a
    BY <2>1
  <2> QED
    BY <2>1, <2>2
<1>3. F \in RecursionSteps(V, Full) /\ 1 \in V
  BY <1>2, FullFacts DEF RecursionSteps, Index
<1>4. PICK f : IsRecursion(f, V, 1, F, Full)
  <2> HIDE DEF V, F
  <2> QED
    BY <1>1, <1>3, RecursionExists, Zenon
<1>5. /\ f \in [0 .. Full -> V] /\ f[0] = 1
      /\ \A k \in 1 .. Full : f[k] = F[k][f[k - 1]]
  <2> HIDE DEF V, F
  <2> QED
    BY <1>4 DEF IsRecursion
<1>6. \A k \in 1 .. Full : f[k] = f[k - 1] * Moduli[k]
  <2>1. \A k \in 1 .. Full : k - 1 \in 0 .. Full
    BY <1>1
  <2>2. \A k \in 1 .. Full, v \in V : F[k][v] = v * Moduli[k]
    OBVIOUS
  <2> HIDE DEF V, F
  <2> QED
    BY <1>5, <2>1, <2>2
<1>7. Is(f)
  <2> HIDE DEF V, F
  <2>1. \A k \in 0 .. Full : f[k] = IF k = 0 THEN 1 ELSE f[k - 1] * Moduli[k]
    BY <1>1, <1>5, <1>6
  <2> QED
    BY <1>5, <2>1
<1>8. Is(Q)
  <2> HIDE DEF V, F
  <2> QED
    BY <1>7 DEF Q
<1>8a. Q[0] = 1 /\ \A k \in Index : Q[k] = Q[k - 1] * Moduli[k]
  BY <1>1, <1>8 DEF Index
<1> DEFINE P == {k \in 0 .. Full : Q[k] \in V}
<1>9. 0 \in P
  BY <1>1, <1>8a
<1>10. ASSUME NEW k \in 0 .. Full - 1, k \in P PROVE k + 1 \in P
  <2>1. k + 1 \in 0 .. Full /\ k + 1 # 0 /\ k + 1 - 1 = k /\ k + 1 \in Index
    BY <1>1 DEF Index
  <2>2. Q[k + 1] = Q[k] * Moduli[k + 1]
    BY <1>8a, <2>1
  <2>3. Q[k] \in V /\ Moduli[k + 1] \in V
    <3>1. Q[k] \in V
      BY <1>10
    <3>2. Moduli[k + 1] \in V
      BY <2>1, FullFacts
    <3> QED
      BY <3>1, <3>2
  <2>4. Q[k + 1] \in V
    <3> HIDE DEF V
    <3> QED
      BY <1>2, <2>2, <2>3
  <2> QED
    BY <2>1, <2>4
<1>11. \A k \in 0 .. Full : k \in P
  <2> HIDE DEF P
  <2> QED
    BY <1>1, <1>9, <1>10, BoundedInduction, Zenon
<1> QED
  BY <1>8a, <1>11

(* A product of moduli divides the longer ones.                            *)
LEMMA QDivides ==
  ASSUME NEW j \in 0 .. Full, NEW k \in 0 .. Full, j <= k
  PROVE  \E r \in Nat \ {0} : Q[k] = Q[j] * r
PROOF
<1> DEFINE P == {i \in 0 .. Full : j <= i => \E r \in Nat \ {0} : Q[i] = Q[j] * r}
<1>0. Full \in Nat /\ \A i \in 0 .. Full : Q[i] \in Nat \ {0}
  BY FullFacts, QFacts
<1>1. ASSUME NEW i \in 0 .. Full, i <= j PROVE i \in P
  <2>1. ASSUME i = j PROVE Q[i] = Q[j] * 1 /\ 1 \in Nat \ {0}
    BY <1>0, <2>1
  <2>2. ASSUME j <= i PROVE \E r \in Nat \ {0} : Q[i] = Q[j] * r
    <3>1. i = j
      BY <1>0, <1>1, <2>2
    <3> QED
      BY <2>1, <3>1
  <2> QED
    BY <2>2
<1>2. 0 \in P
  BY <1>0, <1>1
<1>3. ASSUME NEW i \in 0 .. Full - 1, i \in P PROVE i + 1 \in P
  <2>1. i + 1 \in 0 .. Full /\ i + 1 \in Index /\ i + 1 - 1 = i
    BY <1>0 DEF Index
  <2>2. CASE i + 1 <= j
    BY <1>1, <2>1, <2>2
  <2>3. CASE j <= i
    <3>1. PICK r \in Nat \ {0} : Q[i] = Q[j] * r
      BY <1>3, <2>3
    <3>2. Q[i + 1] = Q[i] * Moduli[i + 1] /\ Moduli[i + 1] \in Nat \ {0}
      BY <2>1, QFacts, FullFacts
    <3>3. r * Moduli[i + 1] \in Nat \ {0}
      <4>1. r >= 1 /\ Moduli[i + 1] >= 1
        BY <3>2
      <4>2. r * Moduli[i + 1] >= r /\ r * Moduli[i + 1] \in Int
        BY <3>2, <4>1
      <4> QED
        BY <4>1, <4>2
    <3>4. Q[i + 1] = Q[j] * (r * Moduli[i + 1])
      BY <1>0, <3>1, <3>2
    <3> QED
      BY <2>1, <3>3, <3>4
  <2> QED
    BY <1>0, <2>1, <2>2, <2>3
<1>4. \A i \in 0 .. Full : i \in P
  <2> HIDE DEF P
  <2> QED
    BY <1>0, <1>2, <1>3, BoundedInduction, Zenon
<1> QED
  BY <1>4

LEMMA CongruentFewer ==
  ASSUME NEW j \in 0 .. Full, NEW k \in 0 .. Full, j <= k,
         NEW x \in Int, NEW y \in Int, Congruent(x, y, Q[k])
  PROVE  Congruent(x, y, Q[j])
PROOF
<1>1. PICK r \in Nat \ {0} : Q[k] = Q[j] * r
  BY QDivides
<1>2. Q[j] \in Int /\ r \in Int /\ Congruent(x, y, Q[j] * r)
  BY <1>1, QFacts
<1> QED
  BY <1>2, CongruentFactor, Zenon

LEMMA CongruentTower ==
  ASSUME NEW k \in Index, NEW x \in Int, NEW y \in Int, Congruent(x, y, Q[Full])
  PROVE  Congruent(x, y, Moduli[k])
PROOF
<1>1. /\ k \in 0 .. Full /\ k - 1 \in 0 .. Full /\ Full \in 0 .. Full /\ k <= Full
  BY FullFacts DEF Index
<1>2. Congruent(x, y, Q[k])
  BY <1>1, CongruentFewer
<1>3. Q[k] = Q[k - 1] * Moduli[k] /\ Q[k - 1] \in Int /\ Moduli[k] \in Int
  BY <1>1, QFacts, FullFacts
<1> QED
  BY <1>2, <1>3, CongruentFactor

-----------------------------------------------------------------------------
(* The Chinese remainder theorem.                                          *)
LEMMA ModuliDiffer ==
  ASSUME NEW j \in Index, NEW k \in Index, j # k
  PROVE  Moduli[j] % Moduli[k] # 0
PROOF
<1> DEFINE m == Moduli[j]
           d == Moduli[k]
<1>1. m \in Nat \ {0} /\ d \in Nat \ {0} /\ d >= 2 /\ IsPrime(m) /\ m # d
  BY FullFacts, ModuliAssumption DEF Index, Full
<1> HIDE DEF m, d
<1>2. ASSUME m % d = 0 PROVE FALSE
  <2>0. m \in Int
    BY <1>1
  <2>1. PICK c \in Int, r \in 0 .. d - 1 : m = d * c + r /\ r = m % d
    BY <1>1, <2>0, Division
  <2>2. m = d * c
    BY <1>1, <1>2, <2>1
  <2>3. c <= 0 => d * c <= 0
    BY <1>1, <2>1
  <2>4. c >= 1
    BY <1>1, <2>1, <2>2, <2>3
  <2>5. d * c >= d
    BY <1>1, <2>4
  <2>6. d \in 2 .. m - 1
    BY <1>1, <2>2, <2>5
  <2> QED
    BY <1>2, <2>6, <1>1 DEF IsPrime
<1> QED
  BY <1>2 DEF m, d

\* Each modulus is a unit modulo another one, and so is a product of others.
LEMMA ModulusUnit ==
  ASSUME NEW j \in Index, NEW k \in Index, j # k
  PROVE  \E y \in Int : Congruent(Moduli[j] * y, 1, Moduli[k])
PROOF
<1>1. Moduli[j] \in Int /\ IsPrime(Moduli[k]) /\ Moduli[j] % Moduli[k] # 0 /\ Moduli[k] \in Int
  BY FullFacts, ModuliDiffer
<1>2. \E y \in 1 .. Moduli[k] - 1 : Congruent(Moduli[j] * y, 1, Moduli[k])
  BY <1>1, PrimeInverse
<1> QED
  BY <1>1, <1>2

LEMMA ProductUnit ==
  ASSUME NEW n \in 0 .. Full - 1
  PROVE  \E y \in Int : Congruent(Q[n] * y, 1, Moduli[n + 1])
PROOF
<1> DEFINE m == Moduli[n + 1]
           P == {i \in 0 .. n : \E y \in Int : Congruent(Q[i] * y, 1, m)}
<1>0. Full \in Nat /\ n \in Nat /\ n + 1 \in Index /\ m \in Int
  BY FullFacts DEF Index
<1> HIDE DEF m
<1>1. 0 \in P
  <2>1. 1 \in Int /\ Q[0] * 1 = 1
    BY QFacts
  <2>2. Congruent(Q[0] * 1, 1, m)
    BY <1>0, <2>1, CongruentRefl
  <2> QED
    BY <1>0, <2>1, <2>2
<1>2. ASSUME NEW i \in 0 .. n - 1, i \in P PROVE i + 1 \in P
  <2>1. i + 1 \in 0 .. n /\ i + 1 \in Index /\ i + 1 # n + 1 /\ i + 1 - 1 = i /\ i \in 0 .. Full
    BY <1>0 DEF Index
  <2>2. PICK y \in Int : Congruent(Q[i] * y, 1, m)
    BY <1>2
  <2>3. PICK z \in Int : Congruent(Moduli[i + 1] * z, 1, m)
    BY <1>0, <2>1, ModulusUnit DEF m
  <2>4. /\ Q[i + 1] = Q[i] * Moduli[i + 1] /\ Q[i] \in Int /\ Moduli[i + 1] \in Int
    BY <2>1, QFacts, FullFacts
  <2>5. Q[i] * y \in Int /\ Moduli[i + 1] * z \in Int /\ 1 \in Int
    BY <2>4
  <2>6. Congruent((Q[i] * y) * (Moduli[i + 1] * z), 1 * 1, m)
    BY <1>0, <2>2, <2>3, <2>5, CongruentMul
  <2>7. (Q[i] * y) * (Moduli[i + 1] * z) = Q[i + 1] * (y * z) /\ y * z \in Int /\ 1 * 1 = 1
    BY <2>4
  <2>8. Congruent(Q[i + 1] * (y * z), 1, m)
    BY <2>6, <2>7
  <2> QED
    BY <2>1, <2>7, <2>8
<1>3. \A i \in 0 .. n : i \in P
  <2> HIDE DEF P
  <2> QED
    BY <1>0, <1>1, <1>2, BoundedInduction, Zenon
<1> QED
  BY <1>0, <1>3 DEF m

\* Residues determine a number modulo the product.
LEMMA ResiduesDetermine ==
  ASSUME NEW x \in Int, NEW y \in Int, \A k \in Index : Congruent(x, y, Moduli[k])
  PROVE  Congruent(x, y, Q[Full])
PROOF
<1> DEFINE P == {n \in 0 .. Full : Congruent(x, y, Q[n])}
<1>0. Full \in Nat
  BY FullFacts
<1>1. 0 \in P
  <2>1. Q[0] = 1 /\ x - y \in Int /\ x = y + (x - y) * 1
    BY QFacts
  <2>2. Congruent(x, y, 1)
    BY <2>1 DEF Congruent
  <2> QED
    BY <1>0, <2>1, <2>2
<1>2. ASSUME NEW n \in 0 .. Full - 1, n \in P PROVE n + 1 \in P
  <2> DEFINE m == Moduli[n + 1]
             q == Q[n]
  <2>1. n + 1 \in 0 .. Full /\ n + 1 \in Index /\ n + 1 - 1 = n /\ n \in 0 .. Full
    BY <1>0 DEF Index
  <2>2. m \in Int /\ q \in Int /\ Q[n + 1] = q * m
    BY <2>1, QFacts, FullFacts
  <2>3. PICK a \in Int : x = y + a * q
    BY <1>2 DEF Congruent
  <2>4. PICK z \in Int : Congruent(q * z, 1, m)
    BY ProductUnit
  <2>5. Congruent(x, y, m)
    BY <2>1
  <2> HIDE DEF m, q
  <2>6. PICK b \in Int : x = y + b * m
    BY <2>5 DEF Congruent
  <2>7. PICK c \in Int : q * z = 1 + c * m
    BY <2>4 DEF Congruent
  <2>8. a * q = b * m
    <3>1. a * q \in Int /\ b * m \in Int
      BY <2>2
    <3> QED
      BY <2>3, <2>6, <3>1
  <2>9. a = (b * z - a * c) * m
    <3>1. a * (q * z) = a + a * (c * m)
      <4>1. c * m \in Int
        BY <2>2
      <4>2. \A u \in Int : a * (1 + u) = a + a * u
        OBVIOUS
      <4> QED
        BY <2>7, <4>1, <4>2
    <3>2. a * (q * z) = (a * q) * z
      BY <2>2
    <3>3. (a * q) * z = (b * z) * m
      BY <2>2, <2>8
    <3>4. a * (c * m) = (a * c) * m /\ (b * z) * m \in Int /\ (a * c) * m \in Int
      BY <2>2
    <3>5. a = (b * z) * m - (a * c) * m
      BY <3>1, <3>2, <3>3, <3>4
    <3> QED
      BY <2>2, <3>5
  <2>10. a * q = (b * z - a * c) * (q * m) /\ b * z - a * c \in Int
    <3>1. b * z - a * c \in Int
      OBVIOUS
    <3>2. \A u \in Int : (u * m) * q = u * (q * m)
      BY <2>2
    <3> QED
      BY <2>9, <3>1, <3>2
  <2>11. Congruent(x, y, Q[n + 1])
    BY <2>2, <2>3, <2>10 DEF Congruent
  <2> QED
    BY <2>1, <2>11
<1>3. \A n \in 0 .. Full : n \in P
  <2> HIDE DEF P
  <2> QED
    BY <1>0, <1>1, <1>2, BoundedInduction, Zenon
<1> QED
  BY <1>0, <1>3

LEMMA SumIsOver == \A f : Sum(f) = SumOver(f, DOMAIN f)
BY DEF Sum, SumOver

LEMMA IndexFinite == IsFiniteSet(Index) /\ Index = 1 .. Full /\ Full \in Index
PROOF
<1>1. Full \in Nat \ {0} /\ 1 \in Int /\ Full \in Int
  BY FullFacts
<1>2. IsFiniteSet(1 .. Full)
  BY <1>1, FS_Interval
<1> QED
  BY <1>1, <1>2 DEF Index

LEMMA UnitsFacts ==
  ASSUME NEW k \in Index
  PROVE  /\ Units[k] \in Int
         /\ \A j \in Index : Congruent(Units[k], IF j = k THEN 1 ELSE 0, Moduli[j])
PROOF
<1> DEFINE e(j) == IF j = k THEN 1 ELSE 0
           P == {n \in 0 .. Full : \E x \in Int : /\ Congruent(x, 1, Moduli[k])
                                                  /\ \A j \in 1 .. n : j # k => Congruent(x, 0, Moduli[j])}
<1>0. Full \in Nat /\ \A j \in Index : Moduli[j] \in Int /\ Moduli[j] \in Nat \ {0} /\ Moduli[j] >= 2
  BY FullFacts
<1>1. 0 \in P
  <2>1. 1 \in Int /\ Congruent(1, 1, Moduli[k]) /\ 1 .. 0 = {}
    BY <1>0, CongruentRefl
  <2> QED
    BY <1>0, <2>1
<1>2. ASSUME NEW n \in 0 .. Full - 1, n \in P PROVE n + 1 \in P
  <2>1. n + 1 \in 0 .. Full /\ n + 1 \in Index /\ 1 .. n \subseteq Index /\ 1 .. n + 1 = (1 .. n) \cup {n + 1}
    BY <1>0 DEF Index
  <2>2. PICK x \in Int : /\ Congruent(x, 1, Moduli[k])
                         /\ \A j \in 1 .. n : j # k => Congruent(x, 0, Moduli[j])
    BY <1>2
  <2>3. CASE n + 1 = k
    BY <2>1, <2>2, <2>3
  <2>4. CASE n + 1 # k
    <3> DEFINE m == Moduli[n + 1]
    <3>1. PICK y \in Int : Congruent(m * y, 1, Moduli[k])
      BY <2>1, <2>4, ModulusUnit
    <3>2. m \in Int
      BY <1>0, <2>1
    <3> HIDE DEF m
    <3>3. m * y \in Int /\ x * (m * y) \in Int /\ 1 * 1 = 1 /\ 0 * (m * y) = 0 /\ 0 \in Int /\ 1 \in Int
      BY <3>2
    <3>4. Congruent(x * (m * y), 1, Moduli[k])
      <4>1. Congruent(x * (m * y), 1 * 1, Moduli[k])
        BY <1>0, <2>2, <3>1, <3>3, CongruentMul
      <4> QED
        BY <3>3, <4>1
    <3>5. ASSUME NEW j \in 1 .. n, j # k PROVE Congruent(x * (m * y), 0, Moduli[j])
      <4>1. Congruent(x, 0, Moduli[j]) /\ Moduli[j] \in Int
        BY <1>0, <2>1, <2>2, <3>5
      <4>2. Congruent(m * y, m * y, Moduli[j])
        BY <3>3, <4>1, CongruentRefl
      <4>3. Congruent(x * (m * y), 0 * (m * y), Moduli[j])
        BY <3>3, <4>1, <4>2, CongruentMul
      <4> QED
        BY <3>3, <4>3
    <3>6. Congruent(x * (m * y), 0, m)
      <4>1. x * y \in Int /\ (x * y) * m \in Int
        BY <3>2
      <4>2. x * (m * y) = (x * y) * m
        BY <3>2
      <4>3. x * (m * y) = 0 + (x * y) * m
        BY <4>1, <4>2
      <4> QED
        BY <4>1, <4>3 DEF Congruent
    <3>7. \A j \in 1 .. n + 1 : j # k => Congruent(x * (m * y), 0, Moduli[j])
      BY <2>1, <3>5, <3>6 DEF m
    <3> QED
      BY <2>1, <3>3, <3>4, <3>7
  <2> QED
    BY <2>3, <2>4
<1>3. \A n \in 0 .. Full : n \in P
  <2> HIDE DEF P
  <2> QED
    BY <1>0, <1>1, <1>2, BoundedInduction, Zenon
<1>4. PICK x \in Int : /\ Congruent(x, 1, Moduli[k])
                       /\ \A j \in Index : j # k => Congruent(x, 0, Moduli[j])
  BY <1>0, <1>3 DEF Index
<1> DEFINE z == x % Q[Full]
<1>5. z \in 0 .. Q[Full] - 1 /\ z \in Int /\ Congruent(z, x, Q[Full])
  <2>1. Q[Full] \in Nat \ {0}
    BY <1>0, QFacts
  <2>2. z \in 0 .. Q[Full] - 1 /\ Congruent(z, x, Q[Full])
    BY <2>1, CongruentMod, Zenon
  <2>3. z \in Int
    BY <2>1, <2>2
  <2> QED
    BY <2>2, <2>3
<1> HIDE DEF z
<1>6. ASSUME NEW j \in Index PROVE Congruent(z, e(j), Moduli[j]) /\ z % Moduli[j] = e(j)
  <2>1. Congruent(z, x, Moduli[j])
    BY <1>5, CongruentTower
  <2>2. Congruent(x, e(j), Moduli[j]) /\ e(j) \in Int
    BY <1>4
  <2>3. Congruent(z, e(j), Moduli[j])
    BY <1>0, <1>5, <2>1, <2>2, CongruentTrans
  <2>4. z % Moduli[j] = e(j) % Moduli[j]
    BY <1>0, <1>5, <2>2, <2>3, CongruentModEqual
  <2>5. e(j) % Moduli[j] = e(j)
    BY <1>0
  <2> QED
    BY <2>3, <2>4, <2>5
<1>7. Towers(z) = [j \in 1 .. Full |-> e(j)]
  BY <1>6 DEF Towers, Index
<1>8. /\ Units[k] \in 0 .. Q[Full] - 1
      /\ Towers(Units[k]) = [j \in 1 .. Full |-> e(j)]
  <2>1. \E u \in 0 .. Q[Full] - 1 : Towers(u) = [j \in 1 .. Full |-> e(j)]
    BY <1>5, <1>7
  <2>2. Units[k] = CHOOSE u \in 0 .. Q[Full] - 1 : Towers(u) = [j \in 1 .. Full |-> e(j)]
    BY DEF Units, Index
  <2> QED
    BY <2>1, <2>2
<1>9. Units[k] \in Int
  <2>1. Q[Full] \in Int
    BY <1>0, QFacts
  <2> QED
    BY <1>8, <2>1
<1>10. ASSUME NEW j \in Index PROVE Congruent(Units[k], e(j), Moduli[j])
  <2>1. Units[k] % Moduli[j] = e(j)
    BY <1>8 DEF Towers, Index
  <2> QED
    BY <1>0, <1>9, <2>1, CongruentMod
<1> QED
  BY <1>9, <1>10

(* The towers of a reduced number give it back.                            *)
LEMMA Interpolates ==
  ASSUME NEW r, \A k \in Index : r[k] \in Int, NEW s \in 0 .. Q[Full] - 1,
         \A k \in Index : Congruent(r[k], s, Moduli[k])
  PROVE  FromTowers(r) = s
PROOF
<1> DEFINE f == [k \in 1 .. Full |-> r[k] * Units[k]]
           total == SumOver(f, Index)
<1>0. Q[Full] \in Nat \ {0} /\ s \in Int /\ \A k \in Index : Moduli[k] \in Int
  BY QFacts, FullFacts
<1>1. FromTowers(r) = total % Q[Full]
  <2>1. DOMAIN f = Index
    BY DEF Index
  <2> QED
    BY <2>1, SumIsOver DEF FromTowers
<1>2. \A k \in Index : f[k] = r[k] * Units[k] /\ f[k] \in Int
  BY UnitsFacts DEF Index
<1> HIDE DEF f
<1>3. total \in Int
  BY <1>2, IndexFinite, SumInt
<1>4. ASSUME NEW j \in Index PROVE Congruent(total, s, Moduli[j])
  <2> DEFINE g == [k \in Index |-> IF k = j THEN r[j] ELSE 0]
  <2>1. \A k \in Index : g[k] \in Int
    OBVIOUS
  <2>2. ASSUME NEW k \in Index PROVE Congruent(f[k], g[k], Moduli[j])
    <3> DEFINE e == IF j = k THEN 1 ELSE 0
    <3>1. Congruent(Units[k], e, Moduli[j]) /\ Units[k] \in Int /\ e \in Int
      BY UnitsFacts
    <3>2. Congruent(r[k], r[k], Moduli[j])
      BY <1>0, CongruentRefl
    <3>3. r[k] * e = g[k]
      OBVIOUS
    <3> HIDE DEF e, g
    <3>4. Congruent(r[k] * Units[k], r[k] * e, Moduli[j])
      BY <1>0, <3>1, <3>2, CongruentMul
    <3> QED
      BY <1>2, <3>3, <3>4
  <2>3. g[j] = r[j] /\ \A k \in Index : k # j => g[k] = 0
    OBVIOUS
  <2> HIDE DEF g
  <2>4. Congruent(total, SumOver(g, Index), Moduli[j])
    BY <1>0, <1>2, <2>1, <2>2, IndexFinite, SumCongruent
  <2>5. SumOver(g, Index) = r[j]
    BY <2>1, <2>3, IndexFinite, SumSingle
  <2> QED
    BY <1>0, <1>3, <2>4, <2>5, CongruentTrans
<1>5. Congruent(total, s, Q[Full])
  <2> HIDE DEF total
  <2> QED
    BY <1>0, <1>3, <1>4, ResiduesDetermine
<1>6. total % Q[Full] \in 0 .. Q[Full] - 1 /\ Congruent(total % Q[Full], total, Q[Full])
  BY <1>0, <1>3, CongruentMod
<1> HIDE DEF total
<1>7. Congruent(total % Q[Full], s, Q[Full])
  BY <1>0, <1>3, <1>5, <1>6, CongruentTrans
<1> QED
  BY <1>0, <1>1, <1>6, <1>7, CongruentClose

(***************************************************************************)
(* Lagrange's coefficients at 0 modulo a prime.                            *)
(***************************************************************************)
LEMMA InverseFacts ==
  ASSUME NEW k \in Index, NEW x \in Int, x % Moduli[k] # 0
  PROVE  /\ Inverses[k][x % Moduli[k]] \in Int
         /\ Congruent(x * Inverses[k][x % Moduli[k]], 1, Moduli[k])
PROOF
<1> DEFINE q == Moduli[k]
           r == x % q
           y == Inverses[k][r]
<1>0. q \in Nat \ {0} /\ q >= 2 /\ IsPrime(q) /\ q \in Int /\ 1 \in Int /\ k \in 1 .. Full
  BY FullFacts DEF Index
<1>1. r \in 0 .. q - 1 /\ Congruent(r, x, q) /\ Congruent(x, r, q)
  BY <1>0, CongruentMod, Zenon
<1>2. r \in 1 .. q - 1 /\ r \in Int
  BY <1>0, <1>1
<1>3. y = CHOOSE z \in 1 .. q - 1 : (r * z) % q = 1
  BY <1>0, <1>2 DEF Inverses
<1> HIDE DEF q, r
<1>4. r % q # 0
  BY <1>0, <1>2
<1>5. PICK z \in 1 .. q - 1 : Congruent(r * z, 1, q)
  BY <1>0, <1>2, <1>4, PrimeInverse
<1>6. (r * z) % q = 1
  <2>1. z \in Int /\ r * z \in Int /\ 1 % q = 1
    BY <1>0, <1>2
  <2> QED
    BY <1>0, <1>5, <2>1, CongruentModEqual
<1>7. y \in 1 .. q - 1 /\ (r * y) % q = 1
  BY <1>3, <1>6
<1> HIDE DEF y
<1>8. y \in Int /\ r * y \in Int /\ x * y \in Int
  BY <1>0, <1>2, <1>7
<1>9. Congruent(r * y, 1, q)
  BY <1>0, <1>7, <1>8, CongruentMod
<1>10. Congruent(x * y, r * y, q)
  <2>1. Congruent(y, y, q)
    BY <1>0, <1>8, CongruentRefl
  <2> QED
    BY <1>0, <1>1, <1>2, <1>8, <2>1, CongruentMul
<1>11. Congruent(x * y, 1, q)
  BY <1>0, <1>8, <1>9, <1>10, CongruentTrans
<1> QED
  BY <1>8, <1>11 DEF q, r, y

\* What a holder multiplies the coefficient of holder j by.
Factor(j, k) == [i \in Nat |-> i * Inverses[k][(i - j) % Moduli[k]]]
LagrangeFold(j, k, S) ==
  CHOOSE h : h = [s \in SUBSET S |->
                    IF s = {} THEN 1
                    ELSE (h[s \ {Pick(s)}] * Pick(s) * Inverses[k][(Pick(s) - j) % Moduli[k]]) % Moduli[k]]

\* Two holders are at different points modulo every prime.
Apart(A, k) == /\ IsFiniteSet(A) /\ A \subseteq Nat
               /\ \A i, j \in A : i # j => (i - j) % Moduli[k] # 0

LEMMA LagrangeIsFold ==
  ASSUME NEW k \in Index, NEW A, Apart(A, k), NEW j \in A, NEW S, S \subseteq A, j \notin S
  PROVE  LET h == LagrangeFold(j, k, S)
             G == ModProducts(Factor(j, k), Moduli[k], S)
         IN  /\ h \in [SUBSET S -> Int] /\ IsFold(h, S, 1, G)
             /\ Commutes(G, S, Int) /\ IsFiniteSet(S)
             /\ \A x \in S : Factor(j, k)[x] \in Int
PROOF
<1> DEFINE q == Moduli[k]
           c == Factor(j, k)
           G == ModProducts(c, q, S)
           V(h, s) == (h[s \ {Pick(s)}] * Pick(s) * Inverses[k][(Pick(s) - j) % q]) % q
           Is(h) == h = [s \in SUBSET S |-> IF s = {} THEN 1 ELSE V(h, s)]
<1>0. IsFiniteSet(S) /\ q \in Nat \ {0} /\ j \in Nat /\ S \subseteq Nat
  BY FS_Subset, FullFacts DEF Apart
<1>1. ASSUME NEW x \in S
      PROVE  /\ x \in Int /\ Inverses[k][(x - j) % q] \in Int
             /\ c[x] = x * Inverses[k][(x - j) % q] /\ c[x] \in Int
  <2>1. x \in Nat /\ x - j \in Int /\ (x - j) % q # 0
    BY <1>0 DEF Apart
  <2>2. Inverses[k][(x - j) % q] \in Int
    BY <2>1, InverseFacts
  <2>3. c[x] = x * Inverses[k][(x - j) % q]
    BY <2>1 DEF Factor
  <2> HIDE DEF c, q
  <2> QED
    BY <2>1, <2>2, <2>3
<1>2. Commutes(G, S, Int)
  <2>1. \A x \in S : c[x] \in Int
    BY <1>1
  <2> HIDE DEF c, q
  <2> QED
    BY <1>0, <2>1, ModProductsCommute
<1>3. PICK g \in [SUBSET S -> Int] : IsFold(g, S, 1, G)
  <2>1. G \in [S -> [Int -> Int]] /\ 1 \in Int
    BY <1>2 DEF Commutes
  <2> HIDE DEF G
  <2> QED
    BY <1>0, <2>1, FoldExists
<1>4. ASSUME NEW h, NEW s \in SUBSET S, s # {}, h[s \ {Pick(s)}] \in Int
      PROVE  G[Pick(s)][h[s \ {Pick(s)}]] = V(h, s)
  <2> DEFINE x == Pick(s)
             v == h[s \ {x}]
             inv == Inverses[k][(x - j) % q]
  <2>1. x \in S
    BY <1>4, PickIn
  <2>2. G[x] = [w \in Int |-> (w * c[x]) % q]
    BY <2>1 DEF ModProducts
  <2>3. v \in Int
    BY <1>4
  <2>4. G[x][v] = (v * c[x]) % q
    <3> HIDE DEF G, v, x, c, q
    <3> QED
      BY <2>2, <2>3
  <2>5. x \in Int /\ inv \in Int /\ c[x] = x * inv
    BY <1>1, <2>1
  <2>6. v * c[x] = v * x * inv
    <3> HIDE DEF v, x, inv, c
    <3> QED
      BY <2>3, <2>5
  <2> HIDE DEF G, c
  <2> QED
    BY <2>4, <2>6
<1>5. Is(g)
  <2>1. ASSUME NEW s \in SUBSET S, s # {} PROVE g[s \ {Pick(s)}] \in Int
    BY <1>3
  <2>2. \A s \in SUBSET S : s # {} => G[Pick(s)][g[s \ {Pick(s)}]] = V(g, s)
    BY <1>4, <2>1
  <2> HIDE DEF G, V
  <2> QED
    BY <1>3, <2>2 DEF IsFold
<1> DEFINE h == LagrangeFold(j, k, S)
<1>6. Is(h)
  <2> HIDE DEF G
  <2> QED
    BY <1>5 DEF LagrangeFold
<1>7. \A s \in SUBSET S : g[s] = h[s]
  <2> DEFINE P == {s \in SUBSET S : g[s] = h[s]}
  <2> HIDE DEF G, h, q
  <2>1. ASSUME NEW s \in SUBSET S, \A t \in SUBSET s : t # s => t \in P
        PROVE  s \in P
    <3>1. CASE s = {}
      BY <1>5, <1>6, <3>1
    <3>2. CASE s # {}
      <4>1. Pick(s) \in s
        BY <3>2, PickIn
      <4>2. s \ {Pick(s)} \in SUBSET s /\ s \ {Pick(s)} # s
        BY <4>1
      <4>3. g[s \ {Pick(s)}] = h[s \ {Pick(s)}]
        BY <2>1, <4>2
      <4>4. V(g, s) = V(h, s)
        BY <4>3
      <4> HIDE DEF V
      <4> QED
        BY <1>5, <1>6, <3>2, <4>4
    <3> QED
      BY <3>1, <3>2
  <2>2. \A s \in SUBSET S : s \in P
    <3> HIDE DEF P
    <3> QED
      BY <1>0, <2>1, StrictSubsetInduction, Zenon
  <2> QED
    BY <2>2
<1>8. h = g
  <2>1. h = [s \in SUBSET S |-> h[s]]
    <3> HIDE DEF h, V
    <3> QED
      BY <1>6
  <2> HIDE DEF h
  <2> QED
    BY <1>3, <1>7, <2>1
<1> HIDE DEF G, h
<1>9. h \in [SUBSET S -> Int] /\ IsFold(h, S, 1, G)
  BY <1>3, <1>8
<1>10. \A x \in S : c[x] \in Int
  BY <1>1
<1> QED
  BY <1>0, <1>2, <1>9, <1>10 DEF G, h

LEMMA LagrangeValue ==
  ASSUME NEW k \in Index, NEW A, Apart(A, k), NEW j \in A
  PROVE  /\ Lagrange(j, A, k) = LagrangeFold(j, k, A \ {j})[A \ {j}]
         /\ Lagrange(j, A, k) \in Int
PROOF
<1>1. Lagrange(j, A, k) = LagrangeFold(j, k, A \ {j})[A \ {j}]
  BY DEF Lagrange, LagrangeFold, FoldSet, MapThenFoldSet, Pick
<1>2. LagrangeFold(j, k, A \ {j}) \in [SUBSET (A \ {j}) -> Int]
  BY LagrangeIsFold
<1> QED
  BY <1>1, <1>2

LEMMA LagrangeSingle ==
  ASSUME NEW k \in Index, NEW j \in Nat, Apart({j}, k)
  PROVE  Lagrange(j, {j}, k) = 1
PROOF
<1> DEFINE T == {j} \ {j}
           h == LagrangeFold(j, k, T)
<1>1. T = {} /\ T \subseteq {j} /\ j \notin T /\ j \in {j} /\ T \in SUBSET T
  OBVIOUS
<1> HIDE DEF T
<1>2. IsFold(h, T, 1, ModProducts(Factor(j, k), Moduli[k], T))
  BY <1>1, LagrangeIsFold
<1>3. Lagrange(j, {j}, k) = h[T]
  BY <1>1, LagrangeValue DEF T
<1> HIDE DEF h
<1> QED
  BY <1>1, <1>2, <1>3 DEF IsFold

LEMMA LagrangeStep ==
  ASSUME NEW k \in Index, NEW A, Apart(A, k), NEW j \in A, NEW b \in A, b # j
  PROVE  Congruent((b - j) * Lagrange(j, A, k), b * Lagrange(j, A \ {b}, k), Moduli[k])
PROOF
<1> DEFINE q == Moduli[k]
           S == A \ {j}
           B == A \ {b}
           T == B \ {j}
           g == LagrangeFold(j, k, S)
           h == LagrangeFold(j, k, T)
           c == Factor(j, k)
           G == ModProducts(c, q, S)
           H == ModProducts(c, q, T)
           inv == Inverses[k][(b - j) % q]
<1>0. q \in Nat \ {0} /\ q \in Int /\ b \in Nat /\ j \in Nat /\ b - j \in Int /\ b \in Int
  BY FullFacts DEF Apart
<1>1. /\ j \in B /\ S \subseteq A /\ j \notin S /\ T \subseteq B /\ j \notin T /\ b \in S
      /\ T = S \ {b} /\ T \subseteq S
  OBVIOUS
<1>2. Apart(B, k)
  BY FS_Subset DEF Apart
<1>3. Lagrange(j, A, k) = g[S] /\ Lagrange(j, B, k) = h[T] /\ Lagrange(j, A, k) \in Int /\ Lagrange(j, B, k) \in Int
  <2> HIDE DEF B
  <2> QED
    BY <1>1, <1>2, LagrangeValue
<1>4. /\ g \in [SUBSET S -> Int] /\ IsFold(g, S, 1, G) /\ Commutes(G, S, Int) /\ IsFiniteSet(S)
      /\ c[b] \in Int
  <2> HIDE DEF S
  <2> QED
    BY <1>1, LagrangeIsFold
<1>5. h \in [SUBSET T -> Int] /\ IsFold(h, T, 1, H)
  <2> HIDE DEF T, B
  <2> QED
    BY <1>1, <1>2, LagrangeIsFold
<1>6. \A y \in T : G[y] = H[y]
  <2> HIDE DEF c, q
  <2> QED
    BY <1>1 DEF ModProducts
<1>7. g[T] = h[T]
  <2>1. T \in SUBSET T
    OBVIOUS
  <2> HIDE DEF T, S, G, H, g, h
  <2> QED
    BY <1>1, <1>4, <1>5, <1>6, <2>1, FoldUnique
<1>8. g[S] = G[b][g[T]]
  <2>1. S \in SUBSET S
    OBVIOUS
  <2> HIDE DEF T, S, G, H, g, h
  <2>2. TakesAny(g, S, G)
    BY <1>4, FoldStep
  <2> QED
    BY <1>1, <2>1, <2>2 DEF TakesAny
<1>9. G[b][h[T]] = (h[T] * c[b]) % q
  <2>1. h[T] \in Int
    BY <1>3
  <2>2. G[b] = [v \in Int |-> (v * c[b]) % q]
    BY <1>1 DEF ModProducts
  <2> HIDE DEF G, h, c, T, q
  <2> QED
    BY <2>1, <2>2
<1>10. c[b] = b * inv
  BY <1>0 DEF Factor
<1>11. (b - j) % q # 0
  BY <1>0 DEF Apart
<1>12. inv \in Int /\ Congruent((b - j) * inv, 1, q)
  BY <1>0, <1>11, InverseFacts
<1> DEFINE x == Lagrange(j, A, k)
           y == Lagrange(j, B, k)
<1>13. x = (y * (b * inv)) % q /\ x \in Int /\ y \in Int
  <2> HIDE DEF g, h, S, T, G, H, c, q, inv
  <2> QED
    BY <1>3, <1>7, <1>8, <1>9, <1>10
<1> HIDE DEF x, y, q, inv
<1>14. y * (b * inv) \in Int /\ y * b \in Int /\ (b - j) * inv \in Int
  BY <1>0, <1>12, <1>13
<1>15. Congruent(x, y * (b * inv), q)
  BY <1>0, <1>13, <1>14, CongruentMod
<1>16. Congruent((b - j) * x, (b - j) * (y * (b * inv)), q)
  <2>1. Congruent(b - j, b - j, q)
    BY <1>0, CongruentRefl
  <2> QED
    BY <1>0, <1>13, <1>14, <1>15, <2>1, CongruentMul
<1>17. (b - j) * (y * (b * inv)) = (y * b) * ((b - j) * inv)
  BY <1>0, <1>12, <1>13
<1>18. Congruent((y * b) * ((b - j) * inv), (y * b) * 1, q)
  <2>1. Congruent(y * b, y * b, q) /\ 1 \in Int
    BY <1>0, <1>14, CongruentRefl
  <2> QED
    BY <1>0, <1>12, <1>14, <2>1, CongruentMul
<1>19. (y * b) * 1 = b * y
  BY <1>0, <1>13, <1>14
<1>20. Congruent((b - j) * x, b * y, q)
  <2>1. (b - j) * x \in Int /\ (y * b) * ((b - j) * inv) \in Int /\ b * y \in Int
    BY <1>0, <1>13, <1>14
  <2> QED
    BY <1>0, <1>16, <1>17, <1>18, <1>19, <2>1, CongruentTrans
<1> QED
  BY <1>20 DEF x, y, q

(* The sums of the coefficients times the d-th powers of the points:       *)
(* w[d][j] is congruent to j^d.                                            *)
Weighted(w, d, A, k) == SumOver([j \in A |-> Lagrange(j, A, k) * w[d][j]], A)
ArePowers(w, n, A, k) ==
  \A j \in A :
    /\ \A d \in 0 .. n : w[d][j] \in Int
    /\ Congruent(w[0][j], 1, Moduli[k])
    /\ \A d \in 0 .. n - 1 : Congruent(w[d + 1][j], w[d][j] * j, Moduli[k])

LEMMA WeightedInt ==
  ASSUME NEW k \in Index, NEW A, Apart(A, k), NEW n \in Nat, NEW w, ArePowers(w, n, A, k),
         NEW d \in 0 .. n
  PROVE  Weighted(w, d, A, k) \in Int
PROOF
<1> DEFINE f == [j \in A |-> Lagrange(j, A, k) * w[d][j]]
<1>1. ASSUME NEW j \in A PROVE f[j] \in Int
  <2>1. Lagrange(j, A, k) \in Int /\ w[d][j] \in Int
    BY LagrangeValue DEF ArePowers
  <2> QED
    BY <2>1
<1>2. IsFiniteSet(A)
  BY DEF Apart
<1> HIDE DEF f
<1>3. SumOver(f, A) \in Int
  BY <1>1, <1>2, SumInt
<1> QED
  BY <1>3 DEF Weighted, f

LEMMA WeightedStep ==
  ASSUME NEW k \in Index, NEW A, Apart(A, k), NEW n \in Nat, NEW w, ArePowers(w, n, A, k),
         NEW d \in 0 .. n - 1, NEW b \in A
  PROVE  Congruent(Weighted(w, d + 1, A, k),
                   b * (Weighted(w, d, A, k) - Weighted(w, d, A \ {b}, k)), Moduli[k])
PROOF
<1> DEFINE q == Moduli[k]
           B == A \ {b}
           L(j) == Lagrange(j, A, k)
           M(j) == Lagrange(j, B, k)
           f == [j \in A |-> L(j) * w[d][j]]
           f1 == [j \in A |-> L(j) * w[d + 1][j]]
           g == [j \in B |-> M(j) * w[d][j]]
           h == [j \in B |-> f[j] + (-1) * g[j]]
           h1 == [j \in B |-> b * h[j]]
<1>0. /\ q \in Int /\ b \in Int /\ d \in 0 .. n /\ d + 1 \in 0 .. n
      /\ IsFiniteSet(A) /\ IsFiniteSet(B) /\ Apart(B, k) /\ b \notin B /\ A \ {b} = B
  BY FullFacts, FS_Subset DEF Apart
<1>1. \A j \in A : /\ L(j) \in Int /\ w[d][j] \in Int /\ w[d + 1][j] \in Int /\ j \in Int
                   /\ Congruent(w[d + 1][j], w[d][j] * j, q)
  <2>1. \A j \in A : L(j) \in Int
    BY LagrangeValue
  <2>2. \A j \in A : j \in Int
    BY DEF Apart
  <2>3. \A j \in A : w[d][j] \in Int /\ w[d + 1][j] \in Int
    BY <1>0 DEF ArePowers
  <2>4. \A j \in A : Congruent(w[d + 1][j], w[d][j] * j, q)
    BY DEF ArePowers
  <2> QED
    BY <2>1, <2>2, <2>3, <2>4
<1>2. \A j \in B : M(j) \in Int
  <2> HIDE DEF B
  <2> QED
    BY <1>0, LagrangeValue
<1>3. \A j \in B : Congruent((b - j) * L(j), b * M(j), q)
  <2>1. \A j \in B : j \in A /\ b # j
    OBVIOUS
  <2> QED
    BY <2>1, LagrangeStep
<1> HIDE DEF L, M, q, B
<1>4. \A j \in A : f[j] \in Int /\ f1[j] \in Int /\ f[j] = L(j) * w[d][j] /\ f1[j] = L(j) * w[d + 1][j]
  BY <1>1
<1>5. \A j \in B : /\ g[j] \in Int /\ g[j] = M(j) * w[d][j] /\ j \in A
                   /\ h[j] = f[j] + (-1) * g[j] /\ h1[j] = b * h[j]
  BY <1>0, <1>1, <1>2
<1> HIDE DEF f, f1, g, h, h1
<1>6. ASSUME NEW j \in A
      PROVE  Congruent(f1[j], f[j] * j, q)
  <2>1. Congruent(L(j), L(j), q) /\ w[d][j] * j \in Int
    BY <1>0, <1>1, CongruentRefl
  <2>2. Congruent(L(j) * w[d + 1][j], L(j) * (w[d][j] * j), q)
    BY <1>0, <1>1, <2>1, CongruentMul
  <2>3. L(j) * (w[d][j] * j) = (L(j) * w[d][j]) * j
    BY <1>1
  <2> QED
    BY <1>4, <2>2, <2>3
<1>7. ASSUME NEW j \in B PROVE h[j] \in Int /\ h1[j] \in Int /\ Congruent(f1[j], h1[j], q)
  <2> DEFINE u == w[d][j]
             x == L(j)
             y == M(j)
  <2>0. j \in A /\ j \in Int /\ u \in Int /\ x \in Int /\ y \in Int /\ b - j \in Int
    <3>1. j \in A
      BY <1>5
    <3>2. j \in Int /\ u \in Int /\ x \in Int
      BY <1>1, <3>1
    <3>3. y \in Int
      BY <1>2
    <3> QED
      BY <1>0, <3>1, <3>2, <3>3
  <2>1. Congruent((b - j) * x, b * y, q)
    BY <1>3
  <2>2. f[j] = x * u /\ g[j] = y * u /\ f[j] \in Int /\ g[j] \in Int /\ f1[j] \in Int
    BY <1>4, <1>5
  <2>3. h[j] = f[j] - g[j] /\ h[j] \in Int /\ h1[j] = b * h[j] /\ h1[j] \in Int
    <3>1. \A v \in Int : (-1) * v = -v
      OBVIOUS
    <3> QED
      BY <1>0, <1>5, <2>2, <3>1
  <2> HIDE DEF u, x, y
  <2>4. h1[j] = b * (x * u) - (b * y) * u
    <3>1. \A s, t \in Int : b * (s - t) = b * s - b * t
      BY <1>0
    <3>2. b * (y * u) = (b * y) * u
      BY <1>0, <2>0
    <3> QED
      BY <2>2, <2>3, <3>1, <3>2
  <2>5. (b * x) * u = b * (x * u) /\ (x * u) * j = (j * x) * u
    BY <1>0, <2>0
  <2>6. (b - j) * x = b * x - j * x /\ b * x \in Int /\ j * x \in Int /\ b * y \in Int /\ (b - j) * x \in Int
    BY <1>0, <2>0
  <2>7. Congruent(((b - j) * x) * u, (b * y) * u, q)
    <3>1. Congruent(u, u, q)
      BY <1>0, <2>0, CongruentRefl
    <3> QED
      BY <1>0, <2>0, <2>1, <2>6, <3>1, CongruentMul
  <2>8. ((b - j) * x) * u = (b * x) * u - (j * x) * u
    <3>1. \A s, t \in Int : (s - t) * u = s * u - t * u
      BY <2>0
    <3> QED
      BY <2>6, <3>1
  <2>9. f[j] * j = b * (x * u) - ((b - j) * x) * u
    <3>1. b * (x * u) \in Int /\ (j * x) * u \in Int
      BY <1>0, <2>0, <2>2, <2>6
    <3> QED
      BY <2>2, <2>5, <2>8, <3>1
  <2>10. Congruent(b * (x * u) - ((b - j) * x) * u, b * (x * u) - (b * y) * u, q)
    <3>1. b * (x * u) \in Int /\ ((b - j) * x) * u \in Int /\ (b * y) * u \in Int
      BY <1>0, <2>0, <2>2, <2>6
    <3>2. Congruent(b * (x * u), b * (x * u), q)
      BY <1>0, <3>1, CongruentRefl
    <3> QED
      BY <1>0, <2>7, <3>1, <3>2, CongruentAdd
  <2>11. f[j] * j \in Int /\ Congruent(f1[j], f[j] * j, q)
    BY <1>6, <2>0, <2>2
  <2>12. Congruent(f1[j], h1[j], q)
    BY <1>0, <2>2, <2>3, <2>4, <2>9, <2>10, <2>11, CongruentTrans
  <2> QED
    BY <2>3, <2>12
<1>8. /\ SumOver(f, A) = f[b] + SumOver(f, B) /\ SumOver(f1, A) = f1[b] + SumOver(f1, B)
      /\ SumOver(f, B) \in Int /\ SumOver(f1, B) \in Int /\ SumOver(g, B) \in Int
      /\ SumOver(h, B) \in Int /\ SumOver(h1, B) \in Int
  <2>1. SumOver(f, A) = f[b] + SumOver(f, B) /\ SumOver(f1, A) = f1[b] + SumOver(f1, B)
    <3>1. \A j \in A : f[j] \in Int /\ f1[j] \in Int
      BY <1>4
    <3>0. IsFiniteSet(A) /\ b \in A
      BY <1>0
    <3> HIDE DEF f, f1
    <3>2. SumOver(f, A) = f[b] + SumOver(f, A \ {b})
      BY <3>0, <3>1, SumStep
    <3>3. SumOver(f1, A) = f1[b] + SumOver(f1, A \ {b})
      BY <3>0, <3>1, SumStep
    <3> QED
      BY <1>0, <3>2, <3>3
  <2>2. \A j \in B : f[j] \in Int /\ f1[j] \in Int /\ g[j] \in Int /\ h[j] \in Int /\ h1[j] \in Int
    BY <1>4, <1>5, <1>7
  <2> QED
    BY <1>0, <2>1, <2>2, SumInt
<1>9. SumOver(h, B) = SumOver(f, B) - SumOver(g, B)
  <2>1. PICK c \in Int : c = -1
    OBVIOUS
  <2>2. \A j \in B : f[j] \in Int /\ g[j] \in Int /\ h[j] = f[j] + c * g[j]
    BY <1>4, <1>5, <2>1
  <2>3. SumOver(h, B) = SumOver(f, B) + c * SumOver(g, B)
    BY <1>0, <2>2, SumLinear
  <2> QED
    BY <1>8, <2>1, <2>3
<1>10. SumOver(h1, B) = b * SumOver(h, B)
  <2> DEFINE z == [j \in B |-> 0]
  <2>1. \A j \in B : z[j] \in Int /\ h[j] \in Int /\ h1[j] = z[j] + b * h[j]
    BY <1>0, <1>5, <1>7
  <2>2. SumOver(z, B) = 0
    <3>1. \A j \in B : z[j] = 0
      OBVIOUS
    <3> HIDE DEF z
    <3> QED
      BY <1>0, <3>1, SumZero
  <2> HIDE DEF z
  <2>3. SumOver(h1, B) = SumOver(z, B) + b * SumOver(h, B)
    BY <1>0, <2>1, SumLinear
  <2> QED
    BY <1>0, <1>8, <2>2, <2>3
<1>11. Congruent(SumOver(f1, B), SumOver(h1, B), q)
  <2>1. \A j \in B : f1[j] \in Int /\ h1[j] \in Int /\ Congruent(f1[j], h1[j], q)
    BY <1>4, <1>5, <1>7
  <2> QED
    BY <1>0, <2>1, SumCongruent
<1>12. Congruent(f1[b], f[b] * b, q)
  BY <1>6
<1> DEFINE F == SumOver(f, A)
           F1 == SumOver(f1, A)
           FB == SumOver(f, B)
           GB == SumOver(g, B)
<1>13. Congruent(F1, f[b] * b + b * (FB - GB), q)
  <2>0. FB \in Int /\ GB \in Int /\ f[b] \in Int /\ f1[b] \in Int
    BY <1>4, <1>8
  <2>2. Congruent(SumOver(f1, B), b * (FB - GB), q)
    BY <1>9, <1>10, <1>11
  <2> HIDE DEF FB, GB
  <2>1. f[b] * b \in Int /\ FB - GB \in Int /\ b * (FB - GB) \in Int
    BY <1>0, <2>0
  <2>3. Congruent(f1[b] + SumOver(f1, B), f[b] * b + b * (FB - GB), q)
    BY <1>0, <1>8, <1>12, <2>0, <2>1, <2>2, CongruentAdd, Zenon
  <2> QED
    BY <1>8, <2>3
<1>14. f[b] * b + b * (FB - GB) = b * (F - GB)
  <2>1. f[b] \in Int /\ FB \in Int /\ GB \in Int /\ F = f[b] + FB
    BY <1>4, <1>8
  <2> HIDE DEF F, FB, GB
  <2> QED
    BY <1>0, <2>1
<1>15. F1 = Weighted(w, d + 1, A, k) /\ F = Weighted(w, d, A, k) /\ GB = Weighted(w, d, A \ {b}, k)
  BY DEF Weighted, L, M, f, f1, g, B
<1> HIDE DEF F, F1, GB, FB
<1> QED
  BY <1>13, <1>14, <1>15 DEF q

LEMMA ApartPart ==
  ASSUME NEW k \in Index, NEW A, Apart(A, k), NEW s \in SUBSET A, NEW n \in Nat, NEW w, ArePowers(w, n, A, k)
  PROVE  Apart(s, k) /\ ArePowers(w, n, s, k)
PROOF
<1>1. Apart(s, k)
  <2>1. IsFiniteSet(s)
    BY FS_Subset DEF Apart
  <2> QED
    BY <2>1 DEF Apart
<1>2. ArePowers(w, n, s, k)
  BY DEF ArePowers
<1> QED
  BY <1>1, <1>2

LEMMA WeightedOne ==
  ASSUME NEW k \in Index, NEW A, Apart(A, k), NEW n \in Nat \ {0}, NEW w, ArePowers(w, n, A, k)
  PROVE  \A s \in SUBSET A : s # {} => Congruent(Weighted(w, 0, s, k), 1, Moduli[k])
PROOF
<1> DEFINE q == Moduli[k]
           P == {s \in SUBSET A : s # {} => Congruent(Weighted(w, 0, s, k), 1, q)}
<1>0. q \in Int /\ IsPrime(q) /\ n \in Nat /\ 0 \in 0 .. n /\ 0 \in 0 .. n - 1 /\ 1 \in Int /\ 0 \in Int
  BY FullFacts
<1>0a. \A s \in SUBSET A : Apart(s, k) /\ ArePowers(w, n, s, k)
  BY <1>0, ApartPart
<1>1. ASSUME NEW s \in SUBSET A, \A t \in SUBSET s : t # s => t \in P
      PROVE  s \in P
  <2> DEFINE e == Weighted(w, 0, s, k)
             e1 == Weighted(w, 1, s, k)
  <2>0. Apart(s, k) /\ ArePowers(w, n, s, k) /\ 0 + 1 = 1 /\ 1 \in 0 .. n
    BY <1>0, <1>0a
  <2>1. e \in Int /\ e1 \in Int
    BY <1>0, <2>0, WeightedInt
  <2>2. ASSUME NEW b \in s, s # {b}
        PROVE  Congruent(e1, b * (e - 1), q)
    <3> DEFINE t == s \ {b}
               g == Weighted(w, 0, t, k)
    <3>1. t \in SUBSET s /\ t # s /\ t # {} /\ t \in SUBSET A
      BY <2>2
    <3>2. Congruent(g, 1, q)
      BY <1>1, <3>1
    <3>3. Congruent(e1, b * (e - g), q)
      BY <1>0, <2>0, WeightedStep
    <3>4. g \in Int
      BY <1>0, <1>0a, <3>1, WeightedInt
    <3>5. b \in Int
      BY <2>0 DEF Apart
    <3> HIDE DEF e, e1, g, q, t
    <3>6. e - g \in Int /\ e - 1 \in Int /\ b * (e - g) \in Int /\ b * (e - 1) \in Int
      BY <2>1, <3>4, <3>5
    <3>7. Congruent(e - g, e - 1, q)
      <4>1. Congruent(e, e, q)
        BY <1>0, <2>1, CongruentRefl
      <4> QED
        BY <1>0, <2>1, <3>2, <3>4, <4>1, CongruentAdd
    <3>8. Congruent(b * (e - g), b * (e - 1), q)
      <4>1. Congruent(b, b, q)
        BY <1>0, <3>5, CongruentRefl
      <4> QED
        BY <1>0, <3>5, <3>6, <3>7, <4>1, CongruentMul
    <3> QED
      BY <1>0, <2>1, <3>3, <3>6, <3>8, CongruentTrans
  <2>3. CASE \E j \in s : s = {j}
    <3>1. PICK j \in s : s = {j}
      BY <2>3
    <3> DEFINE f == [i \in s |-> Lagrange(i, s, k) * w[0][i]]
    <3>2. Lagrange(j, s, k) = 1
      <4>1. j \in Nat
        BY <2>0 DEF Apart
      <4> QED
        BY <2>0, <3>1, <4>1, LagrangeSingle
    <3>3. w[0][j] \in Int /\ Congruent(w[0][j], 1, q)
      BY <1>0, <2>0 DEF ArePowers
    <3>4. f[j] = w[0][j]
      BY <3>2, <3>3
    <3>5. IsFiniteSet(s) /\ \A i \in s : i # j => f[i] = 0
      BY <2>0, <3>1 DEF Apart
    <3>6. e = SumOver(f, s)
      BY DEF Weighted
    <3> HIDE DEF f, e
    <3>7. SumOver(f, s) = f[j]
      BY <3>3, <3>4, <3>5, SumSingle
    <3>8. Congruent(e, 1, q)
      BY <3>3, <3>4, <3>6, <3>7
    <3> QED
      BY <3>8 DEF e
  <2>4. CASE s # {} /\ ~ \E j \in s : s = {j}
    <3>1. PICK a \in s : TRUE
      BY <2>4
    <3>2. PICK b \in s : b # a
      BY <2>4, <3>1
    <3>3. Congruent(e1, a * (e - 1), q) /\ Congruent(e1, b * (e - 1), q)
      BY <2>2, <2>4
    <3>4. a \in Int /\ b \in Int /\ (b - a) % q # 0
      BY <2>0, <3>2 DEF Apart
    <3> HIDE DEF e, e1, q
    <3>5. e - 1 \in Int /\ a * (e - 1) \in Int /\ b * (e - 1) \in Int /\ b - a \in Int /\ e1 - e1 = 0
      BY <2>1, <3>4
    <3>6. Congruent(e1 - e1, b * (e - 1) - a * (e - 1), q)
      BY <1>0, <2>1, <3>3, <3>5, CongruentAdd
    <3>7. b * (e - 1) - a * (e - 1) = (b - a) * (e - 1) /\ (b - a) * (e - 1) \in Int
      BY <3>4, <3>5
    <3>8. Congruent((b - a) * (e - 1), 0, q)
      BY <1>0, <3>5, <3>6, <3>7, CongruentSym
    <3>9. Congruent(e - 1, 0, q)
      BY <1>0, <3>4, <3>5, <3>8, PrimeCancel
    <3>10. Congruent((e - 1) + 1, 0 + 1, q) /\ (e - 1) + 1 = e /\ 0 + 1 = 1
      <4>1. Congruent(1, 1, q)
        BY <1>0, CongruentRefl
      <4>2. Congruent((e - 1) + 1, 0 + 1, q)
        BY <1>0, <3>5, <3>9, <4>1, CongruentAdd
      <4> QED
        BY <2>1, <4>2
    <3>11. Congruent(e, 1, q)
      BY <3>10
    <3> QED
      BY <3>11 DEF e
  <2>5. CASE s = {}
    BY <2>5
  <2> QED
    BY <2>3, <2>4, <2>5
<1>2. IsFiniteSet(A)
  BY DEF Apart
<1>3. \A s \in SUBSET A : s \in P
  <2> HIDE DEF P
  <2> QED
    BY <1>1, <1>2, StrictSubsetInduction, Zenon
<1> QED
  BY <1>3

LEMMA WeightedValue ==
  ASSUME NEW k \in Index, NEW A, Apart(A, k), NEW n \in Nat \ {0}, NEW w, ArePowers(w, n, A, k),
         NEW d \in 0 .. n, Cardinality(A) > d
  PROVE  Congruent(Weighted(w, d, A, k), IF d = 0 THEN 1 ELSE 0, Moduli[k])
PROOF
<1> DEFINE q == Moduli[k]
           v(i) == IF i = 0 THEN 1 ELSE 0
           P == {i \in 0 .. n : \A s \in SUBSET A :
                   Cardinality(s) > i => Congruent(Weighted(w, i, s, k), v(i), q)}
<1>0. q \in Int /\ n \in Nat /\ 0 \in Int /\ 1 \in Int /\ IsFiniteSet(A) /\ A \subseteq Nat
  BY FullFacts DEF Apart
<1>0a. \A s \in SUBSET A : Apart(s, k) /\ ArePowers(w, n, s, k)
  BY <1>0, ApartPart
<1>1. 0 \in P
  <2>1. ASSUME NEW s \in SUBSET A, Cardinality(s) > 0 PROVE s # {}
    <3>1. s = {} => Cardinality(s) = 0
      BY FS_EmptySet
    <3> QED
      BY <2>1, <3>1
  <2>2. \A s \in SUBSET A : s # {} => Congruent(Weighted(w, 0, s, k), 1, q)
    BY WeightedOne
  <2>3. 0 \in 0 .. n /\ v(0) = 1
    BY <1>0
  <2> QED
    BY <2>1, <2>2, <2>3
<1>2. ASSUME NEW i \in 0 .. n - 1, i \in P PROVE i + 1 \in P
  <2>1. i + 1 \in 0 .. n /\ i \in 0 .. n /\ v(i + 1) = 0 /\ v(i) \in Int /\ i \in Int
    BY <1>0
  <2>2. ASSUME NEW s \in SUBSET A, Cardinality(s) > i + 1
        PROVE  Congruent(Weighted(w, i + 1, s, k), 0, q)
    <3>0. IsFiniteSet(s) /\ Cardinality(s) \in Nat
      BY <1>0, FS_Subset, FS_CardinalityType
    <3>1. s # {}
      <4>1. s = {} => Cardinality(s) = 0
        BY FS_EmptySet
      <4> QED
        BY <2>1, <2>2, <4>1
    <3>2. PICK b \in s : TRUE
      BY <3>1
    <3> DEFINE t == s \ {b}
               x == Weighted(w, i, s, k)
               y == Weighted(w, i, t, k)
               z == Weighted(w, i + 1, s, k)
    <3>3. Cardinality(t) = Cardinality(s) - 1 /\ t \in SUBSET A /\ s \in SUBSET A
      BY <3>0, FS_RemoveElement
    <3>4. Cardinality(t) > i /\ Cardinality(s) > i
      BY <2>1, <2>2, <3>0, <3>3
    <3>5. Congruent(x, v(i), q) /\ Congruent(y, v(i), q)
      BY <1>2, <3>3, <3>4
    <3>6. Congruent(z, b * (x - y), q)
      BY <1>0, <1>0a, <3>3, WeightedStep
    <3>7. x \in Int /\ y \in Int /\ z \in Int
      BY <1>0, <1>0a, <2>1, <3>3, WeightedInt
    <3>8. b \in Int
      BY <1>0
    <3> HIDE DEF x, y, z, t, v, q
    <3>9. x - y \in Int /\ b * (x - y) \in Int /\ v(i) - v(i) = 0 /\ b * 0 = 0
      BY <2>1, <3>7, <3>8
    <3>10. Congruent(x - y, 0, q)
      BY <1>0, <2>1, <3>5, <3>7, <3>9, CongruentAdd
    <3>11. Congruent(b * (x - y), b * 0, q)
      <4>1. Congruent(b, b, q)
        BY <1>0, <3>8, CongruentRefl
      <4> QED
        BY <1>0, <3>8, <3>9, <3>10, <4>1, CongruentMul
    <3>12. Congruent(z, 0, q)
      BY <1>0, <3>6, <3>7, <3>9, <3>11, CongruentTrans
    <3> QED
      BY <3>12 DEF z
  <2> HIDE DEF v
  <2> QED
    BY <2>1, <2>2
<1>3. \A i \in 0 .. n : i \in P
  <2> HIDE DEF P
  <2> QED
    BY <1>0, <1>1, <1>2, BoundedInduction, Zenon
<1>4. A \in SUBSET A
  OBVIOUS
<1> QED
  BY <1>3, <1>4

LEMMA PowersFacts ==
  ASSUME NEW k \in Index, NEW x \in Nat, NEW n \in Nat
  PROVE  LET p == Powers(x, n, Moduli[k])
         IN  /\ \A d \in 0 .. n : p[d] \in Int
             /\ p[0] = 1
             /\ \A d \in 0 .. n - 1 : Congruent(p[d + 1], p[d] * x, Moduli[k])
PROOF
<1> DEFINE q == Moduli[k]
           F == [d \in 1 .. n |-> [v \in Int |-> (v * x) % q]]
           Is(f) == f = [d \in 0 .. n |-> IF d = 0 THEN 1 ELSE (f[d - 1] * x) % q]
           p == Powers(x, n, q)
<1>0. q \in Nat \ {0} /\ q \in Int /\ 1 \in Int /\ x \in Int
  BY FullFacts
<1>1. ASSUME NEW v \in Int PROVE (v * x) % q \in Int /\ Congruent((v * x) % q, v * x, q)
  <2>1. v * x \in Int
    BY <1>0
  <2>2. (v * x) % q \in 0 .. q - 1 /\ Congruent((v * x) % q, v * x, q)
    BY <1>0, <2>1, CongruentMod, Zenon
  <2>3. \A u \in 0 .. q - 1 : u \in Int
    BY <1>0
  <2> QED
    BY <2>2, <2>3
<1>2. F \in RecursionSteps(Int, n)
  BY <1>1 DEF RecursionSteps
<1>3. PICK f : IsRecursion(f, Int, 1, F, n)
  <2> HIDE DEF F
  <2> QED
    BY <1>0, <1>2, RecursionExists, Zenon
<1>4. /\ f \in [0 .. n -> Int] /\ f[0] = 1
      /\ \A d \in 1 .. n : f[d] = F[d][f[d - 1]]
  <2> HIDE DEF F
  <2> QED
    BY <1>3 DEF IsRecursion
<1>5. \A d \in 1 .. n : d - 1 \in 0 .. n /\ f[d - 1] \in Int
  BY <1>4
<1>6. \A d \in 1 .. n : f[d] = (f[d - 1] * x) % q
  <2>1. \A d \in 1 .. n, v \in Int : F[d][v] = (v * x) % q
    OBVIOUS
  <2> HIDE DEF F, q
  <2> QED
    BY <1>4, <1>5, <2>1
<1> HIDE DEF q
<1>7. Is(f)
  <2>1. \A d \in 0 .. n : d # 0 => d \in 1 .. n
    OBVIOUS
  <2>2. \A d \in 0 .. n : f[d] = IF d = 0 THEN 1 ELSE (f[d - 1] * x) % q
    BY <1>4, <1>6, <2>1
  <2> QED
    BY <1>4, <2>2
<1>8. Is(p)
  BY <1>7 DEF Powers
<1> HIDE DEF p
<1>9. p[0] = 1 /\ \A d \in 1 .. n : p[d] = (p[d - 1] * x) % q
  BY <1>8
<1> DEFINE P == {d \in 0 .. n : p[d] \in Int}
<1>10. \A d \in 0 .. n : d \in P
  <2>1. 0 \in P
    BY <1>9
  <2>2. ASSUME NEW d \in 0 .. n - 1, d \in P PROVE d + 1 \in P
    <3>1. d + 1 \in 1 .. n /\ d + 1 \in 0 .. n /\ d + 1 - 1 = d /\ p[d] \in Int
      BY <2>2
    <3>2. p[d + 1] = (p[d] * x) % q
      BY <1>9, <3>1
    <3>3. p[d + 1] \in Int
      BY <1>1, <3>1, <3>2
    <3> QED
      BY <3>1, <3>3
  <2> HIDE DEF P
  <2> QED
    BY <2>1, <2>2, BoundedInduction, Zenon
<1>11. ASSUME NEW d \in 0 .. n - 1 PROVE Congruent(p[d + 1], p[d] * x, q)
  <2>1. d + 1 \in 1 .. n /\ d \in 0 .. n /\ d + 1 - 1 = d
    OBVIOUS
  <2>2. p[d] \in Int /\ p[d + 1] = (p[d] * x) % q
    BY <1>9, <1>10, <2>1
  <2> QED
    BY <1>1, <2>2
<1>12. \A d \in 0 .. n : p[d] \in Int
  BY <1>10
<1> QED
  BY <1>9, <1>11, <1>12 DEF p, q

(* The coefficients give the value at 0 of a polynomial of degree n from   *)
(* its values at more than n points.                                       *)
LEMMA ValueAtZero ==
  ASSUME NEW k \in Index, NEW A, Apart(A, k), NEW n \in Nat \ {0}, Cardinality(A) > n,
         NEW w, ArePowers(w, n, A, k), \A j \in A : w[0][j] = 1,
         NEW s \in Int, NEW x, \A d \in 1 .. n : x[d] \in Int
  PROVE  Congruent(SumOver([j \in A |-> Lagrange(j, A, k) *
                              (s + SumOver([d \in 1 .. n |-> w[d][j] * x[d]], 1 .. n))], A),
                   s, Moduli[k])
PROOF
<1> DEFINE q == Moduli[k]
           L(j) == Lagrange(j, A, k)
           t(j) == [d \in 1 .. n |-> w[d][j] * x[d]]
           g(D) == [j \in A |-> L(j) * (s + SumOver(t(j), D))]
           P == {D \in SUBSET (1 .. n) : Congruent(SumOver(g(D), A), s, q)}
<1>0. /\ q \in Int /\ IsFiniteSet(A) /\ n \in Nat /\ 0 \in 0 .. n /\ 1 \in Int /\ 0 \in Int
      /\ IsFiniteSet(1 .. n) /\ Cardinality(A) > 0
  <2>1. Cardinality(A) \in Nat /\ IsFiniteSet(A)
    BY FS_CardinalityType DEF Apart
  <2>2. IsFiniteSet(1 .. n)
    BY FS_Interval
  <2>3. n \in Nat /\ n > 0
    OBVIOUS
  <2>4. Cardinality(A) > 0
    BY <2>1, <2>3
  <2> QED
    BY <2>1, <2>2, <2>3, <2>4, FullFacts
<1>1. \A j \in A : L(j) \in Int
  BY LagrangeValue
<1>2. \A j \in A, d \in 1 .. n : w[d][j] \in Int /\ t(j)[d] = w[d][j] * x[d] /\ t(j)[d] \in Int
  <2>1. \A d \in 1 .. n : d \in 0 .. n /\ x[d] \in Int
    BY <1>0
  <2>2. \A j \in A, d \in 1 .. n : w[d][j] \in Int
    BY <2>1 DEF ArePowers
  <2> QED
    BY <2>1, <2>2
<1> HIDE DEF t, L, q
<1>3. ASSUME NEW D \in SUBSET (1 .. n), NEW j \in A
      PROVE  SumOver(t(j), D) \in Int /\ g(D)[j] = L(j) * (s + SumOver(t(j), D)) /\ g(D)[j] \in Int
  <2>1. IsFiniteSet(D) /\ \A d \in D : t(j)[d] \in Int
    BY <1>0, <1>2, FS_Subset
  <2>2. SumOver(t(j), D) \in Int
    BY <2>1, SumInt
  <2> QED
    BY <1>1, <2>2
<1>4. {} \in P
  <2> DEFINE f == [j \in A |-> L(j) * w[0][j]]
             z == [j \in A |-> 0]
  <2>1. ASSUME NEW j \in A
        PROVE  z[j] \in Int /\ f[j] \in Int /\ g({})[j] = z[j] + s * f[j] /\ z[j] = 0
    <3>1. f[j] = L(j) /\ L(j) \in Int
      BY <1>1
    <3>2. g({})[j] = L(j) * (s + 0)
      BY SumEmpty
    <3>3. L(j) * (s + 0) = 0 + s * L(j)
      BY <3>1
    <3> HIDE DEF g, f
    <3> QED
      BY <3>1, <3>2, <3>3
  <2>2. f = [j \in A |-> Lagrange(j, A, k) * w[0][j]]
    BY DEF L
  <2>3. Weighted(w, 0, A, k) = SumOver(f, A)
    BY <2>2 DEF Weighted
  <2> HIDE DEF f, z, g
  <2>4. SumOver(g({}), A) = SumOver(z, A) + s * SumOver(f, A) /\ SumOver(z, A) = 0 /\ SumOver(f, A) \in Int
    BY <1>0, <2>1, SumLinear, SumZero, SumInt
  <2>5. Congruent(SumOver(f, A), 1, q)
    BY <1>0, <2>3, WeightedValue DEF q
  <2>6. Congruent(s * SumOver(f, A), s * 1, q)
    <3>1. Congruent(s, s, q)
      BY <1>0, CongruentRefl
    <3> QED
      BY <1>0, <2>4, <2>5, <3>1, CongruentMul
  <2>7. SumOver(g({}), A) = s * SumOver(f, A) /\ s * 1 = s
    BY <2>4
  <2>8. Congruent(SumOver(g({}), A), s, q)
    BY <2>6, <2>7
  <2> QED
    BY <2>8
<1>5. ASSUME NEW D \in SUBSET (1 .. n), NEW d \in 1 .. n, d \notin D, D \in P
      PROVE  D \cup {d} \in P
  <2> DEFINE E == D \cup {d}
             f == [j \in A |-> L(j) * w[d][j]]
             c == x[d]
  <2>0. E \in SUBSET (1 .. n) /\ c \in Int /\ d \in 0 .. n /\ d # 0 /\ d \in Int
    <3>1. E \in SUBSET (1 .. n)
      OBVIOUS
    <3>2. c \in Int
      OBVIOUS
    <3>3. d \in 0 .. n /\ d # 0 /\ d \in Int
      BY <1>0
    <3> QED
      BY <3>1, <3>2, <3>3
  <2>1. ASSUME NEW j \in A
        PROVE  f[j] \in Int /\ g(D)[j] \in Int /\ g(E)[j] = g(D)[j] + c * f[j]
    <3> DEFINE u == SumOver(t(j), D)
               l == L(j)
               v == w[d][j]
    <3>1. SumOver(t(j), E) = t(j)[d] + u
      <4>1. IsFiniteSet(D) /\ \A i \in D : t(j)[i] \in Int
        BY <1>0, <1>2, FS_Subset
      <4>2. t(j)[d] \in Int
        BY <1>2
      <4> QED
        BY <1>5, <4>1, <4>2, SumInsert
    <3>2. u \in Int /\ l \in Int /\ v \in Int /\ t(j)[d] = v * c
      BY <1>1, <1>2, <1>3
    <3>3. g(D)[j] = l * (s + u) /\ g(E)[j] = l * (s + (v * c + u)) /\ f[j] = l * v
      BY <1>3, <2>0, <3>1, <3>2
    <3> HIDE DEF u, l, v, c, g, f, E
    <3>4. l * (s + (v * c + u)) = l * (s + u) + c * (l * v) /\ l * (s + u) \in Int /\ l * v \in Int
      <4>1. v * c \in Int /\ s + u \in Int
        BY <2>0, <3>2
      <4>2. s + (v * c + u) = (s + u) + v * c
        BY <3>2, <4>1
      <4>3. \A a, b \in Int : l * (a + b) = l * a + l * b
        BY <3>2
      <4>4. l * (v * c) = c * (l * v)
        BY <2>0, <3>2
      <4>5. l * (s + u) \in Int /\ l * v \in Int
        BY <3>2, <4>1
      <4> QED
        BY <4>1, <4>2, <4>3, <4>4, <4>5
    <3> QED
      BY <3>3, <3>4
  <2>2. f = [j \in A |-> Lagrange(j, A, k) * w[d][j]]
    BY DEF L
  <2>3. Weighted(w, d, A, k) = SumOver(f, A)
    BY <2>2 DEF Weighted
  <2> HIDE DEF f, g, c
  <2>4. SumOver(g(E), A) = SumOver(g(D), A) + c * SumOver(f, A)
    <3> DEFINE old == g(D)
               new == g(E)
    <3>1. \A j \in A : old[j] \in Int /\ f[j] \in Int /\ new[j] = old[j] + c * f[j]
      BY <2>1
    <3> HIDE DEF E, old, new
    <3>2. SumOver(new, A) = SumOver(old, A) + c * SumOver(f, A)
      <4>1. IsFiniteSet(A) /\ c \in Int
        BY <1>0, <2>0
      <4>2. ASSUME NEW a, NEW b, NEW e, NEW i \in Int,
                   \A j \in A : a[j] \in Int /\ b[j] \in Int /\ e[j] = a[j] + i * b[j]
            PROVE  SumOver(e, A) = SumOver(a, A) + i * SumOver(b, A)
        BY <4>1, <4>2, SumLinear
      <4>3. \A a, b, e : \A i \in Int :
                   (\A j \in A : a[j] \in Int /\ b[j] \in Int /\ e[j] = a[j] + i * b[j])
                   => SumOver(e, A) = SumOver(a, A) + i * SumOver(b, A)
        BY <4>2
      <4> QED
        BY <3>1, <4>1, <4>3
    <3> QED
      BY <3>2 DEF old, new
  <2>5. SumOver(f, A) \in Int /\ SumOver(g(D), A) \in Int
    BY <1>0, <2>1, SumInt
  <2>6. Cardinality(A) > d
    <3>1. Cardinality(A) \in Nat
      BY <1>0, FS_CardinalityType
    <3> QED
      BY <3>1
  <2>7. Congruent(SumOver(f, A), 0, q)
    BY <1>0, <2>0, <2>3, <2>6, WeightedValue DEF q
  <2> DEFINE F == SumOver(f, A)
             GD == SumOver(g(D), A)
             GE == SumOver(g(E), A)
  <2>8. GE = GD + c * F /\ F \in Int /\ GD \in Int /\ Congruent(F, 0, q) /\ Congruent(GD, s, q)
    BY <1>5, <2>4, <2>5, <2>7
  <2> HIDE DEF F, GD, GE, E
  <2>9. Congruent(c * F, c * 0, q)
    <3>1. Congruent(c, c, q)
      BY <1>0, <2>0, CongruentRefl
    <3> QED
      BY <1>0, <2>0, <2>8, <3>1, CongruentMul
  <2>10. c * F \in Int /\ c * 0 \in Int /\ s + c * 0 = s
    BY <2>0, <2>8
  <2>11. Congruent(GD + c * F, s + c * 0, q)
    BY <1>0, <2>8, <2>9, <2>10, CongruentAdd
  <2>12. Congruent(GE, s, q)
    BY <2>8, <2>10, <2>11
  <2> QED
    BY <2>0, <2>12 DEF GE, E
<1>6. \A D \in SUBSET (1 .. n) : D \in P
  <2> HIDE DEF P
  <2> QED
    BY <1>0, <1>4, <1>5, SubsetInduction, Zenon
<1>7. Congruent(SumOver(g(1 .. n), A), s, q)
  BY <1>6
<1> QED
  BY <1>7 DEF q, L, t

(* A sum of threshold many residues does not wrap.                         *)
SumsFit == \A sch \in Schemes :
  sch.shareType # "additive" => \A k \in Index : sch.threshold * Moduli[k] <= Word

(* All the other parties are needed when a key is split additively.        *)
AllShares == \A sch \in Schemes :
  sch.shareType = "additive" => sch.threshold = sch.parties - 1

LEMMA SchemeFacts ==
  ASSUME NEW sch \in Schemes
  PROVE  /\ sch.parties \in Nat /\ sch.parties >= 2 /\ sch.threshold \in Nat /\ sch.threshold >= 2
         /\ sch.threshold - 1 \in Nat \ {0}
         /\ \A k \in Index : sch.parties < Moduli[k]
         /\ \A tape \in Tapes : /\ \A d \in 1 .. sch.threshold - 1 : tape[d] \in Int
                                /\ \A d \in 1 .. sch.parties - 2 : tape[d] \in Int
PROOF
<1>1. /\ sch.parties \in Nat /\ sch.parties >= 2 /\ sch.threshold \in Nat
      /\ 2 * sch.threshold > sch.parties
      /\ \A k \in Index : sch.parties < Moduli[k]
  BY SchemesAssumption DEF Index, Full
<1>2. sch.threshold >= 2 /\ sch.threshold - 1 \in Nat \ {0}
  BY <1>1
<1>3. ASSUME NEW tape \in Tapes
      PROVE  /\ \A d \in 1 .. sch.threshold - 1 : tape[d] \in Int
             /\ \A d \in 1 .. sch.parties - 2 : tape[d] \in Int
  <2>1. /\ tape \in Seq(0 .. Q[Full] - 1)
        /\ Len(tape) >= sch.threshold - 1 /\ Len(tape) >= sch.parties - 2
    BY ValuesAssumption
  <2>2. \A u \in 0 .. Q[Full] - 1 : u \in Int
    BY QFacts, FullFacts
  <2>3. tape \in [1 .. Len(tape) -> 0 .. Q[Full] - 1] /\ Len(tape) \in Nat
    <3> DEFINE R == 0 .. Q[Full] - 1
    <3>1. tape \in Seq(R)
      BY <2>1
    <3> HIDE DEF R
    <3>2. tape \in [1 .. Len(tape) -> R] /\ Len(tape) \in Nat
      BY <3>1
    <3> QED
      BY <3>2 DEF R
  <2>4. \A d \in 1 .. Len(tape) : tape[d] \in Int
    BY <2>2, <2>3
  <2>5. \A d \in 1 .. sch.threshold - 1 : d \in 1 .. Len(tape)
    BY <1>1, <2>1, <2>3
  <2>6. \A d \in 1 .. sch.parties - 2 : d \in 1 .. Len(tape)
    BY <1>1, <2>1, <2>3
  <2> QED
    BY <2>4, <2>5, <2>6
<1> QED
  BY <1>1, <1>2, <1>3

LEMMA ModAddFastFacts ==
  ASSUME NEW q \in Nat \ {0}, NEW x \in Int, NEW y \in 0 .. q - 1, x >= 0, x + y < Word
  PROVE  ModAddFast(x, y, q) \in Int /\ Congruent(ModAddFast(x, y, q), x + y, q)
PROOF
<1>1. Word \in Nat \ {0}
  BY ModuliAssumption
<1>2. x + y \in Int /\ x + y >= 0 /\ q \in Int
  OBVIOUS
<1>3. (x + y) % Word = x + y
  BY <1>1, <1>2
<1>4. ModAddFast(x, y, q) = IF x + y >= q THEN x + y - q ELSE x + y
  BY <1>3 DEF ModAddFast
<1>5. Congruent(x + y - q, x + y, q)
  <2>1. x + y - q = (x + y) + (-1) * q /\ -1 \in Int
    BY <1>2
  <2> QED
    BY <2>1 DEF Congruent
<1>6. Congruent(x + y, x + y, q)
  BY <1>2, CongruentRefl
<1> QED
  BY <1>2, <1>4, <1>5, <1>6

LEMMA ShamirShareValue ==
  ASSUME SumsFit, scheme \in Schemes, scheme.shareType # "additive", NEW k \in Index,
         NEW s \in Int, NEW draws, \A d \in 1 .. scheme.threshold - 1 : draws[d] \in Int,
         NEW owner \in Nat
  PROVE  LET n == scheme.threshold - 1
             p == Powers(owner, n, Moduli[k])
             y == ShamirShare(s, draws, owner)[k]
         IN  y \in Int /\ Congruent(y, s + SumOver([d \in 1 .. n |-> p[d] * draws[d]], 1 .. n), Moduli[k])
PROOF
<1> DEFINE q == Moduli[k]
           n == scheme.threshold - 1
           D == 1 .. n
           p == Powers(owner, n, q)
           y == ShamirShare(s, draws, owner)[k]
           exact == [d \in D |-> p[d] * draws[d]]
           terms == [d \in D |-> (p[d] * draws[d]) % q]
           T == SumOver(terms, D)
           X == SumOver(exact, D)
<1>0. /\ q \in Nat \ {0} /\ q \in Int /\ n \in Nat /\ n \in Int /\ scheme.threshold = n + 1
      /\ (n + 1) * q <= Word /\ Word \in Nat \ {0}
  <2>1. q \in Nat \ {0} /\ q \in Int
    BY FullFacts
  <2>2. scheme.threshold \in Nat /\ n \in Nat
    BY SchemeFacts
  <2>3. n \in Int /\ scheme.threshold = n + 1
    BY <2>2
  <2>4. scheme.threshold * q <= Word
    BY DEF SumsFit
  <2>5. Word \in Nat \ {0}
    BY ModuliAssumption
  <2> QED
    BY <2>1, <2>2, <2>3, <2>4, <2>5
<1>0a. IsFiniteSet(D) /\ Cardinality(D) = n
  <2> HIDE DEF n
  <2>1. n \in Int /\ 1 \in Int
    BY <1>0
  <2>2. IsFiniteSet(1 .. n) /\ Cardinality(1 .. n) = IF 1 > n THEN 0 ELSE n - 1 + 1
    BY <2>1, FS_Interval
  <2> QED
    BY <1>0, <2>2
<1>1. \A d \in D : p[d] \in Int /\ draws[d] \in Int
  <2>1. \A d \in 0 .. n : p[d] \in Int
    <3> HIDE DEF n
    <3> QED
      BY <1>0, PowersFacts
  <2>2. \A d \in D : d \in 0 .. n
    BY <1>0
  <2> QED
    BY <2>1, <2>2
<1>2. y = ModAddFast(T % Word, s % q, q)
  <2>1. Sum(terms) = T
    BY SumIsOver
  <2>2. k \in 1 .. Full
    BY DEF Index
  <2>3. y = ModAddFast(Sum(terms) % Word, s % q, q)
    BY <2>2 DEF ShamirShare
  <2> QED
    BY <2>1, <2>3
<1> HIDE DEF n, p, q, D
<1>3. \A d \in D : /\ exact[d] \in Int /\ terms[d] \in 0 .. q - 1 /\ terms[d] \in Int
                   /\ Congruent(terms[d], exact[d], q)
  <2>1. ASSUME NEW d \in D PROVE p[d] * draws[d] \in Int
    BY <1>1
  <2>2. ASSUME NEW u \in Int PROVE u % q \in 0 .. q - 1 /\ u % q \in Int /\ Congruent(u % q, u, q)
    <3>1. u % q \in 0 .. q - 1 /\ Congruent(u % q, u, q)
      BY <1>0, <2>2, CongruentMod, Zenon
    <3> QED
      BY <1>0, <3>1
  <2> QED
    BY <2>1, <2>2
<1> HIDE DEF exact, terms
<1>4. Congruent(T, X, q) /\ T \in Int /\ X \in Int
  BY <1>0, <1>0a, <1>3, SumCongruent, SumInt
<1>5. T <= n * (q - 1)
  <2>1. q - 1 \in Int /\ \A d \in D : terms[d] \in Int /\ terms[d] <= q - 1
    BY <1>0, <1>3
  <2> QED
    BY <1>0a, <2>1, SumBound
<1>6. T >= 0
  <2>1. 0 \in Int /\ \A d \in D : terms[d] \in Int /\ 0 <= terms[d]
    BY <1>0, <1>3
  <2>2. Cardinality(D) * 0 <= T
    BY <1>0a, <2>1, SumBoundBelow
  <2> QED
    BY <1>0, <1>0a, <1>4, <2>2
<1> HIDE DEF T, X
<1> DEFINE r == s % q
<1>7. r \in 0 .. q - 1 /\ Congruent(r, s, q)
  BY <1>0, CongruentMod, Zenon
<1> HIDE DEF r
<1>8. T + r < Word
  <2>1. (n + 1) * q = n * (q - 1) + n + q
    BY <1>0
  <2>2. n * (q - 1) \in Int
    BY <1>0
  <2> QED
    BY <1>0, <1>4, <1>5, <1>7, <2>1, <2>2
<1>9. T % Word = T
  <2>1. T \in Int /\ T >= 0 /\ T < Word
    BY <1>0, <1>4, <1>6, <1>7, <1>8
  <2> QED
    BY <1>0, <2>1
<1>10. y \in Int /\ Congruent(y, T + r, q)
  <2>1. y = ModAddFast(T, r, q)
    BY <1>2, <1>9 DEF r
  <2>2. ModAddFast(T, r, q) \in Int /\ Congruent(ModAddFast(T, r, q), T + r, q)
    BY <1>0, <1>4, <1>6, <1>7, <1>8, ModAddFastFacts
  <2> QED
    BY <2>1, <2>2
<1> HIDE DEF y
<1>11. r \in Int
  BY <1>0, <1>7
<1>12. Congruent(T + r, X + s, q)
  BY <1>0, <1>4, <1>7, <1>11, CongruentAdd
<1>13. T + r \in Int /\ X + s \in Int /\ X + s = s + X
  BY <1>4, <1>11
<1>14. Congruent(y, s + X, q)
  BY <1>0, <1>10, <1>12, <1>13, CongruentTrans
<1> QED
  BY <1>10, <1>14 DEF y, X, exact, D, n, p, q

LEMMA ShamirRecovers ==
  ASSUME SumsFit, scheme \in Schemes, scheme.shareType # "additive", NEW k \in Index,
         NEW s \in Int, NEW draws, \A d \in 1 .. scheme.threshold - 1 : draws[d] \in Int,
         NEW A, A \subseteq Parties, Cardinality(A) >= scheme.threshold
  PROVE  LET f == [j \in A |-> (Lagrange(j, A, k) * ShamirShare(s, draws, j)[k]) % Moduli[k]]
         IN  SumOver(f, A) \in Int /\ Congruent(SumOver(f, A), s, Moduli[k])
PROOF
<1> DEFINE q == Moduli[k]
           n == scheme.threshold - 1
           L(j) == Lagrange(j, A, k)
           y(j) == ShamirShare(s, draws, j)[k]
           f == [j \in A |-> (L(j) * y(j)) % q]
           w == [d \in 0 .. n |-> [j \in A |-> Powers(j, n, q)[d]]]
           t(j) == SumOver([d \in 1 .. n |-> Powers(j, n, q)[d] * draws[d]], 1 .. n)
           v(j) == SumOver([d \in 1 .. n |-> w[d][j] * draws[d]], 1 .. n)
           g == [j \in A |-> L(j) * (s + v(j))]
<1>0. /\ q \in Nat \ {0} /\ q \in Int /\ n \in Nat \ {0} /\ scheme.parties \in Nat
      /\ scheme.parties < q /\ scheme.threshold = n + 1 /\ scheme.threshold \in Nat
  <2>1. q \in Nat \ {0} /\ q \in Int
    BY FullFacts
  <2>2. n \in Nat \ {0} /\ scheme.parties \in Nat /\ scheme.parties < q /\ scheme.threshold \in Nat
    BY SchemeFacts
  <2>3. scheme.threshold = n + 1
    BY <2>2
  <2> QED
    BY <2>1, <2>2, <2>3
<1>1. A \subseteq 1 .. scheme.parties /\ A \subseteq Nat /\ IsFiniteSet(A)
  <2>1. A \subseteq 1 .. scheme.parties
    BY DEF Parties
  <2>2. IsFiniteSet(1 .. scheme.parties)
    <3>1. 1 \in Int /\ scheme.parties \in Int
      BY <1>0
    <3> QED
      BY <3>1, FS_Interval
  <2>3. \A j \in 1 .. scheme.parties : j \in Nat
    BY <1>0
  <2> QED
    BY <2>1, <2>2, <2>3, FS_Subset
<1>2. Apart(A, k)
  <2>1. ASSUME NEW i \in A, NEW j \in A, i # j PROVE (i - j) % q # 0
    <3>0. i \in 1 .. scheme.parties /\ j \in 1 .. scheme.parties /\ i \in Int /\ j \in Int
      BY <1>1
    <3>1. i - j \in Int /\ i - j < q /\ j - i < q /\ 0 \in Int /\ i - j - 0 < q /\ 0 - (i - j) < q
      BY <1>0, <3>0
    <3> HIDE DEF q
    <3>2. ASSUME (i - j) % q = 0 PROVE FALSE
      <4>1. 0 % q = 0
        BY <1>0
      <4>2. Congruent(i - j, 0, q)
        BY <1>0, <3>1, <3>2, <4>1, CongruentModEqual
      <4>3. i - j = 0
        BY <1>0, <3>1, <4>2, CongruentClose
      <4> QED
        BY <2>1, <3>0, <4>3
    <3> QED
      BY <3>2
  <2> QED
    BY <1>1, <2>1 DEF Apart
<1>3. Cardinality(A) > n
  <2>1. Cardinality(A) \in Nat
    BY <1>1, FS_CardinalityType
  <2> QED
    BY <1>0, <2>1
<1>4. \A j \in A : L(j) \in Int
  BY <1>2, LagrangeValue
<1>5. \A j \in A : y(j) \in Int /\ Congruent(y(j), s + t(j), q)
  BY <1>1, ShamirShareValue
<1> HIDE DEF n, q
<1>6. \A j \in A : /\ \A d \in 0 .. n : w[d][j] \in Int /\ w[d][j] = Powers(j, n, q)[d]
                   /\ w[0][j] = 1
                   /\ \A d \in 0 .. n - 1 : Congruent(w[d + 1][j], w[d][j] * j, q)
  <2>0. n \in Nat
    BY <1>0
  <2>1. ASSUME NEW j \in A
        PROVE  /\ \A d \in 0 .. n : Powers(j, n, q)[d] \in Int
               /\ Powers(j, n, q)[0] = 1
               /\ \A d \in 0 .. n - 1 : Congruent(Powers(j, n, q)[d + 1], Powers(j, n, q)[d] * j, q)
    <3>1. j \in Nat
      BY <1>1
    <3> QED
      BY <2>0, <3>1, PowersFacts DEF q
  <2>2. \A j \in A, d \in 0 .. n : w[d][j] = Powers(j, n, q)[d]
    OBVIOUS
  <2> HIDE DEF w
  <2>3. \A d \in 0 .. n - 1 : d + 1 \in 0 .. n /\ d \in 0 .. n
    BY <2>0
  <2>4. 0 \in 0 .. n
    BY <2>0
  <2> QED
    BY <2>1, <2>2, <2>3, <2>4
<1>7. ArePowers(w, n, A, k) /\ \A j \in A : w[0][j] = 1
  <2>1. Congruent(1, 1, q) /\ 1 \in Int
    BY <1>0, CongruentRefl
  <2> HIDE DEF w
  <2> QED
    BY <1>6, <2>1 DEF ArePowers, q
<1>8. \A j \in A : v(j) = t(j)
  <2>1. \A j \in A, d \in 1 .. n : w[d][j] = Powers(j, n, q)[d]
    <3>1. \A d \in 1 .. n : d \in 0 .. n
      BY <1>0
    <3> HIDE DEF w
    <3> QED
      BY <1>6, <3>1
  <2> HIDE DEF w
  <2>2. ASSUME NEW j \in A
        PROVE  [d \in 1 .. n |-> w[d][j] * draws[d]] = [d \in 1 .. n |-> Powers(j, n, q)[d] * draws[d]]
    BY <2>1
  <2> QED
    BY <2>2
<1>9. Congruent(SumOver(g, A), s, q)
  <2>1. \A d \in 1 .. n : draws[d] \in Int
    BY DEF n
  <2> HIDE DEF w
  <2> QED
    BY <1>0, <1>2, <1>3, <1>7, <2>1, ValueAtZero DEF q
<1>10. \A j \in A : v(j) \in Int
  <2>1. ASSUME NEW j \in A PROVE v(j) \in Int
    <3> DEFINE e == [d \in 1 .. n |-> w[d][j] * draws[d]]
    <3>1. \A d \in 1 .. n : w[d][j] \in Int /\ draws[d] \in Int
      <4>1. \A d \in 1 .. n : d \in 0 .. n
        BY <1>0
      <4>2. \A d \in 1 .. n : draws[d] \in Int
        BY DEF n
      <4> HIDE DEF w
      <4> QED
        BY <1>6, <4>1, <4>2
    <3> HIDE DEF w
    <3>2. \A d \in 1 .. n : e[d] \in Int
      BY <3>1
    <3>3. IsFiniteSet(1 .. n)
      BY <1>0, FS_Interval
    <3> HIDE DEF e
    <3>4. SumOver(e, 1 .. n) \in Int
      BY <3>2, <3>3, SumInt
    <3> QED
      BY <3>4 DEF e
  <2> QED
    BY <2>1
<1> HIDE DEF v, t, y, L, w
<1>11. ASSUME NEW j \in A
       PROVE  f[j] \in Int /\ g[j] \in Int /\ Congruent(f[j], g[j], q)
  <2>1. /\ L(j) \in Int /\ y(j) \in Int /\ s + v(j) \in Int /\ Congruent(y(j), s + v(j), q)
        /\ Congruent(L(j), L(j), q)
    BY <1>0, <1>4, <1>5, <1>8, <1>10, CongruentRefl
  <2>2. Congruent(L(j) * y(j), L(j) * (s + v(j)), q)
    BY <1>0, <2>1, CongruentMul
  <2>3. L(j) * y(j) \in Int /\ L(j) * (s + v(j)) \in Int
    BY <2>1
  <2> DEFINE u == L(j) * y(j)
             z == L(j) * (s + v(j))
  <2>4. f[j] = u % q /\ g[j] = z
    OBVIOUS
  <2> HIDE DEF u, z, f, g
  <2>5. u \in Int /\ z \in Int /\ Congruent(u, z, q)
    BY <2>2, <2>3 DEF u, z
  <2>6. u % q \in 0 .. q - 1 /\ Congruent(u % q, u, q)
    BY <1>0, <2>5, CongruentMod, Zenon
  <2>7. u % q \in Int
    BY <1>0, <2>6
  <2>8. Congruent(u % q, z, q)
    BY <1>0, <2>5, <2>6, <2>7, CongruentTrans
  <2> QED
    BY <2>4, <2>5, <2>7, <2>8
<1>12. f = [j \in A |-> (Lagrange(j, A, k) * ShamirShare(s, draws, j)[k]) % Moduli[k]]
  BY DEF L, y, q
<1> HIDE DEF f, g
<1>13. SumOver(f, A) \in Int /\ SumOver(g, A) \in Int /\ Congruent(SumOver(f, A), SumOver(g, A), q)
  <2>1. \A j \in A : f[j] \in Int /\ g[j] \in Int /\ Congruent(f[j], g[j], q)
    BY <1>11
  <2> QED
    BY <1>0, <1>1, <2>1, SumInt, SumCongruent
<1>14. Congruent(SumOver(f, A), s, q)
  BY <1>0, <1>9, <1>13, CongruentTrans
<1> QED
  BY <1>12, <1>13, <1>14 DEF q

LEMMA AdditiveRecovers ==
  ASSUME AllShares, scheme \in Schemes, scheme.shareType = "additive", NEW k \in Index,
         NEW s \in Int, NEW draws, \A d \in 1 .. scheme.parties - 2 : draws[d] \in Int,
         NEW i \in Parties
  PROVE  LET f == [j \in Parties \ {i} |->
                     (1 * AdditiveShare(s, draws, IF j < i THEN j ELSE j - 1)[k]) % Moduli[k]]
         IN  /\ SumOver(f, Parties \ {i}) \in Int
             /\ Congruent(SumOver(f, Parties \ {i}), s, Moduli[k])
PROOF
<1> DEFINE q == Moduli[k]
           N == scheme.parties
           A == Parties \ {i}
           pos == [j \in A |-> IF j < i THEN j ELSE j - 1]
           D == 1 .. N - 2
           drawn == [d \in D |-> draws[d]]
           X == SumOver(drawn, D)
           share(p) == AdditiveShare(s, draws, p)[k]
           f == [j \in A |-> (1 * share(IF j < i THEN j ELSE j - 1)) % q]
           g == [p \in 1 .. N - 1 |-> share(p) % q]
<1>0. /\ q \in Nat \ {0} /\ q \in Int /\ N \in Nat /\ N >= 3 /\ i \in 1 .. N /\ i \in Int /\ N \in Int
      /\ A = (1 .. N) \ {i} /\ k \in 1 .. Full
  <2>1. q \in Nat \ {0} /\ q \in Int /\ k \in 1 .. Full
    BY FullFacts DEF Index
  <2>2. scheme.threshold >= 2 /\ N \in Nat /\ scheme.threshold \in Nat
    BY SchemeFacts
  <2>3. scheme.threshold = N - 1
    BY DEF AllShares
  <2>4. N >= 3 /\ N \in Int
    BY <2>2, <2>3
  <2>5. i \in 1 .. N /\ A = (1 .. N) \ {i}
    BY DEF Parties
  <2>6. i \in Int
    BY <2>2, <2>5
  <2> QED
    BY <2>1, <2>2, <2>4, <2>5, <2>6
<1>1. IsFiniteSet(A) /\ IsFiniteSet(D) /\ IsFiniteSet(1 .. N - 1)
  <2>1. 1 \in Int /\ N - 2 \in Int /\ N - 1 \in Int
    BY <1>0
  <2>2. IsFiniteSet(1 .. N)
    BY <1>0, <2>1, FS_Interval
  <2>3. IsFiniteSet(D) /\ IsFiniteSet(1 .. N - 1)
    <3> HIDE DEF N
    <3> QED
      BY <2>1, FS_Interval
  <2>4. A \in SUBSET (1 .. N)
    BY <1>0
  <2> HIDE DEF A, N
  <2> QED
    BY <2>2, <2>3, <2>4, FS_Subset
<1>2. /\ \A p \in D : share(p) = draws[p] % q
      /\ share(N - 1) = (s - X) % q
  <2>1. Sum(drawn) = X
    BY SumIsOver
  <2>2. ASSUME NEW p \in D PROVE share(p) = draws[p] % q
    <3>1. p < N - 1
      BY <1>0
    <3>2. AdditiveShare(s, draws, p) = Towers(draws[p])
      BY <3>1 DEF AdditiveShare
    <3> QED
      BY <1>0, <3>2 DEF Towers
  <2>3. share(N - 1) = (s - Sum(drawn)) % q
    <3>1. ~ (N - 1 = 1 \/ N - 1 < N - 1)
      BY <1>0
    <3>2. AdditiveShare(s, draws, N - 1) = Towers(s - Sum(drawn))
      BY <3>1 DEF AdditiveShare
    <3> QED
      BY <1>0, <3>2 DEF Towers
  <2> QED
    BY <2>1, <2>2, <2>3
<1>2a. \A d \in D : drawn[d] = draws[d] /\ drawn[d] \in Int
  OBVIOUS
<1>3. X \in Int
  <2> HIDE DEF drawn, D
  <2> QED
    BY <1>1, <1>2a, SumInt
<1>4. ASSUME NEW u \in Int
      PROVE  /\ u % q \in Int /\ Congruent(u % q, u, q)
             /\ (u % q) % q \in Int /\ Congruent((u % q) % q, u, q)
  <2>1. \A v \in Int : v % q \in 0 .. q - 1 /\ Congruent(v % q, v, q)
    BY <1>0, CongruentMod, Zenon
  <2>2. \A v \in 0 .. q - 1 : v \in Int
    BY <1>0
  <2>3. \A v \in Int : v % q \in Int
    BY <2>1, <2>2
  <2>4. u % q \in Int /\ (u % q) % q \in Int /\ Congruent(u % q, u, q) /\ Congruent((u % q) % q, u % q, q)
    BY <2>1, <2>3
  <2> QED
    BY <1>0, <2>4, CongruentTrans
<1> HIDE DEF q, share, X, drawn
<1>5. /\ \A p \in D : g[p] \in Int /\ Congruent(g[p], drawn[p], q)
      /\ g[N - 1] \in Int /\ Congruent(g[N - 1], s - X, q)
      /\ \A p \in 1 .. N - 1 : g[p] \in Int
  <2>1. \A p \in 1 .. N - 1 : g[p] = share(p) % q
    OBVIOUS
  <2>2. N - 1 \in 1 .. N - 1 /\ s - X \in Int
    BY <1>0, <1>3
  <2>3. ASSUME NEW p \in 1 .. N - 1 PROVE p \in D \/ p = N - 1
    BY <1>0
  <2>4. \A p \in D : p \in 1 .. N - 1
    BY <1>0
  <2>5. ASSUME NEW p \in D PROVE g[p] \in Int /\ Congruent(g[p], drawn[p], q)
    <3>1. g[p] = (drawn[p] % q) % q /\ drawn[p] \in Int
      BY <1>2, <1>2a, <2>1, <2>4
    <3> HIDE DEF g
    <3> QED
      BY <1>4, <3>1
  <2>6. g[N - 1] \in Int /\ Congruent(g[N - 1], s - X, q)
    <3>1. g[N - 1] = ((s - X) % q) % q
      BY <1>2, <2>1, <2>2
    <3> HIDE DEF g
    <3> QED
      BY <1>4, <2>2, <3>1
  <2> HIDE DEF g, D
  <2> QED
    BY <2>3, <2>5, <2>6
<1>6. ASSUME NEW j \in A
      PROVE  pos[j] \in 1 .. N - 1 /\ f[j] = g[pos[j]]
  <2>1. j \in 1 .. N /\ j # i /\ j \in Int
    BY <1>0
  <2>2. pos[j] = IF j < i THEN j ELSE j - 1
    OBVIOUS
  <2>3. pos[j] \in 1 .. N - 1
    <3> HIDE DEF pos
    <3> QED
      BY <1>0, <2>1, <2>2
  <2>4. share(pos[j]) \in Int
    <3>1. \A p \in D : share(p) \in Int
      BY <1>2, <1>2a, <1>4
    <3>2. share(N - 1) \in Int
      <4>1. s - X \in Int
        BY <1>3
      <4> QED
        BY <1>2, <1>4, <4>1
    <3>3. pos[j] \in D \/ pos[j] = N - 1
      <4> HIDE DEF pos
      <4> QED
        BY <1>0, <2>3
    <3> HIDE DEF pos, D
    <3> QED
      BY <3>1, <3>2, <3>3
  <2>5. g[pos[j]] = share(pos[j]) % q
    BY <2>3
  <2>6. f[j] = (1 * share(pos[j])) % q
    BY <2>2
  <2>7. 1 * share(pos[j]) = share(pos[j])
    <3> HIDE DEF pos
    <3> QED
      BY <2>4
  <2> HIDE DEF f, g, pos
  <2> QED
    BY <2>3, <2>5, <2>6, <2>7
<1>7. ASSUME NEW x \in A, NEW y \in A, pos[x] = pos[y] PROVE x = y
  <2>1. x \in 1 .. N /\ y \in 1 .. N /\ x # i /\ y # i
    BY <1>0
  <2>2. pos[x] = (IF x < i THEN x ELSE x - 1) /\ pos[y] = (IF y < i THEN y ELSE y - 1)
    OBVIOUS
  <2>3. x \in Int /\ y \in Int /\ i \in Int
    BY <1>0, <2>1
  <2>4. pos[x] = pos[y]
    BY <1>7
  <2> HIDE DEF pos, A
  <2>5. x < i \/ x > i
    BY <2>1, <2>3
  <2>6. y < i \/ y > i
    BY <2>1, <2>3
  <2> QED
    BY <2>2, <2>3, <2>4, <2>5, <2>6
<1>8. {pos[x] : x \in A} = 1 .. N - 1
  <2>1. ASSUME NEW p \in 1 .. N - 1 PROVE \E x \in A : pos[x] = p
    <3>1. CASE p < i
      <4>1. p \in A /\ pos[p] = p
        BY <1>0, <3>1
      <4> QED
        BY <4>1
    <3>2. CASE ~ p < i
      <4>1. p + 1 \in A /\ ~ p + 1 < i /\ p + 1 - 1 = p
        BY <1>0, <3>2
      <4>2. pos[p + 1] = p
        BY <4>1
      <4> QED
        BY <4>1, <4>2
    <3> QED
      BY <3>1, <3>2
  <2>2. \A x \in A : pos[x] \in 1 .. N - 1
    BY <1>6
  <2> HIDE DEF pos, A
  <2> QED
    BY <2>1, <2>2
<1>9. SumOver(f, A) = SumOver(g, 1 .. N - 1)
  <2>1. \A x \in A : g[pos[x]] \in Int /\ f[x] = g[pos[x]]
    <3> HIDE DEF f, g, pos
    <3> QED
      BY <1>5, <1>6
  <2>2. \A x, y \in A : pos[x] = pos[y] => x = y
    <3> HIDE DEF pos, A
    <3> QED
      BY <1>7
  <2> HIDE DEF f, g, pos, A
  <2>3. SumOver(f, A) = SumOver(g, {pos[x] : x \in A})
    <3>1. IsFiniteSet(A)
      BY <1>1
    <3>2. ASSUME NEW e, NEW h, NEW p,
                 \A x \in A : h[p[x]] \in Int /\ e[x] = h[p[x]],
                 \A x, y \in A : p[x] = p[y] => x = y
          PROVE  SumOver(e, A) = SumOver(h, {p[x] : x \in A})
      BY <3>1, <3>2, SumReindex
    <3>3. \A e, h, p : /\ \A x \in A : h[p[x]] \in Int /\ e[x] = h[p[x]]
                       /\ \A x, y \in A : p[x] = p[y] => x = y
                       => SumOver(e, A) = SumOver(h, {p[x] : x \in A})
      BY <3>2
    <3> QED
      BY <2>1, <2>2, <3>3
  <2> QED
    BY <1>8, <2>3
<1> HIDE DEF g
<1>10. SumOver(g, 1 .. N - 1) = g[N - 1] + SumOver(g, D) /\ SumOver(g, D) \in Int
  <2>1. 1 .. N - 1 = D \cup {N - 1} /\ N - 1 \notin D
    BY <1>0
  <2>2. \A p \in D : g[p] \in Int
    BY <1>5
  <2> HIDE DEF D
  <2> QED
    BY <1>1, <1>5, <2>1, <2>2, SumInsert, SumInt
<1>11. Congruent(SumOver(g, D), X, q)
  <2>1. \A p \in D : g[p] \in Int /\ drawn[p] \in Int /\ Congruent(g[p], drawn[p], q)
    BY <1>2a, <1>5
  <2> HIDE DEF D
  <2> QED
    BY <1>0, <1>1, <2>1, SumCongruent DEF X
<1> DEFINE last == g[N - 1]
           G == SumOver(g, D)
<1>12. last \in Int /\ G \in Int /\ Congruent(last, s - X, q) /\ Congruent(G, X, q)
       /\ SumOver(f, A) = last + G
  BY <1>5, <1>9, <1>10, <1>11
<1> HIDE DEF last, G, f, A
<1>13. Congruent(last + G, (s - X) + X, q) /\ (s - X) + X = s
  <2>1. s - X \in Int /\ (s - X) + X = s
    BY <1>3
  <2> QED
    BY <1>0, <1>3, <1>12, <2>1, CongruentAdd
<1>14. SumOver(f, A) \in Int /\ Congruent(SumOver(f, A), s, q)
  BY <1>12, <1>13
<1> QED
  BY <1>14 DEF f, A, q, share

(* What the code promises of a share: whoever is at least the threshold    *)
(* recovers the key.                                                       *)
LEMMA KeyRecovered ==
  ASSUME SumsFit, AllShares, scheme \in Schemes, NEW i \in Parties, NEW holders, holders \subseteq Parties,
         Recoverable(i, holders), NEW s \in 0 .. Q[Full] - 1, NEW tape \in Tapes,
         shares[i] = ShareKeys(s, i, tape)
  PROVE  RecoverSharedKey(i, holders) = s
PROOF
<1> DEFINE A == holders \ {i}
           additive == scheme.shareType = "additive"
           some == IF additive THEN Smallest(A, scheme.threshold) ELSE A
           c(j, k) == IF additive THEN 1 ELSE Lagrange(j, some, k)
           f(k) == [j \in some |-> (c(j, k) * shares[i][j][k]) % Moduli[k]]
           r == [k \in 1 .. Full |-> Sum(f(k))]
<1>0. /\ scheme.parties \in Nat /\ scheme.threshold \in Nat /\ IsFiniteSet(Parties)
      /\ Cardinality(Parties) = scheme.parties /\ A \subseteq Parties \ {i}
      /\ Cardinality(A) >= scheme.threshold /\ s \in Int
      /\ \A d \in 1 .. scheme.threshold - 1 : tape[d] \in Int
      /\ \A d \in 1 .. scheme.parties - 2 : tape[d] \in Int
  <2>1. /\ scheme.parties \in Nat /\ scheme.parties >= 2 /\ scheme.threshold \in Nat
        /\ \A d \in 1 .. scheme.threshold - 1 : tape[d] \in Int
        /\ \A d \in 1 .. scheme.parties - 2 : tape[d] \in Int
    BY SchemeFacts
  <2>2. IsFiniteSet(Parties) /\ Cardinality(Parties) = scheme.parties
    <3>1. scheme.parties \in Int /\ 1 \in Int /\ ~ 1 > scheme.parties /\ scheme.parties - 1 + 1 = scheme.parties
      BY <2>1
    <3>2. /\ IsFiniteSet(1 .. scheme.parties)
          /\ Cardinality(1 .. scheme.parties) = IF 1 > scheme.parties THEN 0 ELSE scheme.parties - 1 + 1
      BY <3>1, FS_Interval
    <3> QED
      BY <3>1, <3>2 DEF Parties
  <2>3. Q[Full] \in Int
    BY QFacts, FullFacts
  <2>4. s \in Int
    BY <2>3
  <2>5. A \subseteq Parties \ {i} /\ Cardinality(A) >= scheme.threshold
    BY DEF Recoverable
  <2> HIDE DEF A
  <2> QED
    BY <2>1, <2>2, <2>4, <2>5, Zenon
<1>1. RecoverSharedKey(i, holders) = FromTowers(r)
  BY DEF RecoverSharedKey
<1>2. some \subseteq Parties \ {i} /\ DOMAIN shares[i] = Parties \ {i}
  BY <1>0 DEF Smallest, ShareKeys
<1>3. ASSUME NEW k \in Index
      PROVE  SumOver(f(k), some) \in Int /\ Congruent(SumOver(f(k), some), s, Moduli[k])
  <2>1. CASE ~ additive
    <3>1. some = A /\ Cardinality(A) >= scheme.threshold /\ A \subseteq Parties
      BY <1>0, <2>1
    <3>2. \A j \in A : shares[i][j] = ShamirShare(s, tape, j)
      BY <1>0, <2>1 DEF ShareKeys
    <3>3. f(k) = [j \in A |-> (Lagrange(j, A, k) * ShamirShare(s, tape, j)[k]) % Moduli[k]]
      BY <2>1, <3>1, <3>2
    <3> DEFINE h == [j \in A |-> (Lagrange(j, A, k) * ShamirShare(s, tape, j)[k]) % Moduli[k]]
    <3>4. SumOver(h, A) \in Int /\ Congruent(SumOver(h, A), s, Moduli[k])
      <4> HIDE DEF A
      <4> QED
        BY <1>0, <2>1, <3>1, ShamirRecovers
    <3> HIDE DEF A, f, some
    <3> QED
      BY <3>1, <3>3, <3>4
  <2>2. CASE additive
    <3>1. A = Parties \ {i} /\ Cardinality(A) = scheme.parties - 1
      <4>1. IsFiniteSet(Parties \ {i}) /\ Cardinality(Parties \ {i}) = scheme.parties - 1
        BY <1>0, FS_RemoveElement
      <4>2. A \in SUBSET (Parties \ {i})
        BY <1>0
      <4>3. Cardinality(A) <= Cardinality(Parties \ {i}) /\ IsFiniteSet(A)
            /\ (Cardinality(Parties \ {i}) = Cardinality(A) => Parties \ {i} = A)
        <5> HIDE DEF A
        <5> QED
          BY <4>1, <4>2, FS_Subset
      <4>4. scheme.threshold = scheme.parties - 1
        BY <2>2 DEF AllShares
      <4>5. Cardinality(A) \in Nat
        BY <4>3, FS_CardinalityType
      <4>6. Cardinality(A) = scheme.parties - 1
        <5> HIDE DEF A
        <5> QED
          BY <1>0, <4>1, <4>3, <4>4, <4>5
      <4> QED
        BY <4>1, <4>3, <4>6
    <3>2. some = A
      <4>1. ASSUME NEW x \in A PROVE Cardinality({y \in A : y < x}) < scheme.threshold
        <5> DEFINE B == {y \in A : y < x}
        <5>1. B \subseteq A \ {x}
          <6>1. x \in Int
            BY <1>0 DEF Parties
          <6>2. ~ x < x
            BY <6>1
          <6> QED
            BY <6>2
        <5>2. IsFiniteSet(A) /\ IsFiniteSet(A \ {x}) /\ Cardinality(A \ {x}) = scheme.parties - 2
          <6>1. IsFiniteSet(A)
            BY <1>0, FS_Subset
          <6> HIDE DEF A
          <6>2. IsFiniteSet(A \ {x}) /\ Cardinality(A \ {x}) = Cardinality(A) - 1
            BY <6>1, FS_RemoveElement
          <6> QED
            BY <1>0, <3>1, <6>1, <6>2
        <5> HIDE DEF B, A
        <5>3. Cardinality(B) <= scheme.parties - 2 /\ IsFiniteSet(B)
          BY <5>1, <5>2, FS_Subset
        <5>4. scheme.threshold = scheme.parties - 1 /\ Cardinality(B) \in Nat
          BY <2>2, <5>3, FS_CardinalityType DEF AllShares
        <5>5. Cardinality(B) < scheme.threshold
          BY <1>0, <5>3, <5>4
        <5> QED
          BY <5>5 DEF B
      <4> QED
        BY <2>2, <4>1 DEF Smallest
    <3> DEFINE h == [j \in Parties \ {i} |->
                     (1 * AdditiveShare(s, tape, IF j < i THEN j ELSE j - 1)[k]) % Moduli[k]]
    <3>3. SumOver(h, Parties \ {i}) \in Int /\ Congruent(SumOver(h, Parties \ {i}), s, Moduli[k])
      BY <1>0, <2>2, AdditiveRecovers
    <3>4. f(k) = h
      <4>1. \A j \in Parties \ {i} : shares[i][j] = AdditiveShare(s, tape, IF j < i THEN j ELSE j - 1)
        BY <2>2 DEF ShareKeys
      <4> QED
        BY <2>2, <3>1, <3>2, <4>1
    <3> HIDE DEF f, h, some, A
    <3> QED
      BY <3>1, <3>2, <3>3, <3>4
  <2> QED
    BY <2>1, <2>2
<1>4. \A k \in Index : r[k] = SumOver(f(k), some)
  <2>1. \A k \in Index : Sum(f(k)) = SumOver(f(k), some)
    <3>1. \A k \in Index : DOMAIN f(k) = some
      OBVIOUS
    <3> HIDE DEF f, some
    <3> QED
      BY <3>1, SumIsOver
  <2> HIDE DEF f, some
  <2> QED
    BY <2>1 DEF Index
<1> HIDE DEF r, f, some
<1>5. FromTowers(r) = s
  BY <1>3, <1>4, Interpolates
<1> QED
  BY <1>1, <1>5

-----------------------------------------------------------------------------
(* The inductive invariant: what each variable holds, that the shares are  *)
(* those of the keys, and that nothing is computed before all have joined. *)

Keys == [b : 0 .. Q[Full] - 1, a : 0 .. Q[Full] - 1]
Ciphertexts == [elements : [1 .. 2 -> Int], towers : Index]
Reduced(c) == \A e \in 1 .. 2 : c.elements[e] \in 0 .. Q[c.towers] - 1
Refreshes == [input : Ciphertexts, a : 0 .. Q[Full] - 1, pairs : Seq([1 .. 2 -> Int]),
              sum : {None} \cup [1 .. 2 -> Int], adds : Nat]
ShareSets == {ShareKeys(s, i, tape) : s \in Secrets, i \in Parties, tape \in Tapes}

KeysShared ==
  /\ scheme \in Schemes /\ alive \subseteq Parties
  /\ secretKeys \in Seq(Secrets) /\ Len(secretKeys) <= scheme.parties
  /\ shares \in Seq(ShareSets) /\ Len(shares) = Len(secretKeys)
  /\ \A i \in 1 .. Len(secretKeys) : \E tape \in Tapes : shares[i] = ShareKeys(secretKeys[i], i, tape)

KeysTyped ==
  /\ multipliers \in 0 .. scheme.parties
  /\ IF secretKeys = <<>> THEN publicKey = None /\ evalKey = None
     ELSE publicKey \in Keys /\ evalKey \in Keys
  /\ IF multipliers = 0 THEN multKey = None ELSE multKey \in Keys

CiphertextsTyped ==
  /\ ciphertexts \in Seq(Ciphertexts)
  /\ \A k \in DOMAIN ciphertexts : Reduced(ciphertexts[k]) /\ ciphertexts[k].towers = Full
  /\ ciphertexts # <<>> => Len(secretKeys) = scheme.parties

RefreshTyped ==
  refresh # None => /\ refresh \in Refreshes /\ Reduced(refresh.input)
                    /\ refresh.input.towers = NumTowersToKeep
                    /\ Len(secretKeys) = scheme.parties

TInv == KeysShared /\ KeysTyped /\ CiphertextsTyped /\ RefreshTyped

(* Numbers and their residues.                                             *)
LEMMA QMod ==
  ASSUME NEW t \in 0 .. Full, NEW x \in Int
  PROVE  /\ Q[t] \in Nat \ {0} /\ Q[t] \in Int
         /\ x % Q[t] \in 0 .. Q[t] - 1 /\ x % Q[t] \in Int /\ Congruent(x % Q[t], x, Q[t])
PROOF
<1>1. Q[t] \in Nat \ {0}
  BY QFacts
<1>2. x % Q[t] \in 0 .. Q[t] - 1 /\ Congruent(x % Q[t], x, Q[t])
  BY <1>1, CongruentMod, Zenon
<1> HIDE DEF Q
<1> QED
  BY <1>1, <1>2

LEMMA CentredFacts ==
  ASSUME NEW x \in Int, NEW m \in Nat \ {0}
  PROVE  /\ Centred(x, m) \in Int /\ Congruent(Centred(x, m), x, m)
         /\ 2 * Centred(x, m) < m /\ - m <= 2 * Centred(x, m)
PROOF
<1> DEFINE r == x % m
<1>1. r \in 0 .. m - 1 /\ Congruent(r, x, m)
  BY CongruentMod, Zenon
<1>2. Centred(x, m) = IF 2 * r < m THEN r ELSE r - m
  BY DEF Centred
<1> HIDE DEF r
<1>3. r \in Int /\ m \in Int /\ r - m \in Int
  BY <1>1
<1>4. Congruent(r - m, r, m)
  <2>1. -1 \in Int /\ r - m = r + (-1) * m
    BY <1>3
  <2> QED
    BY <2>1 DEF Congruent
<1>5. Congruent(r - m, x, m)
  BY <1>1, <1>3, <1>4, CongruentTrans
<1>6. Centred(x, m) \in Int /\ Congruent(Centred(x, m), x, m)
  BY <1>1, <1>2, <1>3, <1>5
<1>7. 2 * Centred(x, m) < m /\ - m <= 2 * Centred(x, m)
  BY <1>1, <1>2, <1>3
<1> QED
  BY <1>6, <1>7

(* Two numbers with the same residue are the same when centred.            *)
LEMMA CentredEqual ==
  ASSUME NEW x \in Int, NEW y \in Int, NEW m \in Nat \ {0}, Congruent(x, y, m)
  PROVE  Centred(x, m) = Centred(y, m)
PROOF
<1>1. x % m = y % m
  BY CongruentModEqual
<1> QED
  BY <1>1 DEF Centred

(* A small number is what is left of it.                                   *)
LEMMA CentredSmall ==
  ASSUME NEW x \in Int, NEW y \in Int, NEW m \in Nat \ {0}, Congruent(x, y, m),
         2 * y < m, - m < 2 * y
  PROVE  Centred(x, m) = y
PROOF
<1> DEFINE z == Centred(x, m)
<1>1. z \in Int /\ Congruent(z, x, m) /\ 2 * z < m /\ - m <= 2 * z
  BY CentredFacts
<1> HIDE DEF z
<1>2. Congruent(z, y, m)
  BY <1>1, CongruentTrans
<1>3. z - y < m /\ y - z < m
  BY <1>1
<1>4. z = y
  BY <1>1, <1>2, <1>3, CongruentClose
<1> QED
  BY <1>4 DEF z

LEMMA FromTowersReduced ==
  ASSUME NEW r, \A k \in Index : r[k] \in Int
  PROVE  FromTowers(r) \in 0 .. Q[Full] - 1 /\ FromTowers(r) \in Int
PROOF
<1> DEFINE f == [k \in 1 .. Full |-> r[k] * Units[k]]
           total == SumOver(f, Index)
<1>1. FromTowers(r) = total % Q[Full]
  <2>1. DOMAIN f = Index
    BY DEF Index
  <2> QED
    BY <2>1, SumIsOver DEF FromTowers
<1>2. \A k \in Index : f[k] \in Int
  BY UnitsFacts DEF Index
<1> HIDE DEF f
<1>3. total \in Int
  BY <1>2, IndexFinite, SumInt
<1> HIDE DEF total
<1>4. Full \in 0 .. Full
  BY FullFacts
<1>5. total % Q[Full] \in 0 .. Q[Full] - 1 /\ total % Q[Full] \in Int
  BY <1>3, <1>4, QMod
<1> QED
  BY <1>1, <1>5

LEMMA PartiesFinite ==
  ASSUME scheme \in Schemes
  PROVE  /\ scheme.parties \in Nat /\ scheme.parties >= 2
         /\ Parties = 1 .. scheme.parties /\ IsFiniteSet(Parties) /\ Cardinality(Parties) = scheme.parties
         /\ \A i \in Parties : i \in Nat
PROOF
<1>1. scheme.parties \in Nat /\ scheme.parties >= 2
  BY SchemeFacts
<1>2. scheme.parties \in Int /\ 1 \in Int /\ ~ 1 > scheme.parties /\ scheme.parties - 1 + 1 = scheme.parties
  BY <1>1
<1>3. /\ IsFiniteSet(1 .. scheme.parties)
      /\ Cardinality(1 .. scheme.parties) = IF 1 > scheme.parties THEN 0 ELSE scheme.parties - 1 + 1
  BY <1>2, FS_Interval
<1>4. \A i \in 1 .. scheme.parties : i \in Nat
  BY <1>1
<1> QED
  BY <1>1, <1>2, <1>3, <1>4 DEF Parties

(* Every share is a number, and so is the key that shares give.            *)
LEMMA ShareInt ==
  ASSUME scheme \in Schemes, NEW i \in Parties, NEW s \in Int, NEW tape \in Tapes,
         NEW j \in Parties \ {i}, NEW k \in Index
  PROVE  ShareKeys(s, i, tape)[j][k] \in Int
PROOF
<1> DEFINE q == Moduli[k]
           n == scheme.threshold - 1
           D == 1 .. n
<1>0. /\ q \in Nat \ {0} /\ q \in Int /\ k \in 1 .. Full /\ n \in Nat /\ Word \in Nat \ {0}
      /\ \A d \in D : tape[d] \in Int
      /\ \A d \in 1 .. scheme.parties - 2 : tape[d] \in Int
      /\ scheme.parties \in Nat /\ scheme.parties >= 2 /\ j \in Nat /\ j \in 1 .. scheme.parties /\ j # i /\ i \in 1 .. scheme.parties
  <2>1. q \in Nat \ {0} /\ q \in Int /\ k \in 1 .. Full /\ Word \in Nat \ {0}
    BY FullFacts, ModuliAssumption DEF Index
  <2>2. n \in Nat /\ (\A d \in D : tape[d] \in Int) /\ \A d \in 1 .. scheme.parties - 2 : tape[d] \in Int
    BY SchemeFacts
  <2>3. scheme.parties \in Nat /\ scheme.parties >= 2 /\ i \in 1 .. scheme.parties
        /\ j \in 1 .. scheme.parties /\ j # i /\ j \in Nat
    BY PartiesFinite
  <2> QED
    BY <2>1, <2>2, <2>3
<1>1. \A u \in Int : u % q \in Int
  <2>1. \A u \in Int : u % q \in 0 .. q - 1
    BY <1>0, CongruentMod, Zenon
  <2> QED
    BY <1>0, <2>1
<1>2. CASE scheme.shareType # "additive"
  <2> DEFINE p == Powers(j, n, q)
             terms == [d \in D |-> (p[d] * tape[d]) % q]
  <2>1. ShareKeys(s, i, tape)[j][k] = ModAddFast(Sum(terms) % Word, s % q, q)
    BY <1>0, <1>2 DEF ShareKeys, ShamirShare
  <2>2. \A d \in D : p[d] \in Int
    <3>1. \A d \in 0 .. n : p[d] \in Int
      <4> HIDE DEF n
      <4> QED
        BY <1>0, PowersFacts
    <3>2. \A d \in D : d \in 0 .. n
      BY <1>0
    <3> QED
      BY <3>1, <3>2
  <2> HIDE DEF p, q
  <2>3. \A d \in D : p[d] * tape[d] \in Int
    BY <1>0, <2>2
  <2>4. \A d \in D : terms[d] \in Int
    BY <1>1, <2>3
  <2>5. IsFiniteSet(D)
    <3>1. 1 \in Int /\ n \in Int
      BY <1>0
    <3> HIDE DEF n
    <3> QED
      BY <3>1, FS_Interval
  <2>6. Sum(terms) = SumOver(terms, D)
    BY SumIsOver
  <2> HIDE DEF terms, D
  <2>7. Sum(terms) \in Int
    BY <2>4, <2>5, <2>6, SumInt
  <2> DEFINE T == Sum(terms) % Word
             r == s % q
  <2>8. T \in Int /\ r \in Int
    <3>1. T \in 0 .. Word - 1
      BY <1>0, <2>7, CongruentMod, Zenon
    <3> QED
      BY <1>0, <1>1, <3>1
  <2> HIDE DEF T, r
  <2>9. (T + r) % Word \in Int
    <3>1. T + r \in Int
      BY <2>8
    <3> DEFINE u == T + r
    <3>2. u \in Int
      BY <3>1
    <3> HIDE DEF u
    <3>3. u % Word \in 0 .. Word - 1
      BY <1>0, <3>2, CongruentMod, Zenon
    <3>4. u % Word \in Int
      BY <1>0, <3>3
    <3> QED
      BY <3>4 DEF u
  <2>10. ModAddFast(T, r, q) \in Int
    <3> DEFINE v == (T + r) % Word
    <3>1. ModAddFast(T, r, q) = IF v >= q THEN v - q ELSE v
      BY DEF ModAddFast
    <3>2. v \in Int
      BY <2>9
    <3> HIDE DEF v
    <3> QED
      BY <1>0, <3>1, <3>2
  <2> QED
    BY <2>1, <2>10 DEF T, r
<1>3. CASE scheme.shareType = "additive"
  <2> DEFINE pos == IF j < i THEN j ELSE j - 1
             E == 1 .. scheme.parties - 2
             drawn == [d \in E |-> tape[d]]
  <2>1. ShareKeys(s, i, tape)[j] = AdditiveShare(s, tape, pos)
    BY <1>3 DEF ShareKeys
  <2>2. pos \in 1 .. scheme.parties - 1
    BY <1>0
  <2>3. Sum(drawn) = SumOver(drawn, E)
    BY SumIsOver
  <2>4. IsFiniteSet(E) /\ \A d \in E : drawn[d] \in Int
    <3>1. 1 \in Int /\ scheme.parties - 2 \in Int
      BY <1>0
    <3>2. IsFiniteSet(E)
      <4> DEFINE z == scheme.parties - 2
      <4>1. z \in Int
        BY <3>1
      <4> HIDE DEF z
      <4> QED
        BY <3>1, <4>1, FS_Interval DEF z
    <3> QED
      BY <1>0, <3>2
  <2>5. Sum(drawn) \in Int
    <3> HIDE DEF drawn, E
    <3> QED
      BY <2>3, <2>4, SumInt
  <2>6. CASE pos = 1 \/ pos < scheme.parties - 1
    <3>1. AdditiveShare(s, tape, pos) = Towers(tape[pos])
      BY <2>6 DEF AdditiveShare
    <3>2. tape[pos] \in Int
      <4>1. pos = 1 \/ pos \in 1 .. scheme.parties - 2
        BY <1>0, <2>2, <2>6
      <4>2. 1 \in D
        <5>1. n >= 1
          BY SchemeFacts
        <5> QED
          BY <1>0, <5>1
      <4>3. tape[1] \in Int
        BY <1>0, <4>2
      <4> HIDE DEF pos
      <4> QED
        BY <1>0, <4>1, <4>3
    <3>3. Towers(tape[pos])[k] = tape[pos] % q
      BY <1>0 DEF Towers
    <3> HIDE DEF pos, q
    <3> QED
      BY <1>1, <2>1, <3>1, <3>2, <3>3
  <2>7. CASE ~ (pos = 1 \/ pos < scheme.parties - 1)
    <3>1. AdditiveShare(s, tape, pos) = Towers(s - Sum(drawn))
      BY <2>7 DEF AdditiveShare
    <3>2. Towers(s - Sum(drawn))[k] = (s - Sum(drawn)) % q /\ s - Sum(drawn) \in Int
      BY <1>0, <2>5 DEF Towers
    <3> HIDE DEF pos, q, drawn
    <3> QED
      BY <1>1, <2>1, <3>1, <3>2
  <2> QED
    BY <2>6, <2>7
<1> QED
  BY <1>2, <1>3

LEMMA PartiesApart ==
  ASSUME scheme \in Schemes, NEW A, A \subseteq Parties, NEW k \in Index
  PROVE  Apart(A, k)
PROOF
<1> DEFINE q == Moduli[k]
<1>0. q \in Nat \ {0} /\ scheme.parties \in Nat /\ scheme.parties < q
  BY FullFacts, SchemeFacts
<1>1. A \subseteq 1 .. scheme.parties /\ A \subseteq Nat /\ IsFiniteSet(A)
  BY PartiesFinite, FS_Subset
<1>2. ASSUME NEW i \in A, NEW j \in A, i # j PROVE (i - j) % q # 0
  <2>0. i \in 1 .. scheme.parties /\ j \in 1 .. scheme.parties /\ i \in Int /\ j \in Int
    BY <1>1
  <2>1. i - j \in Int /\ i - j < q /\ j - i < q /\ 0 \in Int /\ i - j - 0 < q /\ 0 - (i - j) < q
    BY <1>0, <2>0
  <2> HIDE DEF q
  <2>2. ASSUME (i - j) % q = 0 PROVE FALSE
    <3>1. 0 % q = 0
      BY <1>0
    <3>2. Congruent(i - j, 0, q)
      BY <1>0, <2>1, <2>2, <3>1, CongruentModEqual
    <3>3. i - j = 0
      BY <1>0, <2>1, <3>2, CongruentClose
    <3> QED
      BY <1>2, <2>0, <3>3
  <2> QED
    BY <2>2
<1> QED
  BY <1>1, <1>2 DEF Apart

LEMMA SecretFacts ==
  \A s \in Secrets : s \in 0 .. Q[Full] - 1 /\ s \in Int
PROOF
<1>1. Q[Full] \in Int
  BY QFacts, FullFacts
<1>2. \A s \in Secrets : s \in 0 .. Q[Full] - 1
  BY ValuesAssumption
<1> QED
  BY <1>1, <1>2

LEMMA RecoveredInt ==
  ASSUME KeysShared, NEW i \in 1 .. Len(secretKeys), NEW holders, holders \subseteq Parties
  PROVE  RecoverSharedKey(i, holders) \in Int
PROOF
<1> DEFINE A == holders \ {i}
           additive == scheme.shareType = "additive"
           some == IF additive THEN Smallest(A, scheme.threshold) ELSE A
           c(j, k) == IF additive THEN 1 ELSE Lagrange(j, some, k)
           f(k) == [j \in some |-> (c(j, k) * shares[i][j][k]) % Moduli[k]]
           r == [k \in 1 .. Full |-> Sum(f(k))]
<1>0. /\ scheme \in Schemes /\ i \in Parties /\ secretKeys[i] \in Int
      /\ some \subseteq Parties \ {i} /\ IsFiniteSet(some) /\ some \subseteq Parties
  <2>1. scheme \in Schemes /\ secretKeys \in Seq(Secrets) /\ Len(secretKeys) <= scheme.parties
    BY DEF KeysShared
  <2>2. Len(secretKeys) \in Nat /\ secretKeys[i] \in Secrets
    BY <2>1
  <2>3. i \in Parties
    <3>1. scheme.parties \in Nat
      BY <2>1, PartiesFinite
    <3> QED
      BY <2>1, <2>2, <3>1 DEF Parties
  <2>4. some \subseteq Parties \ {i}
    BY DEF Smallest
  <2>5. some \in SUBSET Parties
    BY <2>4
  <2>6. IsFiniteSet(some)
    <3> HIDE DEF some
    <3> QED
      BY <2>1, <2>5, PartiesFinite, FS_Subset
  <2> HIDE DEF some
  <2> QED
    BY <2>1, <2>2, <2>3, <2>4, <2>5, <2>6, SecretFacts
<1>1. RecoverSharedKey(i, holders) = FromTowers(r)
  BY DEF RecoverSharedKey
<1>2. PICK tape \in Tapes : shares[i] = ShareKeys(secretKeys[i], i, tape)
  BY DEF KeysShared
<1>3. ASSUME NEW k \in Index PROVE Sum(f(k)) \in Int
  <2>1. ASSUME NEW j \in some PROVE f(k)[j] \in Int
    <3> DEFINE x == c(j, k)
               y == shares[i][j][k]
               q == Moduli[k]
    <3>1. x \in Int
      <4>1. Apart(some, k)
        <5> HIDE DEF some
        <5> QED
          BY <1>0, PartiesApart
      <4>2. Lagrange(j, some, k) \in Int
        <5> HIDE DEF some
        <5> QED
          BY <2>1, <4>1, LagrangeValue
      <4> QED
        BY <4>2
    <3>2. y \in Int
      <4> HIDE DEF some
      <4> QED
        BY <1>0, <1>2, ShareInt
    <3>3. f(k)[j] = (x * y) % q
      OBVIOUS
    <3>4. q \in Nat \ {0}
      BY FullFacts
    <3> HIDE DEF x, y, q, f
    <3>5. x * y \in Int
      BY <3>1, <3>2
    <3>6. (x * y) % q \in 0 .. q - 1
      BY <3>4, <3>5, CongruentMod, Zenon
    <3> QED
      BY <3>3, <3>4, <3>6
  <2>2. Sum(f(k)) = SumOver(f(k), some)
    <3>1. DOMAIN f(k) = some
      OBVIOUS
    <3> HIDE DEF f, some
    <3> QED
      BY <3>1, SumIsOver
  <2> DEFINE g == f(k)
  <2>3. \A j \in some : g[j] \in Int
    BY <2>1
  <2> HIDE DEF g, some
  <2>4. SumOver(g, some) \in Int
    BY <1>0, <2>3, SumInt
  <2> QED
    BY <2>2, <2>4 DEF g
<1>4. \A k \in Index : r[k] \in Int
  <2> HIDE DEF f
  <2> QED
    BY <1>3 DEF Index
<1> HIDE DEF r
<1> QED
  BY <1>1, <1>4, FromTowersReduced

LEMMA KeyOfInt ==
  ASSUME KeysShared, NEW i \in 1 .. Len(secretKeys)
  PROVE  KeyOf(i) \in Int
PROOF
<1>1. secretKeys[i] \in Int
  BY SecretFacts DEF KeysShared
<1>2. RecoverSharedKey(i, alive) \in Int
  BY RecoveredInt DEF KeysShared
<1> QED
  BY <1>1, <1>2 DEF KeyOf

\* A key that is used is the one its owner generated.
LEMMA KeyOfOwner ==
  ASSUME KeysShared, SumsFit, AllShares, NEW i \in 1 .. Len(secretKeys), CanAct(i)
  PROVE  KeyOf(i) = secretKeys[i]
PROOF
<1>1. CASE i \in alive
  BY <1>1 DEF KeyOf
<1>2. CASE i \notin alive
  <2>1. Recoverable(i, alive) /\ KeyOf(i) = RecoverSharedKey(i, alive)
    BY <1>2 DEF CanAct, KeyOf
  <2>2. PICK tape \in Tapes : shares[i] = ShareKeys(secretKeys[i], i, tape)
    BY DEF KeysShared
  <2>3. scheme \in Schemes /\ alive \subseteq Parties /\ secretKeys[i] \in Secrets
    BY DEF KeysShared
  <2>4. i \in Parties
    <3>1. scheme.parties \in Nat /\ Len(secretKeys) \in Nat /\ Len(secretKeys) <= scheme.parties
      BY <2>3, PartiesFinite DEF KeysShared
    <3> QED
      BY <3>1 DEF Parties
  <2>5. secretKeys[i] \in 0 .. Q[Full] - 1
    BY <2>3, SecretFacts
  <2> QED
    BY <2>1, <2>2, <2>3, <2>4, <2>5, KeyRecovered
<1> QED
  BY <1>1, <1>2

(* While the scheme stays, so does what a share is.                        *)
LEMMA SharesStay ==
  ASSUME scheme' = scheme
  PROVE  /\ Parties' = Parties
         /\ \A s, i, tape : ShareKeys(s, i, tape)' = ShareKeys(s, i, tape)
         /\ ShareSets' = ShareSets
PROOF
<1>1. Parties' = Parties
  BY DEF Parties
<1>2. \A s, draws, p : AdditiveShare(s, draws, p)' = AdditiveShare(s, draws, p)
  BY DEF AdditiveShare
<1>3. \A s, draws, p : ShamirShare(s, draws, p)' = ShamirShare(s, draws, p)
  BY DEF ShamirShare
<1>4. \A s, i, tape : ShareKeys(s, i, tape)' = ShareKeys(s, i, tape)
  BY <1>1, <1>2, <1>3 DEF ShareKeys
<1>5. ShareSets' = ShareSets
  BY <1>1, <1>4 DEF ShareSets
<1> QED
  BY <1>1, <1>4, <1>5

LEMMA SharesKept ==
  ASSUME KeysShared, UNCHANGED <<scheme, secretKeys, shares>>, alive' \subseteq alive
  PROVE  KeysShared'
PROOF
<1>1. Parties' = Parties /\ ShareSets' = ShareSets
      /\ \A s, i, tape : ShareKeys(s, i, tape)' = ShareKeys(s, i, tape)
  BY SharesStay
<1>2. scheme' \in Schemes /\ alive' \subseteq Parties'
  BY <1>1 DEF KeysShared
<1>3. secretKeys' \in Seq(Secrets) /\ Len(secretKeys') <= scheme'.parties
      /\ shares' \in Seq(ShareSets') /\ Len(shares') = Len(secretKeys')
  BY <1>1 DEF KeysShared
<1>4. \A i \in 1 .. Len(secretKeys') : \E tape \in Tapes :
        shares'[i] = ShareKeys(secretKeys[i], i, tape)'
  BY <1>1 DEF KeysShared
<1> QED
  BY <1>2, <1>3, <1>4 DEF KeysShared

LEMMA TapeFacts ==
  ASSUME NEW tape \in Tapes
  PROVE  /\ tape[1] \in 0 .. Q[Full] - 1 /\ tape[2] \in 0 .. Q[Full] - 1
         /\ tape[1] \in Int /\ tape[2] \in Int
PROOF
<1> DEFINE R == 0 .. Q[Full] - 1
<1>1. tape \in Seq(R) /\ Len(tape) >= 2
  BY ValuesAssumption
<1>2. \A u \in R : u \in Int
  BY QFacts, FullFacts
<1> HIDE DEF R
<1>3. Len(tape) \in Nat /\ tape \in [1 .. Len(tape) -> R]
  BY <1>1
<1>4. 1 \in 1 .. Len(tape) /\ 2 \in 1 .. Len(tape)
  BY <1>1, <1>3
<1>5. tape[1] \in R /\ tape[2] \in R
  BY <1>3, <1>4
<1> QED
  BY <1>2, <1>5 DEF R

LEMMA ShareStep ==
  ASSUME KeysShared, NEW s \in Secrets, NEW tape \in Tapes, Share(s, tape),
         Len(secretKeys) < scheme.parties
  PROVE  KeysShared' /\ secretKeys' # <<>> /\ Len(secretKeys') = Len(secretKeys) + 1
         /\ \A i \in 1 .. Len(secretKeys) : secretKeys'[i] = secretKeys[i]
         /\ secretKeys'[Len(secretKeys) + 1] = s
PROOF
<1> DEFINE n == Len(secretKeys)
           share == ShareKeys(s, n + 1, tape)
<1>0. /\ scheme' = scheme /\ alive' = alive /\ scheme \in Schemes
      /\ secretKeys' = Append(secretKeys, s) /\ shares' = Append(shares, share)
  BY DEF Share, KeysShared
<1>1. /\ Parties' = Parties /\ ShareSets' = ShareSets
      /\ \A v, i, t : ShareKeys(v, i, t)' = ShareKeys(v, i, t)
  BY <1>0, SharesStay
<1>2. /\ n \in Nat /\ scheme.parties \in Nat /\ n + 1 \in Parties /\ secretKeys \in Seq(Secrets)
      /\ shares \in Seq(ShareSets) /\ Len(shares) = n
  BY <1>0, PartiesFinite DEF KeysShared, Parties
<1>3. share \in ShareSets
  BY <1>2 DEF ShareSets
<1> HIDE DEF share
<1>4. /\ secretKeys' \in Seq(Secrets) /\ Len(secretKeys') = n + 1
      /\ \A i \in 1 .. n : secretKeys'[i] = secretKeys[i]
      /\ secretKeys'[n + 1] = s
  BY <1>0, <1>2
<1>5. /\ shares' \in Seq(ShareSets) /\ Len(shares') = n + 1
      /\ \A i \in 1 .. n : shares'[i] = shares[i]
      /\ shares'[n + 1] = share
  BY <1>0, <1>2, <1>3
<1>6. secretKeys' # <<>>
  BY <1>2, <1>4
<1>7. ASSUME NEW i \in 1 .. Len(secretKeys')
      PROVE  \E t \in Tapes : shares'[i] = ShareKeys(secretKeys[i], i, t)'
  <2>1. CASE i = n + 1
    <3>1. shares'[i] = ShareKeys(secretKeys'[i], i, tape)
      BY <1>4, <1>5, <2>1 DEF share
    <3> QED
      BY <1>1, <3>1
  <2>2. CASE i # n + 1
    <3>1. i \in 1 .. n
      BY <1>2, <1>4, <2>2
    <3>2. PICK t \in Tapes : shares[i] = ShareKeys(secretKeys[i], i, t)
      BY <3>1 DEF KeysShared
    <3>3. shares'[i] = ShareKeys(secretKeys'[i], i, t)
      BY <1>4, <1>5, <3>1, <3>2
    <3> QED
      BY <1>1, <3>3
  <2> QED
    BY <2>1, <2>2
<1>8. scheme' \in Schemes /\ alive' \subseteq Parties' /\ Len(secretKeys') <= scheme'.parties
  BY <1>0, <1>1, <1>2, <1>4 DEF KeysShared
<1>9. shares' \in Seq(ShareSets') /\ Len(shares') = Len(secretKeys')
  BY <1>1, <1>4, <1>5
<1>10. KeysShared'
  BY <1>4, <1>7, <1>8, <1>9 DEF KeysShared
<1> QED
  BY <1>4, <1>6, <1>10

\* A sum of keys, and a key from numbers.
LEMMA KeyFacts ==
  /\ \A x, y \in Int : [b |-> x % Q[Full], a |-> y % Q[Full]] \in Keys
  /\ \A x \in Int, y \in 0 .. Q[Full] - 1 : [b |-> x % Q[Full], a |-> y] \in Keys
  /\ \A key \in Keys : /\ key.b \in Int /\ key.a \in Int /\ key = [b |-> key.b, a |-> key.a]
                       /\ key.a \in 0 .. Q[Full] - 1
PROOF
<1>1. Full \in 0 .. Full /\ Q[Full] \in Int
  BY FullFacts, QFacts
<1>2. \A x \in Int : x % Q[Full] \in 0 .. Q[Full] - 1
  BY <1>1, QMod
<1> DEFINE R == 0 .. Q[Full] - 1
<1>3. \A v \in R : v \in Int
  BY <1>1
<1>4. Keys = [b : R, a : R]
  BY DEF Keys
<1>5. \A x \in Int : x % Q[Full] \in R
  BY <1>2
<1> HIDE DEF R
<1>6. \A x, y \in Int : [b |-> x % Q[Full], a |-> y % Q[Full]] \in Keys
  BY <1>4, <1>5
<1>7. \A x \in Int, y \in R : [b |-> x % Q[Full], a |-> y] \in Keys
  BY <1>4, <1>5
<1>8. \A key \in Keys : /\ key.b \in Int /\ key.a \in Int /\ key = [b |-> key.b, a |-> key.a] /\ key.a \in R
  BY <1>3, <1>4
<1> QED
  BY <1>6, <1>7, <1>8 DEF R

LEMMA AddFacts ==
  ASSUME NEW key1 \in Keys, NEW key2 \in Keys
  PROVE  /\ AddB(key1, key2) = [b |-> (key1.b + key2.b) % Q[Full], a |-> key1.a]
         /\ AddB(key1, key2) \in Keys
         /\ MultiAddEvalMultKeys(key1, key2) =
              [b |-> (key1.b + key2.b) % Q[Full], a |-> (key1.a + key2.a) % Q[Full]]
         /\ MultiAddEvalMultKeys(key1, key2) \in Keys
PROOF
<1> DEFINE x == key1.b + key2.b
           y == key1.a + key2.a
<1>1. key1 = [b |-> key1.b, a |-> key1.a] /\ x \in Int /\ y \in Int /\ key1.a \in 0 .. Q[Full] - 1
  BY KeyFacts
<1>2. AddB(key1, key2) = [b |-> x % Q[Full], a |-> key1.a]
  BY <1>1 DEF AddB
<1>3. MultiAddEvalMultKeys(key1, key2) = [b |-> x % Q[Full], a |-> y % Q[Full]]
  BY <1>2 DEF MultiAddEvalMultKeys
<1> HIDE DEF x, y
<1>4. AddB(key1, key2) \in Keys /\ MultiAddEvalMultKeys(key1, key2) \in Keys
  BY <1>1, <1>2, <1>3, KeyFacts
<1> QED
  BY <1>2, <1>3, <1>4 DEF x, y

LEMMA CiphertextFacts ==
  /\ \A x, y \in Int, t \in Index :
       LET c == [elements |-> <<x % Q[t], y % Q[t]>>, towers |-> t]
       IN  c \in Ciphertexts /\ Reduced(c)
  /\ \A x \in Int, y \in 0 .. Q[Full] - 1 :
       LET c == [elements |-> <<x % Q[Full], y>>, towers |-> Full]
       IN  c \in Ciphertexts /\ Reduced(c)
  /\ \A c \in Ciphertexts : /\ c.elements[1] \in Int /\ c.elements[2] \in Int
                            /\ c.towers \in Index
PROOF
<1>1. /\ \A t \in Index : t \in 0 .. Full /\ Q[t] \in Int
      /\ Full \in Index
  BY FullFacts, QFacts DEF Index
<1>2. \A x \in Int, t \in Index : x % Q[t] \in 0 .. Q[t] - 1 /\ x % Q[t] \in Int
  BY <1>1, QMod
<1>3. ASSUME NEW u \in Int, NEW v \in Int, NEW t \in Index, u \in 0 .. Q[t] - 1, v \in 0 .. Q[t] - 1
      PROVE  LET c == [elements |-> <<u, v>>, towers |-> t]
             IN  c \in Ciphertexts /\ Reduced(c)
  <2> DEFINE c == [elements |-> <<u, v>>, towers |-> t]
  <2>1. <<u, v>> \in [1 .. 2 -> Int]
    BY <1>3
  <2>2. c \in Ciphertexts
    BY <2>1 DEF Ciphertexts
  <2>3. \A e \in 1 .. 2 : e = 1 \/ e = 2
    OBVIOUS
  <2>4. Reduced(c)
    BY <1>3, <2>3 DEF Reduced
  <2> QED
    BY <2>2, <2>4
<1>4. \A y \in 0 .. Q[Full] - 1 : y \in Int
  BY <1>1
<1>5. \A c \in Ciphertexts : /\ c.elements[1] \in Int /\ c.elements[2] \in Int /\ c.towers \in Index
  BY DEF Ciphertexts
<1>6. ASSUME NEW x \in Int, NEW y \in Int, NEW t \in Index
      PROVE  LET c == [elements |-> <<x % Q[t], y % Q[t]>>, towers |-> t]
             IN  c \in Ciphertexts /\ Reduced(c)
  BY <1>2, <1>3
<1>7. ASSUME NEW x \in Int, NEW y \in 0 .. Q[Full] - 1
      PROVE  LET c == [elements |-> <<x % Q[Full], y>>, towers |-> Full]
             IN  c \in Ciphertexts /\ Reduced(c)
  BY <1>1, <1>2, <1>3, <1>4
<1> QED
  BY <1>5, <1>6, <1>7

\* Storing a reduced ciphertext.
LEMMA StoreStep ==
  ASSUME TInv, NEW c \in Ciphertexts, Reduced(c), c.towers = Full, Store(c)
  PROVE  /\ KeysShared' /\ KeysTyped' /\ CiphertextsTyped'
         /\ Len(ciphertexts') = Len(ciphertexts) + 1 /\ Len(ciphertexts) \in Nat
         /\ \A k \in 1 .. Len(ciphertexts) : ciphertexts'[k] = ciphertexts[k]
         /\ ciphertexts'[Len(ciphertexts) + 1] = c
         /\ DOMAIN ciphertexts = 1 .. Len(ciphertexts)
         /\ DOMAIN ciphertexts' = 1 .. Len(ciphertexts) + 1
PROOF
<1>1. /\ UNCHANGED keyVars /\ UNCHANGED <<multKey, multipliers, alive>>
      /\ ciphertexts' = Append(ciphertexts, c) /\ DOMAIN secretKeys = Parties
      /\ ciphertexts \in Seq(Ciphertexts)
  BY DEF Store, Joined, TInv, CiphertextsTyped
<1>2. KeysShared'
  <2>1. UNCHANGED <<scheme, secretKeys, shares>> /\ alive' \subseteq alive
    BY <1>1 DEF keyVars
  <2> QED
    BY <2>1, SharesKept DEF TInv
<1>3. KeysTyped'
  BY <1>1 DEF KeysTyped, TInv, keyVars, Keys
<1>4. /\ Len(ciphertexts) \in Nat /\ ciphertexts' \in Seq(Ciphertexts)
      /\ Len(ciphertexts') = Len(ciphertexts) + 1
      /\ \A k \in 1 .. Len(ciphertexts) : ciphertexts'[k] = ciphertexts[k]
      /\ ciphertexts'[Len(ciphertexts) + 1] = c
      /\ DOMAIN ciphertexts = 1 .. Len(ciphertexts)
      /\ DOMAIN ciphertexts' = 1 .. Len(ciphertexts) + 1
  BY <1>1
<1>5. Len(secretKeys) = scheme.parties /\ scheme' = scheme /\ secretKeys' = secretKeys
  <2>1. secretKeys \in Seq(Secrets) /\ scheme \in Schemes
    BY DEF TInv, KeysShared
  <2>2. DOMAIN secretKeys = 1 .. Len(secretKeys) /\ Len(secretKeys) \in Nat
    BY <2>1
  <2>3. Parties = 1 .. scheme.parties /\ scheme.parties \in Nat
    BY <2>1, PartiesFinite
  <2>4. 1 .. Len(secretKeys) = 1 .. scheme.parties
    BY <1>1, <2>2, <2>3
  <2>5. Len(secretKeys) <= scheme.parties /\ scheme.parties <= Len(secretKeys)
    <3>1. Len(secretKeys) = 0 \/ Len(secretKeys) \in 1 .. Len(secretKeys)
      BY <2>2
    <3>2. scheme.parties = 0 \/ scheme.parties \in 1 .. scheme.parties
      BY <2>3
    <3> QED
      BY <2>2, <2>3, <2>4, <3>1, <3>2
  <2>6. Len(secretKeys) = scheme.parties
    BY <2>2, <2>3, <2>5
  <2> QED
    BY <1>1, <2>6 DEF keyVars
<1>6. ASSUME NEW k \in DOMAIN ciphertexts' PROVE Reduced(ciphertexts'[k]) /\ ciphertexts'[k].towers = Full
  <2>1. CASE k = Len(ciphertexts) + 1
    BY <1>4, <2>1
  <2>2. CASE k # Len(ciphertexts) + 1
    <3>1. k \in 1 .. Len(ciphertexts)
      BY <1>4, <2>2
    <3>2. Reduced(ciphertexts[k]) /\ ciphertexts[k].towers = Full
      BY <1>4, <3>1 DEF TInv, CiphertextsTyped
    <3> QED
      BY <1>4, <3>1, <3>2
  <2> QED
    BY <2>1, <2>2
<1>7. CiphertextsTyped'
  <2>1. \A k \in DOMAIN ciphertexts' : Reduced(ciphertexts[k])' /\ ciphertexts'[k].towers = Full
    BY <1>6 DEF Reduced
  <2> QED
    BY <1>4, <1>5, <2>1 DEF CiphertextsTyped
<1> QED
  BY <1>2, <1>3, <1>4, <1>7

LEMMA TInvInit == Init => TInv
PROOF
<1> SUFFICES ASSUME Init PROVE TInv
  OBVIOUS
<1>1. scheme \in Schemes /\ scheme.parties \in Nat
  BY SchemeFacts DEF Init
<1>2. secretKeys = <<>> /\ shares = <<>> /\ ciphertexts = <<>> /\ multipliers = 0
      /\ publicKey = None /\ evalKey = None /\ multKey = None /\ refresh = None
      /\ alive = 1 .. scheme.parties
  BY DEF Init
<1>3. KeysShared
  BY <1>1, <1>2 DEF KeysShared, Parties
<1>4. KeysTyped
  BY <1>1, <1>2 DEF KeysTyped
<1>5. CiphertextsTyped
  BY <1>2 DEF CiphertextsTyped
<1>6. RefreshTyped
  BY <1>2 DEF RefreshTyped
<1> QED
  BY <1>3, <1>4, <1>5, <1>6 DEF TInv

\* What leaves the keys and the ciphertexts as they are.
LEMMA KeysStay ==
  ASSUME TInv, UNCHANGED keyVars, UNCHANGED <<multKey, multipliers, ciphertexts>>, alive' \subseteq alive
  PROVE  KeysShared' /\ KeysTyped' /\ CiphertextsTyped'
PROOF
<1>1. UNCHANGED <<scheme, secretKeys, shares>> /\ publicKey' = publicKey /\ evalKey' = evalKey
  BY DEF keyVars
<1>2. KeysShared'
  BY <1>1, SharesKept DEF TInv
<1>3. KeysTyped'
  BY <1>1 DEF TInv, KeysTyped, Keys
<1>4. CiphertextsTyped'
  BY <1>1 DEF TInv, CiphertextsTyped, Reduced
<1> QED
  BY <1>2, <1>3, <1>4

LEMMA RefreshStays ==
  ASSUME RefreshTyped, UNCHANGED <<refresh, scheme, secretKeys>>
  PROVE  RefreshTyped'
BY DEF RefreshTyped, Reduced

\* Who has joined.
LEMMA JoinedFacts ==
  ASSUME KeysShared
  PROVE  /\ Joined = 1 .. Len(secretKeys) /\ Len(secretKeys) \in Nat /\ scheme.parties \in Nat
         /\ (Joined = Parties <=> Len(secretKeys) = scheme.parties)
         /\ (Joined = {} <=> secretKeys = <<>>)
         /\ (Joined = {} <=> Len(secretKeys) = 0)
PROOF
<1>1. secretKeys \in Seq(Secrets) /\ scheme \in Schemes
  BY DEF KeysShared
<1>2. Joined = 1 .. Len(secretKeys) /\ Len(secretKeys) \in Nat
  BY <1>1 DEF Joined
<1>3. Parties = 1 .. scheme.parties /\ scheme.parties \in Nat
  BY <1>1, PartiesFinite
<1>4. ASSUME 1 .. Len(secretKeys) = 1 .. scheme.parties PROVE Len(secretKeys) = scheme.parties
  <2>1. Len(secretKeys) = 0 \/ Len(secretKeys) \in 1 .. Len(secretKeys)
    BY <1>2
  <2>2. scheme.parties = 0 \/ scheme.parties \in 1 .. scheme.parties
    BY <1>3
  <2>3. Len(secretKeys) <= scheme.parties /\ scheme.parties <= Len(secretKeys)
    BY <1>2, <1>3, <1>4, <2>1, <2>2
  <2> QED
    BY <1>2, <1>3, <2>3
<1>5. Joined = Parties <=> Len(secretKeys) = scheme.parties
  BY <1>2, <1>3, <1>4
<1>6. Joined = {} <=> Len(secretKeys) = 0
  <2>1. Len(secretKeys) = 0 \/ 1 \in 1 .. Len(secretKeys)
    BY <1>2
  <2>2. Len(secretKeys) = 0 => 1 .. Len(secretKeys) = {}
    OBVIOUS
  <2> QED
    BY <1>2, <2>1, <2>2
<1>7. secretKeys = <<>> <=> Len(secretKeys) = 0
  BY <1>1
<1> QED
  BY <1>2, <1>3, <1>5, <1>6, <1>7

LEMMA KeyGenStep ==
  ASSUME TInv, KeyGen
  PROVE  TInv'
PROOF
<1>1. PICK s \in Secrets, tape \in Tapes :
        /\ Joined = {}
        /\ publicKey' = [b |-> (- tape[1] * s) % Q[Full], a |-> tape[1]]
        /\ evalKey' = KeySwitchGen(s, s, tape[2])
        /\ Share(s, tape)
  BY DEF KeyGen
<1>2. KeysShared /\ scheme \in Schemes /\ scheme.parties \in Nat /\ scheme.parties >= 2
  BY SchemeFacts DEF TInv, KeysShared
<1>3. Len(secretKeys) = 0 /\ Len(secretKeys) < scheme.parties
  BY <1>1, <1>2, JoinedFacts
<1>4. KeysShared' /\ secretKeys' # <<>>
  BY <1>1, <1>2, <1>3, ShareStep
<1>5. publicKey' \in Keys /\ evalKey' \in Keys
  <2>1. s \in Int /\ tape[1] \in Int /\ tape[2] \in Int
        /\ tape[1] \in 0 .. Q[Full] - 1 /\ tape[2] \in 0 .. Q[Full] - 1
    BY SecretFacts, TapeFacts
  <2>2. - tape[1] * s \in Int /\ s - tape[2] * s \in Int
    BY <2>1
  <2> QED
    BY <1>1, <2>1, <2>2, KeyFacts DEF KeySwitchGen
<1>6. UNCHANGED <<scheme, multKey, multipliers, ciphertexts, refresh>>
  BY <1>1 DEF Share
<1>7. KeysTyped'
  BY <1>4, <1>5, <1>6 DEF TInv, KeysTyped, Keys
<1>8. ciphertexts = <<>> /\ refresh = None
  <2>1. Len(secretKeys) # scheme.parties
    BY <1>2, <1>3
  <2> QED
    BY <2>1 DEF TInv, CiphertextsTyped, RefreshTyped
<1>9. CiphertextsTyped' /\ RefreshTyped'
  BY <1>6, <1>8 DEF CiphertextsTyped, RefreshTyped
<1> QED
  BY <1>4, <1>7, <1>9 DEF TInv

LEMMA MultipartyKeyGenStep ==
  ASSUME TInv, MultipartyKeyGen
  PROVE  TInv'
PROOF
<1>1. PICK s \in Secrets, tape \in Tapes, fresh \in BOOLEAN :
        /\ Joined # {} /\ Joined # Parties
        /\ LET b == (- publicKey.a * s) % Q[Full]
               own == [publicKey EXCEPT !.b = IF fresh THEN b ELSE (@ + b) % Q[Full]]
           IN  publicKey' = IF fresh THEN MultiAddPubKeys(publicKey, own) ELSE own
        /\ evalKey' = MultiAddEvalKeys(evalKey, KeySwitchGen(s, s, evalKey.a))
        /\ Share(s, tape)
  BY DEF MultipartyKeyGen
<1>2. KeysShared /\ scheme \in Schemes /\ scheme.parties \in Nat /\ Len(secretKeys) <= scheme.parties
  BY SchemeFacts DEF TInv, KeysShared
<1>3. Len(secretKeys) < scheme.parties /\ secretKeys # <<>> /\ Len(secretKeys) # scheme.parties
  BY <1>1, <1>2, JoinedFacts
<1>4. KeysShared' /\ secretKeys' # <<>>
  BY <1>1, <1>2, <1>3, ShareStep
<1>5. publicKey \in Keys /\ evalKey \in Keys
  BY <1>3 DEF TInv, KeysTyped
<1>6. publicKey' \in Keys
  <2> DEFINE b == (- publicKey.a * s) % Q[Full]
             x == - publicKey.a * s
             sum == (publicKey.b + b) % Q[Full]
             own == [publicKey EXCEPT !.b = IF fresh THEN b ELSE sum]
  <2>1. s \in Int /\ publicKey.a \in Int /\ publicKey.b \in Int /\ publicKey.a \in 0 .. Q[Full] - 1
        /\ publicKey = [b |-> publicKey.b, a |-> publicKey.a]
    BY <1>5, SecretFacts, KeyFacts
  <2>2. x \in Int
    BY <2>1
  <2>3. b \in Int
    BY <2>2, FullFacts, QMod
  <2>4. publicKey' = IF fresh THEN AddB(publicKey, own) ELSE own
    BY <1>1 DEF MultiAddPubKeys
  <2>5. own = [b |-> IF fresh THEN b ELSE sum, a |-> publicKey.a]
    BY <2>1
  <2>6. publicKey.b + b \in Int
    BY <2>1, <2>3
  <2>7. own \in Keys
    <3>1. CASE fresh
      BY <2>1, <2>2, <2>5, <3>1, KeyFacts
    <3>2. CASE ~ fresh
      BY <2>1, <2>5, <2>6, <3>2, KeyFacts
    <3> QED
      BY <3>1, <3>2
  <2> HIDE DEF own
  <2>8. AddB(publicKey, own) \in Keys
    BY <1>5, <2>7, AddFacts
  <2> QED
    BY <2>4, <2>7, <2>8
<1>7. evalKey' \in Keys
  <2>1. s \in Int /\ evalKey.a \in Int /\ evalKey.a \in 0 .. Q[Full] - 1
    BY <1>5, SecretFacts, KeyFacts
  <2>2. s - evalKey.a * s \in Int
    BY <2>1
  <2>3. KeySwitchGen(s, s, evalKey.a) \in Keys
    BY <2>1, <2>2, KeyFacts DEF KeySwitchGen
  <2>4. evalKey' = AddB(evalKey, KeySwitchGen(s, s, evalKey.a))
    BY <1>1 DEF MultiAddEvalKeys
  <2> QED
    BY <1>5, <2>3, <2>4, AddFacts
<1>8. UNCHANGED <<scheme, multKey, multipliers, ciphertexts, refresh>>
  BY <1>1 DEF Share
<1>9. KeysTyped'
  BY <1>4, <1>6, <1>7, <1>8 DEF TInv, KeysTyped, Keys
<1>10. ciphertexts = <<>> /\ refresh = None
  BY <1>3 DEF TInv, CiphertextsTyped, RefreshTyped
<1>11. CiphertextsTyped' /\ RefreshTyped'
  BY <1>8, <1>10 DEF CiphertextsTyped, RefreshTyped
<1> QED
  BY <1>4, <1>9, <1>11 DEF TInv

LEMMA MultiplyEvalKeyStep ==
  ASSUME TInv, MultiplyEvalKey
  PROVE  TInv'
PROOF
<1> DEFINE i == scheme.parties - multipliers
           part == MultiMultEvalKey(KeyOf(i), evalKey)
<1>1. /\ Joined = Parties /\ i > 0 /\ multipliers' = multipliers + 1
      /\ multKey' = IF multipliers = 0 THEN part ELSE MultiAddEvalMultKeys(part, multKey)
      /\ UNCHANGED <<keyVars, alive, ciphertexts, partials, refresh, revealed>>
  BY DEF MultiplyEvalKey
<1>2. /\ KeysShared /\ Len(secretKeys) = scheme.parties /\ scheme.parties \in Nat
      /\ multipliers \in 0 .. scheme.parties /\ multipliers \in Nat
  BY <1>1, JoinedFacts DEF TInv, KeysTyped
<1>3. /\ i \in 1 .. Len(secretKeys) /\ i \in Int /\ multipliers' \in 0 .. scheme.parties /\ multipliers' # 0
      /\ secretKeys # <<>>
  <2>1. i \in 1 .. Len(secretKeys) /\ i \in Int /\ multipliers' \in 0 .. scheme.parties /\ multipliers' # 0
    BY <1>1, <1>2
  <2>2. Len(secretKeys) # 0
    BY <2>1
  <2>3. secretKeys = <<>> => Len(secretKeys) = 0
    OBVIOUS
  <2> QED
    BY <2>1, <2>2, <2>3
<1>4. KeyOf(i) \in Int
  <2> HIDE DEF i
  <2> QED
    BY <1>2, <1>3, KeyOfInt
<1>5. evalKey \in Keys /\ evalKey.a \in Int /\ evalKey.b \in Int
  BY <1>3, KeyFacts DEF TInv, KeysTyped
<1>6. part \in Keys
  <2> HIDE DEF i
  <2>1. evalKey.b * KeyOf(i) \in Int /\ evalKey.a * KeyOf(i) \in Int
    BY <1>4, <1>5
  <2> QED
    BY <2>1, KeyFacts DEF MultiMultEvalKey
<1>7. multKey' \in Keys
  <2>1. CASE multipliers = 0
    BY <1>1, <1>6, <2>1
  <2>2. CASE multipliers # 0
    <3>1. multKey \in Keys
      BY <2>2 DEF TInv, KeysTyped
    <3> HIDE DEF part
    <3> QED
      BY <1>1, <1>6, <2>2, <3>1, AddFacts
  <2> QED
    BY <2>1, <2>2
<1>8. UNCHANGED <<scheme, secretKeys, shares, publicKey, evalKey>> /\ alive' \subseteq alive
      /\ UNCHANGED <<ciphertexts, refresh>>
  BY <1>1 DEF keyVars
<1>9. KeysShared'
  BY <1>2, <1>8, SharesKept
<1>10. KeysTyped'
  BY <1>3, <1>5, <1>7, <1>8 DEF TInv, KeysTyped, Keys
<1>11. CiphertextsTyped'
  BY <1>8 DEF TInv, CiphertextsTyped, Reduced
<1>12. RefreshTyped'
  BY <1>8, RefreshStays DEF TInv
<1> QED
  BY <1>9, <1>10, <1>11, <1>12 DEF TInv

LEMMA AbortStep ==
  ASSUME TInv, Abort
  PROVE  TInv'
PROOF
<1>1. /\ alive' \subseteq alive
      /\ UNCHANGED keyVars /\ UNCHANGED <<multKey, multipliers, ciphertexts>> /\ refresh' = refresh
  BY DEF Abort
<1>2. KeysShared' /\ KeysTyped' /\ CiphertextsTyped'
  BY <1>1, KeysStay
<1>3. RefreshTyped'
  BY <1>1, RefreshStays DEF TInv, keyVars
<1> QED
  BY <1>2, <1>3 DEF TInv

\* What an encryption, a sum and a product are.
LEMMA EncryptStores ==
  ASSUME TInv, Encrypt
  PROVE  \E m \in Messages, v \in Int :
           LET c == [elements |-> << (publicKey.b * v + m) % Q[Full],
                                     (publicKey.a * v) % Q[Full] >>, towers |-> Full]
           IN  /\ Store(c) /\ refresh' = refresh /\ c \in Ciphertexts /\ Reduced(c)
               /\ m \in Int /\ publicKey \in Keys
PROOF
<1>1. PICK m \in Messages, tape \in Tapes :
        /\ Store([elements |-> << (publicKey.b * tape[1] + m) % Q[Full],
                                  (publicKey.a * tape[1]) % Q[Full] >>, towers |-> Full])
        /\ refresh' = refresh
  BY DEF Encrypt
<1> DEFINE v == tape[1]
           x == publicKey.b * v + m
           y == publicKey.a * v
<1>2. v \in Int /\ m \in Int
  BY TapeFacts, ValuesAssumption
<1>3. publicKey \in Keys /\ publicKey.b \in Int /\ publicKey.a \in Int
  <2>1. KeysShared /\ Joined = Parties
    BY <1>1 DEF TInv, Store
  <2>2. Len(secretKeys) = scheme.parties /\ scheme.parties >= 2
    BY <2>1, JoinedFacts, SchemeFacts DEF KeysShared
  <2>3. secretKeys # <<>>
    BY <2>1, <2>2, JoinedFacts
  <2> QED
    BY <2>3, KeyFacts DEF TInv, KeysTyped
<1>4. x \in Int /\ y \in Int
  BY <1>2, <1>3
<1>5. Full \in Index
  BY IndexFinite
<1> DEFINE c == [elements |-> <<x % Q[Full], y % Q[Full]>>, towers |-> Full]
<1>6. c \in Ciphertexts /\ Reduced(c)
  <2> HIDE DEF x, y
  <2> QED
    BY <1>4, <1>5, CiphertextFacts
<1>7. Store(c) /\ refresh' = refresh
  BY <1>1
<1> QED
  BY <1>2, <1>3, <1>6, <1>7

LEMMA EvalAddStores ==
  ASSUME TInv, EvalAdd
  PROVE  \E j, k \in DOMAIN ciphertexts :
           LET c == ciphertexts[j].elements  d == ciphertexts[k].elements
               sum == [elements |-> <<(c[1] + d[1]) % Q[Full], (c[2] + d[2]) % Q[Full]>>, towers |-> Full]
           IN  Store(sum) /\ refresh' = refresh /\ sum \in Ciphertexts /\ Reduced(sum)
PROOF
<1>1. PICK j \in DOMAIN ciphertexts, k \in DOMAIN ciphertexts :
        /\ Store([ciphertexts[j] EXCEPT !.elements = [e \in 1 .. 2 |->
                  (@[e] + ciphertexts[k].elements[e]) % Q[ciphertexts[j].towers]]])
        /\ refresh' = refresh
  BY DEF EvalAdd
<1> DEFINE cj == ciphertexts[j]
           ck == ciphertexts[k]
           c == cj.elements
           d == ck.elements
           new == [cj EXCEPT !.elements = [e \in 1 .. 2 |-> (@[e] + d[e]) % Q[cj.towers]]]
           sum == [elements |-> <<(c[1] + d[1]) % Q[Full], (c[2] + d[2]) % Q[Full]>>, towers |-> Full]
<1>2. cj \in Ciphertexts /\ ck \in Ciphertexts /\ cj.towers = Full
  BY DEF TInv, CiphertextsTyped
<1>3. c[1] \in Int /\ c[2] \in Int /\ d[1] \in Int /\ d[2] \in Int
  BY <1>2, CiphertextFacts
<1>4. new = [elements |-> [e \in 1 .. 2 |-> (c[e] + d[e]) % Q[Full]], towers |-> Full]
  <2>1. cj = [elements |-> cj.elements, towers |-> Full]
    BY <1>2 DEF Ciphertexts
  <2> QED
    BY <1>2, <2>1
<1>5. [e \in 1 .. 2 |-> (c[e] + d[e]) % Q[Full]] = <<(c[1] + d[1]) % Q[Full], (c[2] + d[2]) % Q[Full]>>
  OBVIOUS
<1>6. new = sum
  BY <1>4, <1>5
<1>7. Store(new)
  BY <1>1
<1>8. sum \in Ciphertexts /\ Reduced(sum)
  <2> DEFINE x == c[1] + d[1]
             y == c[2] + d[2]
  <2>1. x \in Int /\ y \in Int /\ Full \in Index
    BY <1>3, IndexFinite
  <2> HIDE DEF x, y
  <2>2. LET s == [elements |-> <<x % Q[Full], y % Q[Full]>>, towers |-> Full]
        IN  s \in Ciphertexts /\ Reduced(s)
    BY <2>1, CiphertextFacts
  <2> QED
    BY <2>2 DEF x, y
<1> HIDE DEF new
<1>9. Store(sum)
  BY <1>6, <1>7
<1> QED
  BY <1>1, <1>8, <1>9

LEMMA EvalMultStores ==
  ASSUME TInv, EvalMult
  PROVE  \E j, k \in DOMAIN ciphertexts :
           LET c == ciphertexts[j].elements  d == ciphertexts[k].elements
               square == (c[2] * d[2]) % Q[Full]
               new == [elements |-> << (c[1] * d[1] + square * multKey.b) % Q[Full],
                                       (c[1] * d[2] + c[2] * d[1] + square * multKey.a) % Q[Full] >>,
                       towers |-> Full]
           IN  /\ Store(new) /\ refresh' = refresh /\ new \in Ciphertexts /\ Reduced(new)
               /\ multipliers = scheme.parties /\ multKey \in Keys
PROOF
<1>1. PICK j \in DOMAIN ciphertexts, k \in DOMAIN ciphertexts :
        LET c == ciphertexts[j].elements  d == ciphertexts[k].elements
            q == Q[ciphertexts[j].towers]
            square == (c[2] * d[2]) % q
        IN  /\ multipliers = scheme.parties
            /\ Store([ciphertexts[j] EXCEPT !.elements =
                  << (c[1] * d[1] + square * multKey.b) % q,
                     (c[1] * d[2] + c[2] * d[1] + square * multKey.a) % q >>])
            /\ refresh' = refresh
  BY DEF EvalMult
<1> DEFINE cj == ciphertexts[j]
           ck == ciphertexts[k]
           c == cj.elements
           d == ck.elements
           square == (c[2] * d[2]) % Q[Full]
           x == c[1] * d[1] + square * multKey.b
           y == c[1] * d[2] + c[2] * d[1] + square * multKey.a
           pair == <<x % Q[Full], y % Q[Full]>>
           new == [elements |-> pair, towers |-> Full]
<1>2. cj \in Ciphertexts /\ ck \in Ciphertexts /\ cj.towers = Full
  BY DEF TInv, CiphertextsTyped
<1>3. c[1] \in Int /\ c[2] \in Int /\ d[1] \in Int /\ d[2] \in Int
  BY <1>2, CiphertextFacts
<1>4. multKey \in Keys /\ multKey.a \in Int /\ multKey.b \in Int
  <2>1. multipliers # 0
    <3>1. multipliers = scheme.parties /\ scheme.parties >= 2 /\ scheme.parties \in Nat
      BY <1>1, SchemeFacts DEF TInv, KeysShared
    <3> QED
      BY <3>1
  <2> QED
    BY <2>1, KeyFacts DEF TInv, KeysTyped
<1>5. square \in Int
  <2>1. c[2] * d[2] \in Int /\ Full \in 0 .. Full
    BY <1>3, FullFacts
  <2> DEFINE u == c[2] * d[2]
  <2>2. u \in Int
    BY <2>1
  <2> HIDE DEF u
  <2>3. u % Q[Full] \in Int
    BY <2>1, <2>2, QMod
  <2> QED
    BY <2>3 DEF u
<1>6. x \in Int /\ y \in Int
  <2> HIDE DEF square, c, d
  <2>1. c[1] * d[1] \in Int /\ square * multKey.b \in Int /\ c[1] * d[2] \in Int
        /\ c[2] * d[1] \in Int /\ square * multKey.a \in Int
    BY <1>3, <1>4, <1>5
  <2> QED
    BY <2>1
<1>7. Store([cj EXCEPT !.elements = pair]) /\ refresh' = refresh /\ multipliers = scheme.parties
  BY <1>1, <1>2
<1> HIDE DEF x, y
<1>8. [cj EXCEPT !.elements = pair] = new
  <2>1. cj = [elements |-> cj.elements, towers |-> Full]
    BY <1>2 DEF Ciphertexts
  <2> HIDE DEF cj, pair
  <2> QED
    BY <2>1
<1>9. new \in Ciphertexts /\ Reduced(new)
  BY <1>6, IndexFinite, CiphertextFacts
<1>10. Store(new)
  BY <1>7, <1>8
<1> QED
  BY <1>4, <1>7, <1>9, <1>10 DEF x, y

LEMMA ComputeStep ==
  ASSUME TInv, Encrypt \/ EvalAdd \/ EvalMult
  PROVE  TInv'
PROOF
<1>1. ASSUME NEW c \in Ciphertexts, Reduced(c), c.towers = Full, Store(c), refresh' = refresh
      PROVE  TInv'
  <2>1. KeysShared' /\ KeysTyped' /\ CiphertextsTyped'
    BY <1>1, StoreStep
  <2>2. UNCHANGED <<refresh, scheme, secretKeys>>
    BY <1>1 DEF Store, keyVars
  <2>3. RefreshTyped'
    BY <2>2, RefreshStays DEF TInv
  <2> QED
    BY <2>1, <2>3 DEF TInv
<1>2. CASE Encrypt
  <2>1. PICK m \in Messages, v \in Int :
           LET c == [elements |-> << (publicKey.b * v + m) % Q[Full],
                                     (publicKey.a * v) % Q[Full] >>, towers |-> Full]
           IN  Store(c) /\ refresh' = refresh /\ c \in Ciphertexts /\ Reduced(c)
    BY <1>2, EncryptStores
  <2> DEFINE c == [elements |-> << (publicKey.b * v + m) % Q[Full],
                                   (publicKey.a * v) % Q[Full] >>, towers |-> Full]
  <2>2. c.towers = Full /\ Store(c) /\ refresh' = refresh /\ c \in Ciphertexts /\ Reduced(c)
    BY <2>1
  <2> HIDE DEF c
  <2> QED
    BY <1>1, <2>2
<1>3. CASE EvalAdd
  <2>1. PICK j \in DOMAIN ciphertexts, k \in DOMAIN ciphertexts :
           LET c == ciphertexts[j].elements  d == ciphertexts[k].elements
               sum == [elements |-> <<(c[1] + d[1]) % Q[Full], (c[2] + d[2]) % Q[Full]>>, towers |-> Full]
           IN  Store(sum) /\ refresh' = refresh /\ sum \in Ciphertexts /\ Reduced(sum)
    BY <1>3, EvalAddStores
  <2> DEFINE c == ciphertexts[j].elements
             d == ciphertexts[k].elements
             sum == [elements |-> <<(c[1] + d[1]) % Q[Full], (c[2] + d[2]) % Q[Full]>>, towers |-> Full]
  <2>2. sum.towers = Full /\ Store(sum) /\ refresh' = refresh /\ sum \in Ciphertexts /\ Reduced(sum)
    BY <2>1
  <2> HIDE DEF sum
  <2> QED
    BY <1>1, <2>2
<1>4. CASE EvalMult
  <2>1. PICK j \in DOMAIN ciphertexts, k \in DOMAIN ciphertexts :
           LET c == ciphertexts[j].elements  d == ciphertexts[k].elements
               square == (c[2] * d[2]) % Q[Full]
               new == [elements |-> << (c[1] * d[1] + square * multKey.b) % Q[Full],
                                       (c[1] * d[2] + c[2] * d[1] + square * multKey.a) % Q[Full] >>,
                       towers |-> Full]
           IN  Store(new) /\ refresh' = refresh /\ new \in Ciphertexts /\ Reduced(new)
    BY <1>4, EvalMultStores
  <2> DEFINE c == ciphertexts[j].elements
             d == ciphertexts[k].elements
             square == (c[2] * d[2]) % Q[Full]
             new == [elements |-> << (c[1] * d[1] + square * multKey.b) % Q[Full],
                                     (c[1] * d[2] + c[2] * d[1] + square * multKey.a) % Q[Full] >>,
                     towers |-> Full]
  <2>2. new.towers = Full /\ Store(new) /\ refresh' = refresh /\ new \in Ciphertexts /\ Reduced(new)
    BY <2>1
  <2> HIDE DEF new
  <2> QED
    BY <1>1, <2>2
<1> QED
  BY <1>2, <1>3, <1>4

LEMMA DecryptStep ==
  ASSUME TInv, MultipartyDecrypt \/ MultipartyDecryptFusion
  PROVE  TInv'
PROOF
<1>1. UNCHANGED keyVars /\ UNCHANGED <<multKey, multipliers, ciphertexts>> /\ alive' \subseteq alive
      /\ refresh' = refresh
  BY DEF MultipartyDecrypt, MultipartyDecryptFusion
<1>2. KeysShared' /\ KeysTyped' /\ CiphertextsTyped'
  BY <1>1, KeysStay
<1>3. RefreshTyped'
  BY <1>1, RefreshStays DEF TInv, keyVars
<1> QED
  BY <1>2, <1>3 DEF TInv

\* A refresh in record form, and what an update of it gives.
LEMMA RefreshFacts ==
  ASSUME NEW r \in Refreshes
  PROVE  /\ r = [input |-> r.input, a |-> r.a, pairs |-> r.pairs, sum |-> r.sum, adds |-> r.adds]
         /\ r.input \in Ciphertexts /\ r.a \in 0 .. Q[Full] - 1 /\ r.a \in Int
         /\ r.pairs \in Seq([1 .. 2 -> Int]) /\ r.sum \in {None} \cup [1 .. 2 -> Int] /\ r.adds \in Nat
         /\ DOMAIN r.pairs = 1 .. Len(r.pairs) /\ Len(r.pairs) \in Nat
         /\ r # None
PROOF
<1> DEFINE R == 0 .. Q[Full] - 1
           S == Seq([1 .. 2 -> Int])
<1>1. \A u \in R : u \in Int
  BY QFacts, FullFacts
<1>2. r \in [input : Ciphertexts, a : R, pairs : S, sum : {None} \cup [1 .. 2 -> Int], adds : Nat]
  BY DEF Refreshes
<1>3. \A s \in S : DOMAIN s = 1 .. Len(s) /\ Len(s) \in Nat
  OBVIOUS
<1> HIDE DEF R, S
<1>4. /\ r = [input |-> r.input, a |-> r.a, pairs |-> r.pairs, sum |-> r.sum, adds |-> r.adds]
      /\ r.input \in Ciphertexts /\ r.a \in R /\ r.pairs \in S
      /\ r.sum \in {None} \cup [1 .. 2 -> Int] /\ r.adds \in Nat
  BY <1>2
<1>5. r # None
  <2>1. "a" \in DOMAIN r /\ "a" \notin DOMAIN None
    BY <1>2 DEF None
  <2> QED
    BY <2>1
<1>6. r.a \in Int /\ DOMAIN r.pairs = 1 .. Len(r.pairs) /\ Len(r.pairs) \in Nat
  BY <1>1, <1>3, <1>4
<1> QED
  BY <1>4, <1>5, <1>6 DEF R, S

\* The elements of the compressed ciphertext are those of the ciphertext
\* modulo the towers that are kept.
LEMMA CompressFacts ==
  ASSUME NEW c \in Ciphertexts
  PROVE  LET d == Compress(c, NumTowersToKeep)
         IN  /\ d \in Ciphertexts /\ Reduced(d) /\ d.towers = NumTowersToKeep
             /\ d.elements[1] = c.elements[1] % Q[NumTowersToKeep]
             /\ d.elements[2] = c.elements[2] % Q[NumTowersToKeep]
PROOF
<1> DEFINE t == NumTowersToKeep
           d == Compress(c, t)
           x == c.elements[1]
           y == c.elements[2]
           e == [elements |-> <<x % Q[t], y % Q[t]>>, towers |-> t]
<1>1. x \in Int /\ y \in Int /\ DOMAIN c.elements = 1 .. 2
  BY CiphertextFacts DEF Ciphertexts
<1>2. t \in Index
  BY FullFacts DEF Index
<1>3. [j \in 1 .. 2 |-> c.elements[j] % Q[t]] = <<x % Q[t], y % Q[t]>>
  OBVIOUS
<1>4. d = e
  BY <1>1, <1>3 DEF Compress
<1> HIDE DEF x, y, d, t
<1>5. e \in Ciphertexts /\ Reduced(e) /\ e.towers = t
  BY <1>1, <1>2, CiphertextFacts
<1>6. e.elements[1] = x % Q[t] /\ e.elements[2] = y % Q[t]
  OBVIOUS
<1> QED
  BY <1>4, <1>5, <1>6 DEF d, t, x, y

LEMMA AdjustScaleStep ==
  ASSUME TInv, IntMPBootAdjustScale
  PROVE  TInv'
PROOF
<1>1. PICK k \in DOMAIN ciphertexts, tape \in Tapes :
        /\ refresh' = [input |-> Compress(ciphertexts[k], NumTowersToKeep), a |-> tape[1],
                       pairs |-> <<>>, sum |-> None, adds |-> 0]
        /\ UNCHANGED <<keyVars, multKey, multipliers, alive, ciphertexts>>
  BY DEF IntMPBootAdjustScale
<1> DEFINE d == Compress(ciphertexts[k], NumTowersToKeep)
<1>2. ciphertexts \in Seq(Ciphertexts) /\ ciphertexts[k] \in Ciphertexts /\ ciphertexts # <<>>
      /\ Len(secretKeys) = scheme.parties
  BY DEF TInv, CiphertextsTyped
<1>3. d \in Ciphertexts /\ Reduced(d) /\ d.towers = NumTowersToKeep
  BY <1>2, CompressFacts
<1>4. tape[1] \in 0 .. Q[Full] - 1
  BY TapeFacts
<1> HIDE DEF d
<1>5. refresh' = [input |-> d, a |-> tape[1], pairs |-> <<>>, sum |-> None, adds |-> 0]
  BY <1>1 DEF d
<1>6. refresh' \in Refreshes
  BY <1>3, <1>4, <1>5 DEF Refreshes
<1>7. RefreshTyped'
  <2>1. refresh'.input = d
    BY <1>5
  <2>2. Reduced(refresh.input)' /\ refresh'.input.towers = NumTowersToKeep
    BY <1>3, <2>1 DEF Reduced
  <2>3. Len(secretKeys') = scheme'.parties
    BY <1>1, <1>2 DEF keyVars
  <2> QED
    BY <1>6, <2>2, <2>3 DEF RefreshTyped
<1>8. KeysShared' /\ KeysTyped' /\ CiphertextsTyped'
  <2>1. UNCHANGED keyVars /\ UNCHANGED <<multKey, multipliers, ciphertexts>> /\ alive' \subseteq alive
    BY <1>1
  <2> QED
    BY <2>1, KeysStay
<1> QED
  BY <1>7, <1>8 DEF TInv

\* The pair a party hands out.
LEMMA PairFacts ==
  ASSUME TInv, IntMPBootDecrypt
  PROVE  \E tape \in Tapes :
           LET i == Len(refresh.pairs) + 1
               mask == GenerateMi(tape[1])
               pair == << GenerateMaskedDecryptionShare(KeyOf(i), refresh.input, mask),
                          GenerateReEncryptionShare(KeyOf(i), refresh.a, mask) >>
           IN  /\ refresh # None /\ i \in Parties /\ CanAct(i) /\ i \in 1 .. Len(secretKeys)
               /\ mask \in Int /\ KeyOf(i) \in Int /\ pair \in [1 .. 2 -> Int]
               /\ 2 * mask < Q[CompressionLevel] /\ - Q[CompressionLevel] <= 2 * mask
               /\ refresh' = [input |-> refresh.input, a |-> refresh.a, pairs |-> Append(refresh.pairs, pair),
                              sum |-> refresh.sum, adds |-> refresh.adds]
               /\ UNCHANGED <<keyVars, multKey, multipliers, alive, ciphertexts, partials, revealed>>
PROOF
<1> DEFINE i == Len(refresh.pairs) + 1
           mask(tape) == GenerateMi(tape[1])
           first(m) == GenerateMaskedDecryptionShare(KeyOf(i), refresh.input, m)
           second(m) == GenerateReEncryptionShare(KeyOf(i), refresh.a, m)
           pair(tape) == <<first(mask(tape)), second(mask(tape))>>
<1>1. PICK tape \in Tapes :
        /\ refresh # None /\ i \in Parties /\ CanAct(i)
        /\ refresh' = [refresh EXCEPT !.pairs = Append(@, pair(tape))]
        /\ UNCHANGED <<keyVars, multKey, multipliers, alive, ciphertexts, partials, revealed>>
  BY DEF IntMPBootDecrypt
<1>2. /\ refresh \in Refreshes /\ Len(secretKeys) = scheme.parties /\ KeysShared
      /\ refresh.input.towers = NumTowersToKeep
  BY <1>1 DEF TInv, RefreshTyped
<1>3. i \in 1 .. Len(secretKeys)
  BY <1>1, <1>2 DEF Parties
<1>4. KeyOf(i) \in Int
  <2> HIDE DEF i
  <2> QED
    BY <1>2, <1>3, KeyOfInt
<1>5. mask(tape) \in Int /\ 2 * mask(tape) < Q[CompressionLevel] /\ - Q[CompressionLevel] <= 2 * mask(tape)
  <2>1. tape[1] \in Int /\ Q[CompressionLevel] \in Nat \ {0}
    BY TapeFacts, FullFacts, QFacts
  <2> QED
    BY <2>1, CentredFacts DEF GenerateMi
<1>6. refresh.a \in Int /\ refresh.input.elements[2] \in Int /\ refresh.input \in Ciphertexts
  BY <1>2, RefreshFacts, CiphertextFacts
<1>7. ASSUME NEW m \in Int PROVE <<first(m), second(m)>> \in [1 .. 2 -> Int]
  <2> DEFINE s == KeyOf(i)
             x == s * refresh.input.elements[2] - m
             y == - s * refresh.a + m
  <2>1. s \in Int
    BY <1>4
  <2>2. x \in Int /\ y \in Int
    <3> HIDE DEF s
    <3> QED
      BY <1>6, <2>1
  <2>3. first(m) = x % Q[NumTowersToKeep] /\ second(m) = y % Q[Full]
    BY <1>2 DEF GenerateMaskedDecryptionShare, GenerateReEncryptionShare
  <2> HIDE DEF x, y
  <2>4. x % Q[NumTowersToKeep] \in Int /\ y % Q[Full] \in Int
    <3>1. NumTowersToKeep \in 0 .. Full /\ Full \in 0 .. Full
      BY FullFacts
    <3> QED
      BY <2>2, <3>1, QMod
  <2> HIDE DEF first, second
  <2> QED
    BY <2>3, <2>4
<1> HIDE DEF mask
<1>8. pair(tape) \in [1 .. 2 -> Int]
  BY <1>5, <1>7
<1>9. refresh' = [input |-> refresh.input, a |-> refresh.a, pairs |-> Append(refresh.pairs, pair(tape)),
                  sum |-> refresh.sum, adds |-> refresh.adds]
  <2> HIDE DEF pair
  <2>1. refresh = [input |-> refresh.input, a |-> refresh.a, pairs |-> refresh.pairs,
                   sum |-> refresh.sum, adds |-> refresh.adds]
    BY <1>2, RefreshFacts
  <2> QED
    BY <1>1, <2>1
<1> QED
  BY <1>1, <1>3, <1>4, <1>5, <1>8, <1>9 DEF mask

LEMMA IntMPBootDecryptStep ==
  ASSUME TInv, IntMPBootDecrypt
  PROVE  TInv'
PROOF
<1>1. PICK pair \in [1 .. 2 -> Int] :
        /\ refresh # None
        /\ refresh' = [input |-> refresh.input, a |-> refresh.a, pairs |-> Append(refresh.pairs, pair),
                       sum |-> refresh.sum, adds |-> refresh.adds]
        /\ UNCHANGED <<keyVars, multKey, multipliers, alive, ciphertexts, partials, revealed>>
  <2>1. PICK tape \in Tapes :
           LET i == Len(refresh.pairs) + 1
               mask == GenerateMi(tape[1])
               pair == << GenerateMaskedDecryptionShare(KeyOf(i), refresh.input, mask),
                          GenerateReEncryptionShare(KeyOf(i), refresh.a, mask) >>
           IN  /\ refresh # None /\ pair \in [1 .. 2 -> Int]
               /\ refresh' = [input |-> refresh.input, a |-> refresh.a, pairs |-> Append(refresh.pairs, pair),
                              sum |-> refresh.sum, adds |-> refresh.adds]
               /\ UNCHANGED <<keyVars, multKey, multipliers, alive, ciphertexts, partials, revealed>>
    BY PairFacts
  <2> DEFINE i == Len(refresh.pairs) + 1
             mask == GenerateMi(tape[1])
             p == << GenerateMaskedDecryptionShare(KeyOf(i), refresh.input, mask),
                     GenerateReEncryptionShare(KeyOf(i), refresh.a, mask) >>
  <2>2. p \in [1 .. 2 -> Int] /\ refresh # None
        /\ refresh' = [input |-> refresh.input, a |-> refresh.a, pairs |-> Append(refresh.pairs, p),
                       sum |-> refresh.sum, adds |-> refresh.adds]
        /\ UNCHANGED <<keyVars, multKey, multipliers, alive, ciphertexts, partials, revealed>>
    BY <2>1
  <2> HIDE DEF p
  <2> QED
    BY <2>2
<1>2. /\ refresh \in Refreshes /\ Reduced(refresh.input) /\ refresh.input.towers = NumTowersToKeep
      /\ Len(secretKeys) = scheme.parties
  BY <1>1 DEF TInv, RefreshTyped
<1>3. refresh' \in Refreshes
  <2>1. Append(refresh.pairs, pair) \in Seq([1 .. 2 -> Int])
    BY <1>2, RefreshFacts
  <2>2. /\ refresh.input \in Ciphertexts /\ refresh.a \in 0 .. Q[Full] - 1
        /\ refresh.sum \in {None} \cup [1 .. 2 -> Int] /\ refresh.adds \in Nat
    BY <1>2, RefreshFacts
  <2> QED
    BY <1>1, <2>1, <2>2 DEF Refreshes
<1>4. RefreshTyped'
  <2>1. refresh'.input = refresh.input /\ Len(secretKeys') = scheme'.parties
    BY <1>1, <1>2 DEF keyVars
  <2>2. Reduced(refresh.input)' /\ refresh'.input.towers = NumTowersToKeep
    BY <1>2, <2>1 DEF Reduced
  <2> QED
    BY <1>3, <2>1, <2>2 DEF RefreshTyped
<1>5. KeysShared' /\ KeysTyped' /\ CiphertextsTyped'
  <2>1. UNCHANGED keyVars /\ UNCHANGED <<multKey, multipliers, ciphertexts>> /\ alive' \subseteq alive
    BY <1>1
  <2> QED
    BY <2>1, KeysStay
<1> QED
  BY <1>4, <1>5 DEF TInv

\* The aggregated pair.
LEMMA AddFormsTotal ==
  ASSUME TInv, IntMPBootAdd
  PROVE  LET total == << SumOver([i \in Parties |-> refresh.pairs[i][1]], Parties) % Q[NumTowersToKeep],
                         SumOver([i \in Parties |-> refresh.pairs[i][2]], Parties) % Q[Full] >>
         IN  /\ refresh # None /\ refresh \in Refreshes /\ Len(refresh.pairs) = scheme.parties
             /\ DOMAIN refresh.pairs = Parties /\ refresh.adds < MaxAdds
             /\ \A i \in Parties : refresh.pairs[i][1] \in Int /\ refresh.pairs[i][2] \in Int
             /\ SumOver([i \in Parties |-> refresh.pairs[i][1]], Parties) \in Int
             /\ SumOver([i \in Parties |-> refresh.pairs[i][2]], Parties) \in Int
             /\ total \in [1 .. 2 -> Int]
             /\ refresh' = [input |-> refresh.input, a |-> refresh.a,
                            pairs |-> [refresh.pairs EXCEPT ![1] = total],
                            sum |-> total, adds |-> refresh.adds + 1]
             /\ UNCHANGED <<keyVars, multKey, multipliers, alive, ciphertexts, partials, revealed>>
PROOF
<1> DEFINE f == [i \in Parties |-> refresh.pairs[i][1]]
           g == [i \in Parties |-> refresh.pairs[i][2]]
           total == << SumOver(f, Parties) % Q[NumTowersToKeep], SumOver(g, Parties) % Q[Full] >>
<1>1. Sum(f) = SumOver(f, Parties) /\ Sum(g) = SumOver(g, Parties)
  BY SumIsOver
<1>2. /\ refresh # None /\ DOMAIN refresh.pairs = Parties /\ refresh.adds < MaxAdds
      /\ refresh' = [refresh EXCEPT !.pairs[1] = total, !.sum = total, !.adds = @ + 1]
      /\ UNCHANGED <<keyVars, multKey, multipliers, alive, ciphertexts, partials, revealed>>
  <2> HIDE DEF f, g
  <2> QED
    BY <1>1 DEF IntMPBootAdd, f, g
<1>3. refresh \in Refreshes /\ scheme \in Schemes
  BY <1>2 DEF TInv, RefreshTyped, KeysShared
<1>4. /\ refresh = [input |-> refresh.input, a |-> refresh.a, pairs |-> refresh.pairs,
                    sum |-> refresh.sum, adds |-> refresh.adds]
      /\ refresh.pairs \in Seq([1 .. 2 -> Int]) /\ DOMAIN refresh.pairs = 1 .. Len(refresh.pairs)
      /\ Len(refresh.pairs) \in Nat
  BY <1>3, RefreshFacts
<1>5. Parties = 1 .. scheme.parties /\ scheme.parties \in Nat /\ IsFiniteSet(Parties) /\ 1 \in Parties
  <2>1. Parties = 1 .. scheme.parties /\ scheme.parties \in Nat /\ scheme.parties >= 2 /\ IsFiniteSet(Parties)
    BY <1>3, PartiesFinite
  <2>2. 1 \in 1 .. scheme.parties
    BY <2>1
  <2> QED
    BY <2>1, <2>2
<1>6. Len(refresh.pairs) = scheme.parties
  <2>1. 1 .. Len(refresh.pairs) = 1 .. scheme.parties
    BY <1>2, <1>4, <1>5
  <2>2. Len(refresh.pairs) = 0 \/ Len(refresh.pairs) \in 1 .. Len(refresh.pairs)
    BY <1>4
  <2>3. scheme.parties = 0 \/ scheme.parties \in 1 .. scheme.parties
    BY <1>5
  <2>4. Len(refresh.pairs) <= scheme.parties /\ scheme.parties <= Len(refresh.pairs)
    BY <1>4, <1>5, <2>1, <2>2, <2>3
  <2> QED
    BY <1>4, <1>5, <2>4
<1>7. \A i \in Parties : refresh.pairs[i][1] \in Int /\ refresh.pairs[i][2] \in Int
  <2>1. \A i \in Parties : refresh.pairs[i] \in [1 .. 2 -> Int]
    BY <1>2, <1>4
  <2> QED
    BY <2>1
<1>8. SumOver(f, Parties) \in Int /\ SumOver(g, Parties) \in Int
  <2>1. \A i \in Parties : f[i] \in Int /\ g[i] \in Int
    BY <1>7
  <2> HIDE DEF f, g
  <2> QED
    BY <1>5, <2>1, SumInt
<1>9. total \in [1 .. 2 -> Int]
  <2> DEFINE x == SumOver(f, Parties)
             y == SumOver(g, Parties)
  <2>1. x \in Int /\ y \in Int /\ NumTowersToKeep \in 0 .. Full /\ Full \in 0 .. Full
    BY <1>8, FullFacts
  <2> HIDE DEF x, y
  <2>2. x % Q[NumTowersToKeep] \in Int /\ y % Q[Full] \in Int
    BY <2>1, QMod
  <2>3. <<x % Q[NumTowersToKeep], y % Q[Full]>> \in [1 .. 2 -> Int]
    BY <2>2
  <2> QED
    BY <2>3 DEF x, y
<1>10. refresh' = [input |-> refresh.input, a |-> refresh.a,
                   pairs |-> [refresh.pairs EXCEPT ![1] = total],
                   sum |-> total, adds |-> refresh.adds + 1]
  <2> HIDE DEF total
  <2> QED
    BY <1>2, <1>4
<1> QED
  BY <1>2, <1>3, <1>6, <1>7, <1>8, <1>9, <1>10

\* Replacing an element of a sequence, or none, leaves a sequence.
LEMMA ReplacedIsSeq ==
  ASSUME NEW E, NEW p \in Seq(E), NEW i, NEW e \in E
  PROVE  [p EXCEPT ![i] = e] \in Seq(E)
PROOF
<1>1. Len(p) \in Nat /\ p \in [1 .. Len(p) -> E]
  OBVIOUS
<1> DEFINE n == Len(p)
           q == [p EXCEPT ![i] = e]
<1>2. n \in Nat /\ q \in [1 .. n -> E]
  BY <1>1
<1>3. q = [j \in 1 .. n |-> q[j]] /\ \A j \in 1 .. n : q[j] \in E
  BY <1>2
<1> HIDE DEF n, q
<1>4. [j \in 1 .. n |-> q[j]] \in Seq(E)
  BY <1>2, <1>3
<1> QED
  BY <1>3, <1>4 DEF q

LEMMA IntMPBootAddStep ==
  ASSUME TInv, IntMPBootAdd
  PROVE  TInv'
PROOF
<1>1. PICK total \in [1 .. 2 -> Int] :
        /\ refresh \in Refreshes /\ refresh # None
        /\ refresh' = [input |-> refresh.input, a |-> refresh.a,
                       pairs |-> [refresh.pairs EXCEPT ![1] = total],
                       sum |-> total, adds |-> refresh.adds + 1]
        /\ UNCHANGED <<keyVars, multKey, multipliers, alive, ciphertexts, partials, revealed>>
  BY AddFormsTotal
<1>2. Reduced(refresh.input) /\ refresh.input.towers = NumTowersToKeep /\ Len(secretKeys) = scheme.parties
  BY <1>1 DEF TInv, RefreshTyped
<1>3. refresh' \in Refreshes
  <2>1. [refresh.pairs EXCEPT ![1] = total] \in Seq([1 .. 2 -> Int])
    <3>1. refresh.pairs \in Seq([1 .. 2 -> Int]) /\ total \in [1 .. 2 -> Int]
      BY <1>1, RefreshFacts
    <3> DEFINE E == [1 .. 2 -> Int]
               p == refresh.pairs
    <3>2. p \in Seq(E) /\ total \in E
      BY <3>1
    <3> HIDE DEF E, p
    <3>3. [p EXCEPT ![1] = total] \in Seq(E)
      BY <3>2, ReplacedIsSeq
    <3> QED
      BY <3>3 DEF E, p
  <2>2. /\ refresh.input \in Ciphertexts /\ refresh.a \in 0 .. Q[Full] - 1
        /\ refresh.adds + 1 \in Nat
    BY <1>1, RefreshFacts
  <2> QED
    BY <1>1, <2>1, <2>2 DEF Refreshes
<1>4. RefreshTyped'
  <2>1. refresh'.input = refresh.input /\ Len(secretKeys') = scheme'.parties
    BY <1>1, <1>2 DEF keyVars
  <2>2. Reduced(refresh.input)' /\ refresh'.input.towers = NumTowersToKeep
    BY <1>2, <2>1 DEF Reduced
  <2> QED
    BY <1>3, <2>1, <2>2 DEF RefreshTyped
<1>5. KeysShared' /\ KeysTyped' /\ CiphertextsTyped'
  <2>1. UNCHANGED keyVars /\ UNCHANGED <<multKey, multipliers, ciphertexts>> /\ alive' \subseteq alive
    BY <1>1
  <2> QED
    BY <2>1, KeysStay
<1> QED
  BY <1>4, <1>5 DEF TInv

LEMMA EncryptRefreshed ==
  ASSUME TInv, IntMPBootEncrypt
  PROVE  LET c0 == Centred(refresh.input.elements[1] + refresh.sum[1], Q[NumTowersToKeep])
             c == [elements |-> <<(c0 + refresh.sum[2]) % Q[Full], refresh.a>>, towers |-> Full]
         IN  /\ refresh # None /\ refresh \in Refreshes /\ refresh.sum \in [1 .. 2 -> Int] /\ refresh.sum # None
             /\ refresh.input.elements[1] \in Int /\ refresh.sum[1] \in Int /\ refresh.sum[2] \in Int
             /\ c0 \in Int /\ Store(c) /\ c \in Ciphertexts /\ Reduced(c) /\ refresh' = None
PROOF
<1> DEFINE x == refresh.input.elements[1]
           c0 == Centred(x + refresh.sum[1], Q[NumTowersToKeep])
           c == [elements |-> <<(c0 + refresh.sum[2]) % Q[Full], refresh.a>>, towers |-> Full]
<1>1. refresh # None /\ refresh.sum # None /\ Store(c) /\ refresh' = None
  BY DEF IntMPBootEncrypt
<1>2. refresh \in Refreshes
  BY <1>1 DEF TInv, RefreshTyped
<1>3. refresh.sum \in [1 .. 2 -> Int] /\ refresh.input \in Ciphertexts /\ refresh.a \in 0 .. Q[Full] - 1
  BY <1>1, <1>2, RefreshFacts
<1>4. x \in Int /\ refresh.sum[1] \in Int /\ refresh.sum[2] \in Int
  BY <1>3, CiphertextFacts
<1>5. c0 \in Int
  <2>1. x + refresh.sum[1] \in Int /\ Q[NumTowersToKeep] \in Nat \ {0}
    BY <1>4, FullFacts, QFacts
  <2> QED
    BY <2>1, CentredFacts
<1>6. c \in Ciphertexts /\ Reduced(c)
  <2> DEFINE y == c0 + refresh.sum[2]
             z == refresh.a
  <2>1. y \in Int /\ z \in 0 .. Q[Full] - 1
    <3> HIDE DEF c0
    <3> QED
      BY <1>3, <1>4, <1>5
  <2> HIDE DEF y, z
  <2>2. LET d == [elements |-> <<y % Q[Full], z>>, towers |-> Full]
        IN  d \in Ciphertexts /\ Reduced(d)
    BY <2>1, CiphertextFacts
  <2> QED
    BY <2>2 DEF y, z
<1> QED
  BY <1>1, <1>2, <1>3, <1>4, <1>5, <1>6

LEMMA IntMPBootEncryptStep ==
  ASSUME TInv, IntMPBootEncrypt
  PROVE  TInv'
PROOF
<1> DEFINE c0 == Centred(refresh.input.elements[1] + refresh.sum[1], Q[NumTowersToKeep])
           c == [elements |-> <<(c0 + refresh.sum[2]) % Q[Full], refresh.a>>, towers |-> Full]
<1>1. Store(c) /\ c \in Ciphertexts /\ Reduced(c) /\ refresh' = None /\ c.towers = Full
  BY EncryptRefreshed
<1> HIDE DEF c
<1>2. KeysShared' /\ KeysTyped' /\ CiphertextsTyped'
  BY <1>1, StoreStep
<1>3. RefreshTyped'
  BY <1>1 DEF RefreshTyped
<1> QED
  BY <1>2, <1>3 DEF TInv

LEMMA TInvNext == TInv /\ [Next]_vars => TInv'
PROOF
<1> SUFFICES ASSUME TInv, [Next]_vars PROVE TInv'
  OBVIOUS
<1>1. CASE KeyGen
  BY <1>1, KeyGenStep
<1>2. CASE MultipartyKeyGen
  BY <1>2, MultipartyKeyGenStep
<1>3. CASE MultiplyEvalKey
  BY <1>3, MultiplyEvalKeyStep
<1>4. CASE Abort
  BY <1>4, AbortStep
<1>5. CASE Encrypt \/ EvalAdd \/ EvalMult
  BY <1>5, ComputeStep
<1>6. CASE MultipartyDecrypt \/ MultipartyDecryptFusion
  BY <1>6, DecryptStep
<1>7. CASE IntMPBootAdjustScale
  BY <1>7, AdjustScaleStep
<1>8. CASE IntMPBootDecrypt
  BY <1>8, IntMPBootDecryptStep
<1>9. CASE IntMPBootAdd
  BY <1>9, IntMPBootAddStep
<1>10. CASE IntMPBootEncrypt
  BY <1>10, IntMPBootEncryptStep
<1>11. CASE UNCHANGED vars
  <2>1. UNCHANGED keyVars /\ UNCHANGED <<multKey, multipliers, ciphertexts>> /\ alive' \subseteq alive
        /\ UNCHANGED <<refresh, scheme, secretKeys>>
    BY <1>11 DEF vars, keyVars
  <2>2. KeysShared' /\ KeysTyped' /\ CiphertextsTyped'
    BY <2>1, KeysStay
  <2>3. RefreshTyped'
    BY <2>1, RefreshStays DEF TInv
  <2> QED
    BY <2>2, <2>3 DEF TInv
<1> QED
  BY <1>1, <1>2, <1>3, <1>4, <1>5, <1>6, <1>7, <1>8, <1>9, <1>10, <1>11 DEF Next

(* Every key and every ciphertext is reduced modulo the towers it has,     *)
(* whoever joins, is lost and recovered, and in whatever order they act.   *)
THEOREM TypeCorrect == Spec => []TypeOK
PROOF
<1>1. TInv => TypeOK
  <2> SUFFICES ASSUME TInv PROVE TypeOK
    OBVIOUS
  <2>1. scheme \in Schemes /\ alive \subseteq Parties /\ multipliers \in 0 .. scheme.parties
    BY DEF TInv, KeysShared, KeysTyped
  <2>2. Joined \subseteq Parties
    <3>1. Joined = 1 .. Len(secretKeys) /\ Len(secretKeys) \in Nat /\ scheme.parties \in Nat
          /\ Len(secretKeys) <= scheme.parties
      BY JoinedFacts DEF TInv, KeysShared
    <3> QED
      BY <3>1 DEF Parties
  <2>3. \A key \in {publicKey, evalKey, multKey} \ {None} :
          key.b \in 0 .. Q[Full] - 1 /\ key.a \in 0 .. Q[Full] - 1
    <3>1. \A key \in {publicKey, evalKey, multKey} \ {None} : key \in Keys
      BY DEF TInv, KeysTyped
    <3> QED
      BY <3>1 DEF Keys
  <2>4. ASSUME NEW c \in {ciphertexts[k] : k \in DOMAIN ciphertexts}
                         \cup (IF refresh = None THEN {} ELSE {refresh.input})
        PROVE  /\ c.towers \in 1 .. Full
               /\ \A e \in DOMAIN c.elements : c.elements[e] \in 0 .. Q[c.towers] - 1
    <3>1. c \in Ciphertexts /\ Reduced(c)
      <4>1. \A k \in DOMAIN ciphertexts : ciphertexts[k] \in Ciphertexts /\ Reduced(ciphertexts[k])
        BY DEF TInv, CiphertextsTyped
      <4>2. refresh # None => refresh.input \in Ciphertexts /\ Reduced(refresh.input)
        BY RefreshFacts DEF TInv, RefreshTyped
      <4> QED
        BY <2>4, <4>1, <4>2
    <3>2. c.towers \in 1 .. Full /\ DOMAIN c.elements = 1 .. 2
      BY <3>1 DEF Ciphertexts, Index
    <3> QED
      BY <3>1, <3>2 DEF Reduced
  <2> QED
    BY <2>1, <2>2, <2>3, <2>4 DEF TypeOK
<1> QED
  BY <1>1, TInvInit, TInvNext, PTL DEF Spec

(* Whichever parties are lost, those that remain, if they are at least the *)
(* threshold, recover a lost party's secret key exactly.                   *)
THEOREM SharesRecover ==
  ASSUME SumsFit, AllShares
  PROVE  Spec => []RecoveryExact
PROOF
<1>1. TInv => RecoveryExact
  <2> SUFFICES ASSUME TInv, NEW i \in Joined, Recoverable(i, alive)
               PROVE  RecoverSharedKey(i, alive) = secretKeys[i]
    BY DEF RecoveryExact
  <2>1. KeysShared /\ i \in 1 .. Len(secretKeys)
    BY JoinedFacts DEF TInv
  <2>2. PICK tape \in Tapes : shares[i] = ShareKeys(secretKeys[i], i, tape)
    BY <2>1 DEF KeysShared
  <2>3. scheme \in Schemes /\ alive \subseteq Parties /\ secretKeys[i] \in Secrets
    BY <2>1 DEF KeysShared
  <2>4. i \in Parties
    <3>1. scheme.parties \in Nat /\ Len(secretKeys) \in Nat /\ Len(secretKeys) <= scheme.parties
      BY <2>1, JoinedFacts DEF KeysShared
    <3> QED
      BY <2>1, <3>1 DEF Parties
  <2>5. secretKeys[i] \in 0 .. Q[Full] - 1
    BY <2>3, SecretFacts
  <2> QED
    BY <2>2, <2>3, <2>4, <2>5, KeyRecovered
<1> QED
  BY <1>1, TInvInit, TInvNext, PTL DEF Spec

-----------------------------------------------------------------------------
(* What the numbers under the keys are, and that they fit the moduli.      *)

\* The masked shares are aggregated once.
OneAggregation == MaxAdds = 1

\* bound[k] bounds the number that the k-th ciphertext holds; a number and
\* all the masks together fit the towers that a refresh keeps.
MessagesFit(bound) ==
  /\ MaxCiphertexts \in Nat /\ bound \in [1 .. MaxCiphertexts -> Nat]
  /\ \A m \in Messages, k \in 1 .. MaxCiphertexts : - bound[k] <= m /\ m <= bound[k]
  /\ \A j, k, l \in 1 .. MaxCiphertexts :
       j < l /\ k < l => bound[j] + bound[k] <= bound[l] /\ bound[j] * bound[k] <= bound[l]
  /\ \A k \in 1 .. MaxCiphertexts, sch \in Schemes :
       2 * bound[k] + sch.parties * Q[CompressionLevel] < Q[NumTowersToKeep]

Within(v, b) == - b <= v /\ v <= b
Total(keys) == SumOver(keys, 1 .. Len(keys))
Masked(pair, key, c2, a, mask, n) ==
  /\ 2 * mask <= n * Q[CompressionLevel] /\ - (n * Q[CompressionLevel]) <= 2 * mask
  /\ Congruent(pair[1], key * c2 - mask, Q[NumTowersToKeep])
  /\ Congruent(pair[2], mask - key * a, Q[Full])

\* The joined keys belong to the sum of the secret keys.
KeysJoin ==
  secretKeys # <<>> =>
    /\ Congruent(publicKey.b + publicKey.a * Total(secretKeys), 0, Q[Full])
    /\ Congruent(evalKey.b + evalKey.a * Total(secretKeys), Total(secretKeys), Q[Full])

\* The multiplication key is the joined key times the keys of the last parties.
LastKeys(keys, n) == SumOver(keys, Len(keys) - n + 1 .. Len(keys))
KeysMultiply ==
  multipliers > 0 =>
    /\ Len(secretKeys) = scheme.parties
    /\ Congruent(multKey.b, LastKeys(secretKeys, multipliers) * evalKey.b, Q[Full])
    /\ Congruent(multKey.a, LastKeys(secretKeys, multipliers) * evalKey.a, Q[Full])

ValuesSmall(bound) ==
  /\ Len(ciphertexts) <= MaxCiphertexts
  /\ \A k \in DOMAIN ciphertexts : Within(Phase(ciphertexts[k]), bound[k])

\* One part of the decryption under way is the lead's.
Parts(part, keys, c, lead) ==
  \A i \in DOMAIN part :
    /\ part[i] \in Int
    /\ Congruent(part[i], keys[i] * c[2] + (IF i = lead THEN c[1] ELSE 0), Q[Full])
PartsAddUp ==
  partials # None =>
    /\ partials = [of |-> partials.of, part |-> partials.part]
    /\ partials.of \in DOMAIN ciphertexts /\ DOMAIN partials.part \subseteq Parties
    /\ \E lead \in DOMAIN partials.part :
         Parts(partials.part, secretKeys, ciphertexts[partials.of].elements, lead)

\* What the refresh under way works on, and the masks of its pairs.
RefreshHolds ==
  refresh # None =>
    \E k \in DOMAIN ciphertexts :
      Congruent(refresh.input.elements[1] + Total(secretKeys) * refresh.input.elements[2],
                Phase(ciphertexts[k]), Q[NumTowersToKeep])
PairsMasked(keys, r) ==
  \A i \in 1 .. Len(r.pairs) : \E mask \in Int :
    Masked(r.pairs[i], keys[i], r.input.elements[2], r.a, mask, 1)
SumMasked(keys, r, n) ==
  \E mask \in Int : Masked(r.sum, Total(keys), r.input.elements[2], r.a, mask, n)
RefreshMasked ==
  refresh # None =>
    IF refresh.adds = 0 THEN refresh.sum = None /\ PairsMasked(secretKeys, refresh)
    ELSE Len(refresh.pairs) = scheme.parties /\ SumMasked(secretKeys, refresh, scheme.parties)

SInv(bound) ==
  TInv /\ KeysJoin /\ KeysMultiply /\ ValuesSmall(bound) /\ PartsAddUp /\ RefreshHolds /\ RefreshMasked

LEMMA TotalFacts ==
  ASSUME KeysShared
  PROVE  /\ Total(secretKeys) \in Int /\ Len(secretKeys) \in Nat
         /\ Sum(secretKeys) = Total(secretKeys)
         /\ \A i \in 1 .. Len(secretKeys) : secretKeys[i] \in Int
         /\ IsFiniteSet(1 .. Len(secretKeys))
PROOF
<1>1. Len(secretKeys) \in Nat /\ DOMAIN secretKeys = 1 .. Len(secretKeys)
  BY JoinedFacts DEF Joined
<1>2. \A i \in 1 .. Len(secretKeys) : secretKeys[i] \in Int
  BY SecretFacts DEF KeysShared
<1>3. IsFiniteSet(1 .. Len(secretKeys))
  <2> DEFINE n == Len(secretKeys)
  <2>1. 1 \in Int /\ n \in Int
    BY <1>1
  <2> HIDE DEF n
  <2> QED
    BY <2>1, FS_Interval DEF n
<1>4. Sum(secretKeys) = SumOver(secretKeys, 1 .. Len(secretKeys))
  BY <1>1, SumIsOver
<1>5. SumOver(secretKeys, 1 .. Len(secretKeys)) \in Int
  <2> DEFINE S == 1 .. Len(secretKeys)
  <2>1. IsFiniteSet(S) /\ \A i \in S : secretKeys[i] \in Int
    BY <1>2, <1>3
  <2> HIDE DEF S
  <2>2. SumOver(secretKeys, S) \in Int
    BY <2>1, SumInt
  <2> QED
    BY <2>2 DEF S
<1> QED
  BY <1>1, <1>2, <1>3, <1>4, <1>5 DEF Total

LEMMA PhaseFacts ==
  ASSUME KeysShared, NEW c \in Ciphertexts, c.towers = Full
  PROVE  /\ Phase(c) \in Int
         /\ Congruent(c.elements[1] + Total(secretKeys) * c.elements[2], Phase(c), Q[Full])
         /\ \A v \in Int : /\ Congruent(c.elements[1] + Total(secretKeys) * c.elements[2], v, Q[Full])
                           /\ 2 * v < Q[Full] /\ - Q[Full] < 2 * v
                           => Phase(c) = v
         /\ \A v \in Int : Congruent(c.elements[1] + Total(secretKeys) * c.elements[2], v, Q[Full])
                           => Centred(v, Q[Full]) = Phase(c)
PROOF
<1> DEFINE T == Total(secretKeys)
           C == Centred(T, Q[Full])
           q == Q[Full]
           x == c.elements[1]
           y == c.elements[2]
<1>1. T \in Int /\ x \in Int /\ y \in Int /\ q \in Nat \ {0} /\ q \in Int
  <2>1. Full \in 0 .. Full /\ 0 \in Int
    BY FullFacts
  <2>2. Q[Full] \in Nat \ {0}
    BY <2>1, QMod
  <2> QED
    BY <2>2, TotalFacts, CiphertextFacts
<1>2. Phase(c) = Centred(x + C * y, q)
  BY TotalFacts DEF Phase
<1> HIDE DEF T, x, y, q
<1>3. C \in Int /\ Congruent(C, T, q)
  BY <1>1, CentredFacts DEF q
<1> HIDE DEF C
<1>4. x + C * y \in Int /\ x + T * y \in Int /\ C * y \in Int /\ T * y \in Int
  BY <1>1, <1>3
<1>5. Congruent(x + C * y, x + T * y, q)
  <2>1. Congruent(x, x, q) /\ Congruent(y, y, q)
    BY <1>1, CongruentRefl
  <2>2. Congruent(C * y, T * y, q)
    BY <1>1, <1>3, <2>1, CongruentMul
  <2> DEFINE u == C * y
             w == T * y
  <2>3. Congruent(u, w, q) /\ u \in Int /\ w \in Int
    BY <2>2, <1>4
  <2> HIDE DEF u, w
  <2>4. Congruent(x + u, x + w, q)
    BY <1>1, <2>1, <2>3, CongruentAdd
  <2> QED
    BY <2>4 DEF u, w
<1> DEFINE z == x + C * y
           t == x + T * y
<1>6. z \in Int /\ t \in Int /\ Congruent(z, t, q) /\ Phase(c) = Centred(z, q)
  BY <1>2, <1>4, <1>5
<1> HIDE DEF z, t
<1>7. Congruent(t, z, q) /\ Centred(z, q) \in Int /\ Congruent(Centred(z, q), z, q)
  BY <1>1, <1>6, CongruentSym, CentredFacts
<1>8. Congruent(t, Centred(z, q), q)
  <2>1. Congruent(z, Centred(z, q), q)
    BY <1>1, <1>6, <1>7, CongruentSym
  <2> QED
    BY <1>1, <1>6, <1>7, <2>1, CongruentTrans
<1>9. ASSUME NEW v \in Int, Congruent(t, v, q)
      PROVE  Congruent(z, v, q) /\ Congruent(v, z, q)
  BY <1>1, <1>6, <1>9, CongruentTrans, CongruentSym
<1>10. ASSUME NEW v \in Int, Congruent(t, v, q), 2 * v < q, - q < 2 * v
       PROVE  Centred(z, q) = v
  BY <1>1, <1>6, <1>9, <1>10, CentredSmall
<1>11. ASSUME NEW v \in Int, Congruent(t, v, q)
       PROVE  Centred(v, q) = Centred(z, q)
  BY <1>1, <1>6, <1>9, <1>11, CentredEqual
<1>12. Phase(c) \in Int /\ Congruent(t, Phase(c), q)
  BY <1>6, <1>7, <1>8
<1>13. \A v \in Int : Congruent(t, v, q) /\ 2 * v < q /\ - q < 2 * v => Phase(c) = v
  BY <1>6, <1>10
<1>14. \A v \in Int : Congruent(t, v, q) => Centred(v, q) = Phase(c)
  BY <1>6, <1>11
<1> QED
  BY <1>12, <1>13, <1>14, Zenon DEF t, x, y, q, T

-----------------------------------------------------------------------------
(* Residues of what the operations compute.                                *)

\* What a ciphertext holds under a key.
LEMMA FreshValue ==
  ASSUME NEW q \in Int, NEW S \in Int, NEW b \in Int, NEW a \in Int, NEW v \in Int, NEW m \in Int,
         NEW x \in Int, NEW y \in Int, Congruent(b + a * S, 0, q),
         Congruent(x, b * v + m, q), Congruent(y, a * v, q)
  PROVE  Congruent(x + S * y, m, q)
PROOF
<1>1. PICK i \in Int : b + a * S = 0 + i * q
  BY DEF Congruent
<1>2. PICK j \in Int : x = b * v + m + j * q
  BY DEF Congruent
<1>3. PICK k \in Int : y = a * v + k * q
  BY DEF Congruent
<1>4. x + S * y = m + (i * v + j + S * k) * q
  <2>1. b = i * q - a * S
    BY <1>1
  <2> QED
    BY <1>2, <1>3, <2>1
<1>5. i * v + j + S * k \in Int
  OBVIOUS
<1> QED
  BY <1>4, <1>5 DEF Congruent

LEMMA SumValue ==
  ASSUME NEW q \in Int, NEW S \in Int, NEW c1 \in Int, NEW c2 \in Int, NEW d1 \in Int, NEW d2 \in Int,
         NEW p \in Int, NEW r \in Int, NEW x \in Int, NEW y \in Int,
         Congruent(c1 + S * c2, p, q), Congruent(d1 + S * d2, r, q),
         Congruent(x, c1 + d1, q), Congruent(y, c2 + d2, q)
  PROVE  Congruent(x + S * y, p + r, q)
PROOF
<1>1. PICK i \in Int : c1 + S * c2 = p + i * q
  BY DEF Congruent
<1>2. PICK j \in Int : d1 + S * d2 = r + j * q
  BY DEF Congruent
<1>3. PICK k \in Int : x = c1 + d1 + k * q
  BY DEF Congruent
<1>4. PICK l \in Int : y = c2 + d2 + l * q
  BY DEF Congruent
<1>5. x + S * y = (p + r) + (i + j + k + S * l) * q
  BY <1>1, <1>2, <1>3, <1>4
<1>6. i + j + k + S * l \in Int
  OBVIOUS
<1> QED
  BY <1>5, <1>6 DEF Congruent

LEMMA RelinKey ==
  ASSUME NEW q \in Int, NEW S \in Int, NEW b \in Int, NEW a \in Int, NEW u \in Int, NEW v \in Int,
         Congruent(b + a * S, S, q), Congruent(u, S * b, q), Congruent(v, S * a, q)
  PROVE  Congruent(u + v * S, S * S, q)
PROOF
<1>1. PICK i \in Int : b + a * S = S + i * q
  BY DEF Congruent
<1>2. PICK j \in Int : u = S * b + j * q
  BY DEF Congruent
<1>3. PICK k \in Int : v = S * a + k * q
  BY DEF Congruent
<1>4. u + v * S = S * S + (S * i + j + k * S) * q
  <2>1. b = S + i * q - a * S
    BY <1>1
  <2> QED
    BY <1>2, <1>3, <2>1
<1>5. S * i + j + k * S \in Int
  OBVIOUS
<1> QED
  BY <1>4, <1>5 DEF Congruent

LEMMA ProductValue ==
  ASSUME NEW q \in Int, NEW S \in Int, NEW c1 \in Int, NEW c2 \in Int, NEW d1 \in Int, NEW d2 \in Int,
         NEW p \in Int, NEW r \in Int, NEW x \in Int, NEW y \in Int,
         NEW u \in Int, NEW v \in Int, NEW s \in Int,
         Congruent(c1 + S * c2, p, q), Congruent(d1 + S * d2, r, q),
         Congruent(u + v * S, S * S, q), Congruent(s, c2 * d2, q),
         Congruent(x, c1 * d1 + s * u, q), Congruent(y, c1 * d2 + c2 * d1 + s * v, q)
  PROVE  Congruent(x + S * y, p * r, q)
PROOF
<1>1. PICK i \in Int : c1 + S * c2 = p + i * q
  BY DEF Congruent
<1>2. PICK j \in Int : d1 + S * d2 = r + j * q
  BY DEF Congruent
<1>3. PICK k \in Int : x = c1 * d1 + s * u + k * q
  BY DEF Congruent
<1>4. PICK l \in Int : y = c1 * d2 + c2 * d1 + s * v + l * q
  BY DEF Congruent
<1>5. PICK n \in Int : u + v * S = S * S + n * q
  BY DEF Congruent
<1>6. PICK o \in Int : s = c2 * d2 + o * q
  BY DEF Congruent
<1>7. x + S * y = (c1 * d1 + S * (c1 * d2) + S * (c2 * d1)) + s * (u + v * S) + (k + S * l) * q
  BY <1>3, <1>4
<1>8. s * (u + v * S) = (c2 * d2) * (S * S) + (o * (S * S) + s * n) * q
  BY <1>5, <1>6
<1>9. (p + i * q) * (r + j * q) = p * r + (p * j + i * r + i * q * j) * q
  OBVIOUS
<1>10. (c1 + S * c2) * (d1 + S * d2) = (c1 * d1 + S * (c1 * d2) + S * (c2 * d1)) + (c2 * d2) * (S * S)
  OBVIOUS
<1>11. (c1 * d1 + S * (c1 * d2) + S * (c2 * d1)) + (c2 * d2) * (S * S) = p * r + (p * j + i * r + i * q * j) * q
  BY <1>1, <1>2, <1>9, <1>10
<1> DEFINE w == k + S * l
           z == o * (S * S) + s * n
           t == p * j + i * r + i * q * j
<1>12. w \in Int /\ z \in Int /\ t \in Int
  OBVIOUS
<1>13. x + S * y = p * r + t * q + z * q + w * q
  <2> DEFINE A == c1 * d1 + S * (c1 * d2) + S * (c2 * d1)
             B == (c2 * d2) * (S * S)
             D == s * (u + v * S)
             P == p * r
             X == x + S * y
             wq == w * q
             zq == z * q
             tq == t * q
  <2>1. /\ A \in Int /\ B \in Int /\ D \in Int /\ P \in Int /\ X \in Int
        /\ wq \in Int /\ zq \in Int /\ tq \in Int
    BY <1>12
  <2>2. X = A + D + wq /\ D = B + zq /\ A + B = P + tq
    BY <1>7, <1>8, <1>11
  <2> HIDE DEF A, B, D, P, X, wq, zq, tq
  <2>3. X = P + tq + zq + wq
    BY <2>1, <2>2
  <2> QED
    BY <2>3 DEF X, P, tq, zq, wq
<1> HIDE DEF w, z, t
<1>14. x + S * y = p * r + (t + z + w) * q
  BY <1>12, <1>13
<1> DEFINE e == t + z + w
<1>15. e \in Int /\ x + S * y = p * r + e * q
  BY <1>12, <1>14
<1> HIDE DEF e
<1> QED
  BY <1>15 DEF Congruent

-----------------------------------------------------------------------------
(* Residues of what the parties add up.                                    *)

\* The parts of a decryption add up to what the ciphertext holds.
LEMMA FusionValue ==
  ASSUME NEW S, IsFiniteSet(S), NEW keys, \A i \in S : keys[i] \in Int,
         NEW c, c[1] \in Int, c[2] \in Int, NEW part, DOMAIN part = S, NEW lead \in S,
         Parts(part, keys, c, lead)
  PROVE  /\ SumOver(part, S) \in Int
         /\ Congruent(SumOver(part, S), c[1] + SumOver(keys, S) * c[2], Q[Full])
PROOF
<1> DEFINE q == Q[Full]
           z == [i \in S |-> IF i = lead THEN c[1] ELSE 0]
           g == [i \in S |-> z[i] + c[2] * keys[i]]
<1>1. q \in Int
  BY QFacts, FullFacts
<1>2. \A i \in S : part[i] \in Int /\ Congruent(part[i], keys[i] * c[2] + (IF i = lead THEN c[1] ELSE 0), q)
  BY DEF Parts
<1>3. \A i \in S : /\ z[i] \in Int /\ g[i] \in Int /\ g[i] = z[i] + c[2] * keys[i]
                   /\ g[i] = keys[i] * c[2] + (IF i = lead THEN c[1] ELSE 0)
  OBVIOUS
<1>4. z[lead] = c[1] /\ \A i \in S : i # lead => z[i] = 0
  OBVIOUS
<1> HIDE DEF q, z, g
<1>5. SumOver(part, S) \in Int
  BY <1>2, SumInt
<1>6. Congruent(SumOver(part, S), SumOver(g, S), q)
  <2>1. \A i \in S : part[i] \in Int /\ g[i] \in Int /\ Congruent(part[i], g[i], q)
    BY <1>2, <1>3
  <2> QED
    BY <1>1, <2>1, SumCongruent
<1>7. SumOver(g, S) = SumOver(z, S) + c[2] * SumOver(keys, S)
  <2>1. \A i \in S : z[i] \in Int /\ keys[i] \in Int /\ g[i] = z[i] + c[2] * keys[i]
    BY <1>3
  <2> QED
    BY <2>1, SumLinear
<1>8. SumOver(z, S) = c[1]
  <2>1. z[lead] \in Int
    BY <1>4
  <2> QED
    BY <1>4, <2>1, SumSingle
<1>9. SumOver(keys, S) \in Int
  BY SumInt
<1>10. SumOver(g, S) = c[1] + SumOver(keys, S) * c[2]
  BY <1>7, <1>8, <1>9
<1> QED
  BY <1>5, <1>6, <1>10 DEF q

LEMMA PairMasked ==
  ASSUME NEW s \in Int, NEW c2 \in Int, NEW a \in Int, NEW mask \in Int, NEW pair,
         2 * mask <= Q[CompressionLevel], - Q[CompressionLevel] <= 2 * mask,
         pair[1] = (s * c2 - mask) % Q[NumTowersToKeep], pair[2] = (- s * a + mask) % Q[Full]
  PROVE  Masked(pair, s, c2, a, mask, 1)
PROOF
<1>1. /\ Q[CompressionLevel] \in Int /\ Q[NumTowersToKeep] \in Nat \ {0} /\ Q[Full] \in Nat \ {0}
  BY QFacts, FullFacts
<1>2. s * c2 - mask \in Int /\ - s * a + mask \in Int
  OBVIOUS
<1>3. Congruent(pair[1], s * c2 - mask, Q[NumTowersToKeep])
  <2> DEFINE u == s * c2 - mask
             m == Q[NumTowersToKeep]
  <2>1. u \in Int /\ m \in Nat \ {0} /\ pair[1] = u % m
    BY <1>1, <1>2
  <2> HIDE DEF u, m
  <2>2. Congruent(u % m, u, m)
    BY <2>1, CongruentMod, Zenon
  <2> QED
    BY <2>1, <2>2 DEF u, m
<1>4. Congruent(pair[2], mask - s * a, Q[Full])
  <2> DEFINE u == - s * a + mask
             m == Q[Full]
  <2>1. u \in Int /\ m \in Nat \ {0} /\ pair[2] = u % m
    BY <1>1, <1>2
  <2>2. u = mask - s * a
    OBVIOUS
  <2> HIDE DEF u, m
  <2>3. Congruent(u % m, u, m)
    BY <2>1, CongruentMod, Zenon
  <2> QED
    BY <2>1, <2>2, <2>3 DEF m
<1>5. 1 * Q[CompressionLevel] = Q[CompressionLevel]
  BY <1>1
<1> QED
  BY <1>3, <1>4, <1>5 DEF Masked

\* The masked shares of all parties add up to one under the sum of the masks.
LEMMA MasksAddUp ==
  ASSUME NEW S, IsFiniteSet(S), NEW keys, \A i \in S : keys[i] \in Int,
         NEW c2 \in Int, NEW a \in Int, NEW f, NEW g, NEW masks,
         \A i \in S : f[i] \in Int /\ g[i] \in Int /\ masks[i] \in Int,
         \A i \in S : Masked(<<f[i], g[i]>>, keys[i], c2, a, masks[i], 1)
  PROVE  LET pair == << SumOver(f, S) % Q[NumTowersToKeep], SumOver(g, S) % Q[Full] >>
         IN  /\ SumOver(masks, S) \in Int
             /\ Masked(pair, SumOver(keys, S), c2, a, SumOver(masks, S), Cardinality(S))
PROOF
<1> DEFINE K == Q[NumTowersToKeep]
           q == Q[Full]
           l == Q[CompressionLevel]
           kc == [i \in S |-> c2 * keys[i]]
           f1 == [i \in S |-> c2 * keys[i] + (-1) * masks[i]]
           g1 == [i \in S |-> masks[i] + (- a) * keys[i]]
           d == [i \in S |-> masks[i] + masks[i]]
           T == SumOver(keys, S)
           M == SumOver(masks, S)
           F == SumOver(f, S)
           G == SumOver(g, S)
<1>1. /\ K \in Nat \ {0} /\ q \in Nat \ {0} /\ l \in Nat \ {0}
      /\ K \in Int /\ q \in Int /\ l \in Int
  BY QFacts, FullFacts
<1>2. T \in Int /\ M \in Int /\ F \in Int /\ G \in Int
  BY SumInt
<1>3. ASSUME NEW i \in S
      PROVE  /\ 2 * masks[i] <= l /\ - l <= 2 * masks[i]
             /\ Congruent(f[i], keys[i] * c2 - masks[i], K)
             /\ Congruent(g[i], masks[i] - keys[i] * a, q)
  <2>1. Masked(<<f[i], g[i]>>, keys[i], c2, a, masks[i], 1)
    OBVIOUS
  <2>2. 1 * l = l
    BY <1>1
  <2> QED
    BY <2>1, <2>2 DEF Masked
<1>4. \A i \in S : /\ kc[i] \in Int /\ f1[i] \in Int /\ g1[i] \in Int /\ d[i] \in Int
                   /\ kc[i] = 0 + c2 * keys[i]
                   /\ f1[i] = kc[i] + (-1) * masks[i] /\ g1[i] = masks[i] + (- a) * keys[i]
                   /\ f1[i] = keys[i] * c2 - masks[i] /\ g1[i] = masks[i] - keys[i] * a
                   /\ d[i] = 2 * masks[i] /\ d[i] = masks[i] + 1 * masks[i]
  OBVIOUS
<1> HIDE DEF K, q, l, kc, f1, g1, d, T, M, F, G
<1>5. SumOver(kc, S) = c2 * T
  <2> DEFINE o == [i \in S |-> 0]
  <2>1. \A i \in S : o[i] \in Int /\ o[i] = 0 /\ keys[i] \in Int /\ kc[i] = o[i] + c2 * keys[i]
    BY <1>4
  <2> HIDE DEF o
  <2>2. SumOver(kc, S) = SumOver(o, S) + c2 * SumOver(keys, S)
    BY <2>1, SumLinear
  <2>3. SumOver(o, S) = 0
    BY <2>1, SumZero
  <2> QED
    BY <1>2, <2>2, <2>3 DEF T
<1>6. SumOver(f1, S) = c2 * T - M
  <2>1. PICK minus \in Int : minus = -1
    OBVIOUS
  <2>2. \A i \in S : kc[i] \in Int /\ masks[i] \in Int /\ f1[i] = kc[i] + minus * masks[i]
    BY <1>4, <2>1
  <2>3. SumOver(f1, S) = SumOver(kc, S) + minus * SumOver(masks, S)
    BY <2>2, SumLinear
  <2>4. SumOver(f1, S) = c2 * T + minus * M
    BY <1>5, <2>3 DEF M
  <2> DEFINE u == c2 * T
  <2>5. u \in Int /\ SumOver(f1, S) = u + (-1) * M
    BY <1>2, <2>1, <2>4
  <2> HIDE DEF u
  <2>6. SumOver(f1, S) = u - M
    BY <1>2, <2>5
  <2> QED
    BY <2>6 DEF u
<1>7. SumOver(g1, S) = M - a * T
  <2>1. PICK minus \in Int : minus = - a
    OBVIOUS
  <2>2. \A i \in S : masks[i] \in Int /\ keys[i] \in Int /\ g1[i] = masks[i] + minus * keys[i]
    BY <1>4, <2>1
  <2>3. SumOver(g1, S) = SumOver(masks, S) + minus * SumOver(keys, S)
    BY <2>2, SumLinear
  <2>4. SumOver(g1, S) = M + minus * T
    BY <2>3 DEF M, T
  <2>5. minus * T = - (a * T)
    BY <1>2, <2>1
  <2>6. a * T \in Int
    BY <1>2
  <2> QED
    BY <1>2, <2>4, <2>5, <2>6
<1>8. Congruent(F, c2 * T - M, K)
  <2>1. \A i \in S : f[i] \in Int /\ f1[i] \in Int /\ Congruent(f[i], f1[i], K)
    BY <1>3, <1>4
  <2>2. Congruent(SumOver(f, S), SumOver(f1, S), K)
    BY <1>1, <2>1, SumCongruent
  <2> QED
    BY <1>6, <2>2 DEF F
<1>9. Congruent(G, M - a * T, q)
  <2>1. \A i \in S : g[i] \in Int /\ g1[i] \in Int /\ Congruent(g[i], g1[i], q)
    BY <1>3, <1>4
  <2>2. Congruent(SumOver(g, S), SumOver(g1, S), q)
    BY <1>1, <2>1, SumCongruent
  <2> QED
    BY <1>7, <2>2 DEF G
<1>10. 2 * M <= Cardinality(S) * l /\ - (Cardinality(S) * l) <= 2 * M
  <2>1. PICK unit \in Int : unit = 1
    OBVIOUS
  <2>2. \A i \in S : masks[i] \in Int /\ d[i] = masks[i] + unit * masks[i]
    BY <1>4, <2>1
  <2>3. SumOver(d, S) = SumOver(masks, S) + unit * SumOver(masks, S)
    BY <2>2, SumLinear
  <2>4. SumOver(d, S) = 2 * M
    BY <1>2, <2>1, <2>3 DEF M
  <2>5. PICK below \in Int : below = - l
    BY <1>1
  <2>6. \A i \in S : d[i] \in Int /\ d[i] <= l /\ below <= d[i]
    BY <1>3, <1>4, <2>5
  <2>7. SumOver(d, S) <= Cardinality(S) * l
    BY <1>1, <2>6, SumBound
  <2>8. Cardinality(S) * below <= SumOver(d, S)
    BY <2>6, SumBoundBelow
  <2>9. Cardinality(S) \in Nat
    BY FS_CardinalityType
  <2> DEFINE n == Cardinality(S)
  <2>10. n \in Nat /\ n * below = - (n * l)
    BY <1>1, <2>5, <2>9
  <2> HIDE DEF n
  <2> QED
    BY <2>4, <2>7, <2>8, <2>10 DEF n
<1>11. Congruent(F % K, c2 * T - M, K) /\ Congruent(G % q, M - a * T, q)
  <2> DEFINE u == c2 * T - M
             v == M - a * T
  <2>1. u \in Int /\ v \in Int
    BY <1>2
  <2>2. Congruent(F, u, K) /\ Congruent(G, v, q)
    BY <1>8, <1>9
  <2> HIDE DEF u, v
  <2>3. F % K \in 0 .. K - 1 /\ Congruent(F % K, F, K) /\ G % q \in 0 .. q - 1 /\ Congruent(G % q, G, q)
    BY <1>1, <1>2, CongruentMod, Zenon
  <2>4. F % K \in Int /\ G % q \in Int
    BY <1>1, <2>3
  <2>5. Congruent(F % K, u, K) /\ Congruent(G % q, v, q)
    BY <1>1, <1>2, <2>1, <2>2, <2>3, <2>4, CongruentTrans
  <2> QED
    BY <2>5 DEF u, v
<1>12. c2 * T = T * c2 /\ a * T = T * a
  BY <1>2
<1>13. M \in Int /\ Masked(<<F % K, G % q>>, T, c2, a, M, Cardinality(S))
  <2>1. <<F % K, G % q>>[1] = F % K /\ <<F % K, G % q>>[2] = G % q
    OBVIOUS
  <2> QED
    BY <1>2, <1>10, <1>11, <1>12, <2>1 DEF Masked, K, q, l
<1> QED
  BY <1>13 DEF M, F, G, T, K, q

\* What the joined parties make of the masked shares is what they held.
LEMMA RefreshedValue ==
  ASSUME NEW c1 \in Int, NEW c2 \in Int, NEW a \in Int, NEW T \in Int, NEW v \in Int,
         NEW n \in Nat, NEW mask \in Int, NEW pair, pair[1] \in Int, pair[2] \in Int, NEW x \in Int,
         Masked(pair, T, c2, a, mask, n), Congruent(c1 + T * c2, v, Q[NumTowersToKeep]),
         2 * v + n * Q[CompressionLevel] < Q[NumTowersToKeep],
         - (2 * v) + n * Q[CompressionLevel] < Q[NumTowersToKeep],
         Congruent(x, Centred(c1 + pair[1], Q[NumTowersToKeep]) + pair[2], Q[Full])
  PROVE  Congruent(x + T * a, v, Q[Full])
PROOF
<1> DEFINE K == Q[NumTowersToKeep]
           q == Q[Full]
           nl == n * Q[CompressionLevel]
           p1 == pair[1]
           p2 == pair[2]
           c0 == Centred(c1 + p1, K)
<1>1. /\ K \in Nat \ {0} /\ K \in Int /\ q \in Int /\ nl \in Int /\ p1 \in Int /\ p2 \in Int
  BY QFacts, FullFacts
<1>2. /\ 2 * mask <= nl /\ - nl <= 2 * mask /\ Congruent(p1, T * c2 - mask, K)
      /\ Congruent(p2, mask - T * a, q)
      /\ 2 * v + nl < K /\ - (2 * v) + nl < K /\ Congruent(c1 + T * c2, v, K)
      /\ Congruent(x, c0 + p2, q)
  BY DEF Masked
<1> HIDE DEF K, q, nl, p1, p2
<1>3. Congruent(c1 + p1, v - mask, K)
  <2>1. PICK i \in Int : p1 = T * c2 - mask + i * K
    BY <1>2 DEF Congruent
  <2>2. PICK j \in Int : c1 + T * c2 = v + j * K
    BY <1>2 DEF Congruent
  <2> DEFINE t == T * c2
             u == i * K
             w == j * K
  <2>3. t \in Int /\ u \in Int /\ w \in Int /\ p1 = t - mask + u /\ c1 + t = v + w
    BY <1>1, <2>1, <2>2
  <2>4. (i + j) * K = u + w /\ i + j \in Int
    BY <1>1
  <2> HIDE DEF t, u, w
  <2>5. c1 + p1 = v - mask + (u + w)
    BY <2>3
  <2> QED
    BY <2>4, <2>5 DEF Congruent
<1>4. c0 = v - mask
  <2>1. c1 + p1 \in Int /\ v - mask \in Int /\ 2 * (v - mask) < K /\ - K < 2 * (v - mask)
    BY <1>1, <1>2
  <2> QED
    BY <1>1, <1>3, <2>1, CentredSmall
<1> HIDE DEF c0
<1>5. PICK i \in Int : x = v - mask + p2 + i * q
  BY <1>2, <1>4 DEF Congruent
<1>6. PICK j \in Int : p2 = mask - T * a + j * q
  BY <1>2 DEF Congruent
<1>7. x + T * a = v + (i + j) * q /\ i + j \in Int
  <2> DEFINE t == T * a
             u == i * q
             w == j * q
  <2>1. t \in Int /\ u \in Int /\ w \in Int /\ p2 = mask - t + w /\ x = v - mask + p2 + u
    BY <1>1, <1>5, <1>6
  <2>2. (i + j) * q = u + w /\ i + j \in Int
    BY <1>1
  <2> HIDE DEF t, u, w
  <2>3. x + t = v + (u + w)
    BY <2>1
  <2> QED
    BY <2>2, <2>3 DEF t
<1> QED
  BY <1>7 DEF Congruent, q

-----------------------------------------------------------------------------
(* What steps leave alone.                                                 *)

LEMMA PhaseStays ==
  ASSUME secretKeys' = secretKeys
  PROVE  \A c : Phase(c)' = Phase(c)
PROOF
  BY DEF Phase

LEMMA CombinedKeysStay ==
  ASSUME KeysJoin, KeysMultiply, UNCHANGED keyVars, UNCHANGED <<multKey, multipliers>>
  PROVE  KeysJoin' /\ KeysMultiply'
PROOF
  BY DEF KeysJoin, KeysMultiply, keyVars

LEMMA PartsStay ==
  ASSUME PartsAddUp, UNCHANGED <<scheme, secretKeys, partials>>,
         DOMAIN ciphertexts \subseteq DOMAIN ciphertexts',
         \A k \in DOMAIN ciphertexts : ciphertexts'[k] = ciphertexts[k]
  PROVE  PartsAddUp'
PROOF
<1> SUFFICES ASSUME partials # None PROVE PartsAddUp'
  BY DEF PartsAddUp
<1>1. /\ partials = [of |-> partials.of, part |-> partials.part]
      /\ partials.of \in DOMAIN ciphertexts /\ DOMAIN partials.part \subseteq Parties
  BY DEF PartsAddUp
<1>2. PICK lead \in DOMAIN partials.part :
        Parts(partials.part, secretKeys, ciphertexts[partials.of].elements, lead)
  BY DEF PartsAddUp
<1>3. Parties' = Parties
  BY DEF Parties
<1>4. partials.of \in DOMAIN ciphertexts' /\ ciphertexts'[partials.of] = ciphertexts[partials.of]
  BY <1>1
<1>5. partials' = partials /\ secretKeys' = secretKeys
  OBVIOUS
<1>6. Parts(partials'.part, secretKeys', ciphertexts'[partials'.of].elements, lead)
  BY <1>2, <1>4, <1>5
<1> QED
  BY <1>1, <1>3, <1>4, <1>5, <1>6 DEF PartsAddUp

LEMMA RefreshHoldsStays ==
  ASSUME RefreshHolds, UNCHANGED secretKeys, refresh' = None \/ refresh'.input = refresh.input,
         refresh' # None => refresh # None,
         DOMAIN ciphertexts \subseteq DOMAIN ciphertexts',
         \A k \in DOMAIN ciphertexts : ciphertexts'[k] = ciphertexts[k]
  PROVE  RefreshHolds'
PROOF
<1> SUFFICES ASSUME refresh' # None PROVE RefreshHolds'
  BY DEF RefreshHolds
<1>1. PICK k \in DOMAIN ciphertexts :
        Congruent(refresh.input.elements[1] + Total(secretKeys) * refresh.input.elements[2],
                  Phase(ciphertexts[k]), Q[NumTowersToKeep])
  BY DEF RefreshHolds
<1>2. k \in DOMAIN ciphertexts' /\ ciphertexts'[k] = ciphertexts[k]
  OBVIOUS
<1>3. Phase(ciphertexts[k])' = Phase(ciphertexts[k])
  <2>1. \A c : Phase(c)' = Phase(c)
    BY PhaseStays
  <2>2. Phase(ciphertexts[k])' = Centred(ciphertexts'[k].elements[1]
          + Centred(Sum(secretKeys'), Q[Full]) * ciphertexts'[k].elements[2], Q[ciphertexts'[k].towers])
    BY DEF Phase
  <2>3. Phase(ciphertexts[k]) = Centred(ciphertexts[k].elements[1]
          + Centred(Sum(secretKeys), Q[Full]) * ciphertexts[k].elements[2], Q[ciphertexts[k].towers])
    BY DEF Phase
  <2> QED
    BY <1>2, <2>2, <2>3
<1>4. refresh'.input = refresh.input /\ secretKeys' = secretKeys
  OBVIOUS
<1> QED
  BY <1>1, <1>2, <1>3, <1>4 DEF RefreshHolds

\* What Append makes, element by element.
LEMMA AppendIs ==
  ASSUME NEW E, NEW s \in Seq(E), NEW e
  PROVE  Append(s, e) = [k \in 1 .. Len(s) + 1 |-> IF k = Len(s) + 1 THEN e ELSE s[k]]
PROOF
<1> DEFINE p == Append(s, e)
           F == E \cup {e}
<1>1. p \in Seq(F) /\ Len(p) = Len(s) + 1 /\ Len(s) \in Nat
  OBVIOUS
<1>2. \A k \in 1 .. Len(s) : p[k] = s[k]
  OBVIOUS
<1>3. p[Len(s) + 1] = e
  OBVIOUS
<1> HIDE DEF p, F
<1>4. p \in [1 .. Len(p) -> F]
  BY <1>1
<1>5. p = [k \in 1 .. Len(s) + 1 |-> IF k = Len(s) + 1 THEN e ELSE s[k]]
  BY <1>1, <1>2, <1>3, <1>4
<1> QED
  BY <1>5 DEF p

-----------------------------------------------------------------------------
(* A number within its bound is not changed by the moduli.                 *)
LEMMA BoundFacts ==
  ASSUME NEW bound, MessagesFit(bound), scheme \in Schemes, NEW k \in 1 .. MaxCiphertexts,
         NEW v \in Int, Within(v, bound[k])
  PROVE  /\ 2 * v < Q[Full] /\ - Q[Full] < 2 * v
         /\ 2 * v + scheme.parties * Q[CompressionLevel] < Q[NumTowersToKeep]
         /\ - (2 * v) + scheme.parties * Q[CompressionLevel] < Q[NumTowersToKeep]
PROOF
<1> DEFINE K == Q[NumTowersToKeep]
           q == Q[Full]
           l == Q[CompressionLevel]
           n == scheme.parties
           b == bound[k]
<1>1. K \in Nat \ {0} /\ q \in Nat \ {0} /\ l \in Nat \ {0} /\ n \in Nat /\ b \in Nat
  BY QFacts, FullFacts, SchemeFacts DEF MessagesFit
<1>2. 2 * b + n * l < K /\ - b <= v /\ v <= b
  BY DEF MessagesFit, Within
<1>3. K <= q
  <2>1. NumTowersToKeep \in 0 .. Full /\ Full \in 0 .. Full /\ NumTowersToKeep <= Full
    BY FullFacts
  <2>2. PICK r \in Nat \ {0} : q = K * r
    BY <2>1, QDivides
  <2> HIDE DEF K, q
  <2>3. K * r = K + K * (r - 1) /\ K * (r - 1) >= 0
    BY <1>1
  <2>4. K * (r - 1) \in Int
    BY <1>1
  <2> QED
    BY <1>1, <2>2, <2>3, <2>4
<1> HIDE DEF K, q, l, b, n
<1>4. n * l \in Nat
  BY <1>1
<1> DEFINE nl == n * l
<1>5. nl \in Nat /\ 2 * b + nl < K
  BY <1>2, <1>4
<1> HIDE DEF nl
<1>6. 2 * v < q /\ - q < 2 * v /\ 2 * v + nl < K /\ - (2 * v) + nl < K
  BY <1>1, <1>2, <1>3, <1>5
<1> QED
  BY <1>6 DEF nl, K, q, l, n

PhaseWith(keys, c) ==
  Centred(c.elements[1] + Centred(Sum(keys), Q[Full]) * c.elements[2], Q[c.towers])

LEMMA PhaseNext ==
  /\ \A c : Phase(c) = PhaseWith(secretKeys, c)
  /\ \A k : Phase(ciphertexts[k])' = PhaseWith(secretKeys', ciphertexts'[k])
PROOF
  BY DEF Phase, PhaseWith

(* Storing a ciphertext that holds v gives the evaluator the number v.     *)
LEMMA StoreValue ==
  ASSUME NEW bound, SInv(bound), MessagesFit(bound),
         NEW c \in Ciphertexts, Reduced(c), c.towers = Full, Store(c),
         refresh' = refresh \/ refresh' = None,
         NEW v \in Int, Congruent(c.elements[1] + Total(secretKeys) * c.elements[2], v, Q[Full]),
         Len(ciphertexts) + 1 \in 1 .. MaxCiphertexts => Within(v, bound[Len(ciphertexts) + 1])
  PROVE  /\ KeysJoin' /\ KeysMultiply' /\ ValuesSmall(bound)' /\ PartsAddUp'
         /\ RefreshHolds' /\ RefreshMasked' /\ Ideal!New(v)
PROOF
<1>0. PICK n \in Nat : n = Len(ciphertexts)
  BY StoreStep DEF SInv
<1>1. /\ n \in Nat /\ n < MaxCiphertexts /\ MaxCiphertexts \in Nat
      /\ UNCHANGED keyVars /\ UNCHANGED <<multKey, multipliers, alive, partials, revealed>>
      /\ UNCHANGED <<scheme, secretKeys>>
      /\ ciphertexts' = Append(ciphertexts, c)
  <2>2. UNCHANGED keyVars /\ UNCHANGED <<multKey, multipliers, alive, partials, revealed>>
    BY DEF Store
  <2> QED
    BY <1>0, <2>2 DEF Store, keyVars, MessagesFit
<1>2. /\ Len(ciphertexts') = n + 1 /\ DOMAIN ciphertexts = 1 .. n /\ DOMAIN ciphertexts' = 1 .. n + 1
      /\ \A k \in 1 .. n : ciphertexts'[k] = ciphertexts[k]
      /\ ciphertexts'[n + 1] = c
  BY <1>0, StoreStep DEF SInv
<1>3. DOMAIN ciphertexts \subseteq DOMAIN ciphertexts'
      /\ \A k \in DOMAIN ciphertexts : ciphertexts'[k] = ciphertexts[k]
  BY <1>1, <1>2
<1>4. n + 1 \in 1 .. MaxCiphertexts /\ Within(v, bound[n + 1]) /\ scheme \in Schemes
  <2>1. n + 1 \in 1 .. MaxCiphertexts
    BY <1>1
  <2> QED
    BY <1>0, <2>1 DEF SInv, TInv, KeysShared
<1>5. Phase(c) = v
  <2>1. 2 * v < Q[Full] /\ - Q[Full] < 2 * v
    BY <1>4, BoundFacts
  <2> QED
    BY <2>1, PhaseFacts DEF SInv, TInv
<1>6. /\ \A k \in 1 .. n : Phase(ciphertexts[k])' = Phase(ciphertexts[k])
      /\ Phase(ciphertexts[n + 1])' = v
  <2>1. \A k \in 1 .. n : PhaseWith(secretKeys', ciphertexts'[k]) = PhaseWith(secretKeys, ciphertexts[k])
    BY <1>1, <1>2
  <2>2. PhaseWith(secretKeys', ciphertexts'[n + 1]) = PhaseWith(secretKeys, c)
    BY <1>1, <1>2
  <2> QED
    BY <1>5, <2>1, <2>2, PhaseNext
<1>7. ValuesSmall(bound)'
  <2>1. \A k \in DOMAIN ciphertexts' : Within(Phase(ciphertexts[k])', bound[k])
    <3>1. \A k \in 1 .. n : Within(Phase(ciphertexts[k]), bound[k])
      BY <1>2 DEF SInv, ValuesSmall
    <3>2. \A k \in 1 .. n + 1 : k \in 1 .. n \/ k = n + 1
      BY <1>1
    <3> QED
      BY <1>2, <1>4, <1>6, <3>1, <3>2
  <2>2. Len(ciphertexts') <= MaxCiphertexts
    BY <1>1, <1>2
  <2> QED
    BY <2>1, <2>2 DEF ValuesSmall
<1>8. KeysJoin' /\ KeysMultiply'
  BY <1>1, CombinedKeysStay DEF SInv
<1>9. PartsAddUp'
  BY <1>1, <1>3, PartsStay DEF SInv
<1>10. RefreshHolds'
  BY <1>1, <1>3, RefreshHoldsStays DEF SInv
<1>11. RefreshMasked'
  BY <1>1 DEF SInv, RefreshMasked
<1>12. Ideal!New(v)
  <2> DEFINE old == [k \in DOMAIN ciphertexts |-> Phase(ciphertexts[k])]
             new == [k \in DOMAIN ciphertexts' |-> Phase(ciphertexts[k])']
  <2>1. old = [k \in 1 .. n |-> Phase(ciphertexts[k])] /\ new = [k \in 1 .. n + 1 |-> Phase(ciphertexts[k])']
    BY <1>2
  <2>2. old \in Seq({Phase(ciphertexts[k]) : k \in 1 .. n}) /\ Len(old) = n
    <3> DEFINE E == {Phase(ciphertexts[k]) : k \in 1 .. n}
    <3>1. old \in [1 .. n -> E]
      BY <2>1
    <3> HIDE DEF E, old
    <3>2. n \in Nat
      BY <1>1
    <3>3. old \in Seq(E)
      BY <3>1, <3>2
    <3>4. Len(old) = n
      BY <3>1, <3>2
    <3> QED
      BY <3>3, <3>4 DEF E
  <2>3. \A k \in 1 .. n : new[k] = old[k]
    BY <1>1, <1>6, <2>1
  <2>4. new[n + 1] = v
    BY <1>1, <1>6, <2>1
  <2>5. new = Append(old, v)
    <3>1. DOMAIN new = 1 .. n + 1 /\ new = [k \in 1 .. n + 1 |-> new[k]]
      BY <2>1
    <3> HIDE DEF new, old
    <3> DEFINE E == {Phase(ciphertexts[k]) : k \in 1 .. n}
    <3>2. old \in Seq(E) /\ Len(old) = n
      BY <2>2
    <3> HIDE DEF E
    <3>3. Append(old, v) = [k \in 1 .. n + 1 |-> IF k = n + 1 THEN v ELSE old[k]]
      BY <3>2, AppendIs
    <3>4. \A k \in 1 .. n + 1 : new[k] = IF k = n + 1 THEN v ELSE old[k]
      <4>1. \A k \in 1 .. n + 1 : k \in 1 .. n \/ k = n + 1
        BY <1>1
      <4>2. n + 1 \notin 1 .. n
        BY <1>1
      <4> QED
        BY <2>3, <2>4, <4>1, <4>2
    <3> QED
      BY <3>1, <3>3, <3>4
  <2>6. [k \in DOMAIN ciphertexts |-> Phase(ciphertexts[k])]' = new
    OBVIOUS
  <2>7. Len(old) < MaxCiphertexts /\ revealed' = revealed
    BY <1>1, <2>2
  <2> QED
    BY <2>5, <2>6, <2>7 DEF Ideal!New
<1> QED
  BY <1>7, <1>8, <1>9, <1>10, <1>11, <1>12

-----------------------------------------------------------------------------
(* Each step keeps the invariant and is a step of the evaluator or none.   *)
Advances(bound) ==
  /\ KeysJoin' /\ KeysMultiply' /\ ValuesSmall(bound)' /\ PartsAddUp' /\ RefreshHolds' /\ RefreshMasked'
  /\ Ideal!Next \/ UNCHANGED Ideal!vars

LEMMA JoinedKeyFacts ==
  ASSUME NEW bound, SInv(bound), Joined = Parties
  PROVE  /\ Total(secretKeys) \in Int /\ Q[Full] \in Nat \ {0} /\ Q[Full] \in Int
         /\ secretKeys # <<>> /\ Len(secretKeys) = scheme.parties
         /\ publicKey.b \in Int /\ publicKey.a \in Int /\ evalKey.b \in Int /\ evalKey.a \in Int
         /\ Congruent(publicKey.b + publicKey.a * Total(secretKeys), 0, Q[Full])
         /\ Congruent(evalKey.b + evalKey.a * Total(secretKeys), Total(secretKeys), Q[Full])
PROOF
<1>1. Total(secretKeys) \in Int /\ KeysShared /\ KeysTyped
  BY TotalFacts DEF SInv, TInv
<1>2. Q[Full] \in Nat \ {0} /\ Q[Full] \in Int
  BY QFacts, FullFacts
<1>3. Len(secretKeys) = scheme.parties /\ scheme.parties >= 2 /\ scheme.parties \in Nat
  BY <1>1, JoinedFacts, SchemeFacts DEF KeysShared
<1>4. secretKeys # <<>>
  BY <1>3
<1>5. publicKey \in Keys /\ evalKey \in Keys
  BY <1>1, <1>4 DEF KeysTyped
<1>6. publicKey.b \in Int /\ publicKey.a \in Int /\ evalKey.b \in Int /\ evalKey.a \in Int
  BY <1>5, KeyFacts
<1> QED
  BY <1>1, <1>2, <1>3, <1>4, <1>6 DEF SInv, KeysJoin

LEMMA ModFull ==
  ASSUME NEW x \in Int
  PROVE  x % Q[Full] \in Int /\ Congruent(x % Q[Full], x, Q[Full])
PROOF
<1>1. Full \in 0 .. Full
  BY FullFacts
<1> QED
  BY <1>1, QMod

\* The evaluator's values.
LEMMA ValueFacts ==
  ASSUME NEW bound, SInv(bound), MessagesFit(bound), NEW k \in DOMAIN ciphertexts
  PROVE  /\ ciphertexts[k] \in Ciphertexts /\ ciphertexts[k].towers = Full
         /\ ciphertexts[k].elements[1] \in Int /\ ciphertexts[k].elements[2] \in Int
         /\ Phase(ciphertexts[k]) \in Int /\ Within(Phase(ciphertexts[k]), bound[k])
         /\ Congruent(ciphertexts[k].elements[1] + Total(secretKeys) * ciphertexts[k].elements[2],
                      Phase(ciphertexts[k]), Q[Full])
         /\ k \in 1 .. MaxCiphertexts /\ k < Len(ciphertexts) + 1 /\ bound[k] \in Nat
         /\ k \in 1 .. Len(ciphertexts) /\ Len(ciphertexts) \in Nat
PROOF
<1>1. Len(ciphertexts) \in Nat /\ k \in 1 .. Len(ciphertexts) /\ ciphertexts[k] \in Ciphertexts
      /\ ciphertexts[k].towers = Full
  BY DEF SInv, TInv, CiphertextsTyped
<1>2. Len(ciphertexts) <= MaxCiphertexts /\ MaxCiphertexts \in Nat /\ Within(Phase(ciphertexts[k]), bound[k])
  BY DEF SInv, ValuesSmall, MessagesFit
<1>3. k \in 1 .. MaxCiphertexts /\ k < Len(ciphertexts) + 1
  BY <1>1, <1>2
<1>4. bound[k] \in Nat
  BY <1>3 DEF MessagesFit
<1>5. ciphertexts[k].elements[1] \in Int /\ ciphertexts[k].elements[2] \in Int
  BY <1>1, CiphertextFacts
<1>6. Phase(ciphertexts[k]) \in Int
      /\ Congruent(ciphertexts[k].elements[1] + Total(secretKeys) * ciphertexts[k].elements[2],
                   Phase(ciphertexts[k]), Q[Full])
  BY <1>1, PhaseFacts DEF SInv, TInv
<1> QED
  BY <1>1, <1>2, <1>3, <1>4, <1>5, <1>6

LEMMA EncryptAdvances ==
  ASSUME NEW bound, SInv(bound), MessagesFit(bound), Encrypt
  PROVE  Advances(bound)
PROOF
<1>1. PICK m \in Messages, v \in Int :
        LET c == [elements |-> << (publicKey.b * v + m) % Q[Full],
                                  (publicKey.a * v) % Q[Full] >>, towers |-> Full]
        IN  Store(c) /\ refresh' = refresh /\ c \in Ciphertexts /\ Reduced(c) /\ m \in Int
  BY EncryptStores DEF SInv
<1> DEFINE b == publicKey.b
           a == publicKey.a
           q == Q[Full]
           T == Total(secretKeys)
           x == (b * v + m) % q
           y == (a * v) % q
           c == [elements |-> <<x, y>>, towers |-> Full]
<1>2. Store(c) /\ refresh' = refresh /\ c \in Ciphertexts /\ Reduced(c) /\ m \in Int /\ c.towers = Full
      /\ c.elements[1] = x /\ c.elements[2] = y
  BY <1>1
<1>3. Joined = Parties
  BY <1>2 DEF Store
<1>4. b \in Int /\ a \in Int /\ T \in Int /\ q \in Int /\ Congruent(b + a * T, 0, q)
  BY <1>3, JoinedKeyFacts
<1>5. x \in Int /\ y \in Int /\ Congruent(x, b * v + m, q) /\ Congruent(y, a * v, q)
  <2>1. b * v + m \in Int /\ a * v \in Int
    BY <1>2, <1>4
  <2> QED
    BY <2>1, ModFull
<1> HIDE DEF b, a, q, T, x, y
<1>6. Congruent(x + T * y, m, q)
  BY <1>2, <1>4, <1>5, FreshValue
<1>7. Congruent(c.elements[1] + Total(secretKeys) * c.elements[2], m, Q[Full])
  BY <1>2, <1>6 DEF T, q
<1>8. Len(ciphertexts) + 1 \in 1 .. MaxCiphertexts => Within(m, bound[Len(ciphertexts) + 1])
  BY DEF MessagesFit, Within
<1> HIDE DEF c
<1>9. /\ KeysJoin' /\ KeysMultiply' /\ ValuesSmall(bound)' /\ PartsAddUp' /\ RefreshHolds' /\ RefreshMasked'
      /\ Ideal!New(m)
  BY <1>2, <1>7, <1>8, StoreValue
<1>10. Ideal!Next
  BY <1>9 DEF Ideal!Next, Ideal!Encrypt
<1> QED
  BY <1>9, <1>10 DEF Advances

LEMMA EvalAddAdvances ==
  ASSUME NEW bound, SInv(bound), MessagesFit(bound), EvalAdd
  PROVE  Advances(bound)
PROOF
<1>1. PICK j \in DOMAIN ciphertexts, k \in DOMAIN ciphertexts :
        LET c == ciphertexts[j].elements  d == ciphertexts[k].elements
            sum == [elements |-> <<(c[1] + d[1]) % Q[Full], (c[2] + d[2]) % Q[Full]>>, towers |-> Full]
        IN  Store(sum) /\ refresh' = refresh /\ sum \in Ciphertexts /\ Reduced(sum)
  BY EvalAddStores DEF SInv
<1> DEFINE c1 == ciphertexts[j].elements[1]
           c2 == ciphertexts[j].elements[2]
           d1 == ciphertexts[k].elements[1]
           d2 == ciphertexts[k].elements[2]
           p == Phase(ciphertexts[j])
           r == Phase(ciphertexts[k])
           q == Q[Full]
           T == Total(secretKeys)
           x == (c1 + d1) % q
           y == (c2 + d2) % q
           c == [elements |-> <<x, y>>, towers |-> Full]
           n == Len(ciphertexts) + 1
<1>2. Store(c) /\ refresh' = refresh /\ c \in Ciphertexts /\ Reduced(c) /\ c.towers = Full
      /\ c.elements[1] = x /\ c.elements[2] = y
  BY <1>1
<1>3. Joined = Parties
  BY <1>2 DEF Store
<1>4. /\ c1 \in Int /\ c2 \in Int /\ d1 \in Int /\ d2 \in Int /\ p \in Int /\ r \in Int
      /\ Congruent(c1 + T * c2, p, q) /\ Congruent(d1 + T * d2, r, q)
      /\ Within(p, bound[j]) /\ Within(r, bound[k]) /\ bound[j] \in Nat /\ bound[k] \in Nat
      /\ j \in 1 .. MaxCiphertexts /\ k \in 1 .. MaxCiphertexts /\ j < n /\ k < n
  <2>1. /\ c1 \in Int /\ c2 \in Int /\ p \in Int /\ Congruent(c1 + T * c2, p, q)
        /\ Within(p, bound[j]) /\ bound[j] \in Nat /\ j \in 1 .. MaxCiphertexts /\ j < n
    BY ValueFacts
  <2>2. /\ d1 \in Int /\ d2 \in Int /\ r \in Int /\ Congruent(d1 + T * d2, r, q)
        /\ Within(r, bound[k]) /\ bound[k] \in Nat /\ k \in 1 .. MaxCiphertexts /\ k < n
    BY ValueFacts
  <2> HIDE DEF c1, c2, d1, d2, p, r, q, T, n
  <2> QED
    BY <2>1, <2>2
<1>5. T \in Int /\ q \in Int
  BY <1>3, JoinedKeyFacts
<1>6. x \in Int /\ y \in Int /\ Congruent(x, c1 + d1, q) /\ Congruent(y, c2 + d2, q)
  <2> HIDE DEF c1, c2, d1, d2
  <2>1. c1 + d1 \in Int /\ c2 + d2 \in Int
    BY <1>4
  <2> QED
    BY <2>1, ModFull
<1>7. n \in 1 .. MaxCiphertexts => Within(p + r, bound[n])
  <2> SUFFICES ASSUME n \in 1 .. MaxCiphertexts PROVE Within(p + r, bound[n])
    OBVIOUS
  <2>1. bound[j] + bound[k] <= bound[n] /\ bound[n] \in Nat
    BY <1>4 DEF MessagesFit
  <2> DEFINE bj == bound[j]
             bk == bound[k]
             bn == bound[n]
  <2>2. bj + bk <= bn /\ bj \in Nat /\ bk \in Nat /\ bn \in Nat /\ - bj <= p /\ p <= bj /\ - bk <= r /\ r <= bk
    BY <1>4, <2>1 DEF Within
  <2> HIDE DEF bj, bk, bn, p, r
  <2>3. - bn <= p + r /\ p + r <= bn
    BY <1>4, <2>2
  <2> QED
    BY <2>3 DEF Within, bn
<1> HIDE DEF q, T, x, y, c1, c2, d1, d2, p, r
<1>8. Congruent(x + T * y, p + r, q)
  BY <1>4, <1>5, <1>6, SumValue
<1>9. Congruent(c.elements[1] + Total(secretKeys) * c.elements[2], p + r, Q[Full]) /\ p + r \in Int
  BY <1>2, <1>4, <1>8 DEF T, q
<1> HIDE DEF c
<1>10. /\ KeysJoin' /\ KeysMultiply' /\ ValuesSmall(bound)' /\ PartsAddUp' /\ RefreshHolds' /\ RefreshMasked'
       /\ Ideal!New(p + r)
  BY <1>2, <1>7, <1>9, StoreValue
<1>11. Ideal!Next
  BY <1>10 DEF Ideal!Next, Ideal!EvalAdd, Ideal!Handles, p, r
<1> QED
  BY <1>10, <1>11 DEF Advances

\* Once all have contributed the multiplication key is that of the square.
LEMMA MultKeyFacts ==
  ASSUME NEW bound, SInv(bound), Joined = Parties, multipliers = scheme.parties, multKey \in Keys
  PROVE  /\ multKey.b \in Int /\ multKey.a \in Int
         /\ Congruent(multKey.b + multKey.a * Total(secretKeys),
                      Total(secretKeys) * Total(secretKeys), Q[Full])
PROOF
<1> DEFINE u == multKey.b
           v == multKey.a
           b == evalKey.b
           a == evalKey.a
           T == Total(secretKeys)
           q == Q[Full]
<1>1. /\ T \in Int /\ q \in Int /\ b \in Int /\ a \in Int /\ Len(secretKeys) = scheme.parties
      /\ Congruent(b + a * T, T, q)
  BY JoinedKeyFacts
<1>2. u \in Int /\ v \in Int
  BY KeyFacts
<1>3. multipliers > 0 /\ multipliers \in Nat
  BY SchemeFacts DEF SInv, TInv, KeysShared
<1>4. LastKeys(secretKeys, multipliers) = T
  <2>1. Len(secretKeys) - multipliers + 1 = 1
    BY <1>1, <1>3
  <2> QED
    BY <2>1 DEF LastKeys, Total
<1>5. Congruent(u, T * b, q) /\ Congruent(v, T * a, q)
  BY <1>3, <1>4 DEF SInv, KeysMultiply
<1> HIDE DEF u, v, b, a, T, q
<1>6. Congruent(u + v * T, T * T, q)
  BY <1>1, <1>2, <1>5, RelinKey
<1> QED
  BY <1>2, <1>6 DEF u, v, T, q

LEMMA ProductWithin ==
  ASSUME NEW p \in Int, NEW r \in Int, NEW i \in Nat, NEW j \in Nat, NEW n \in Nat,
         Within(p, i), Within(r, j), i * j <= n
  PROVE  Within(p * r, n)
PROOF
<1>1. - i <= p /\ p <= i /\ - j <= r /\ r <= j
  BY DEF Within
<1>2. i * j \in Int /\ p * r \in Int /\ p * j \in Int /\ i * r \in Int
  OBVIOUS
<1>3. p * r <= i * j
  <2>1. (i - p) * (j + r) >= 0 /\ (i + p) * (j - r) >= 0
    <3>1. i - p \in Nat /\ j + r \in Nat /\ i + p \in Nat /\ j - r \in Nat
      BY <1>1
    <3>2. \A x, y \in Nat : x * y >= 0
      OBVIOUS
    <3> QED
      BY <3>1, <3>2
  <2>2. (i - p) * (j + r) = i * j + i * r - p * j - p * r
    OBVIOUS
  <2>3. (i + p) * (j - r) = i * j - i * r + p * j - p * r
    OBVIOUS
  <2> QED
    BY <1>2, <2>1, <2>2, <2>3
<1>4. - (i * j) <= p * r
  <2>1. (i - p) * (j - r) >= 0 /\ (i + p) * (j + r) >= 0
    <3>1. i - p \in Nat /\ j + r \in Nat /\ i + p \in Nat /\ j - r \in Nat
      BY <1>1
    <3>2. \A x, y \in Nat : x * y >= 0
      OBVIOUS
    <3> QED
      BY <3>1, <3>2
  <2>2. (i - p) * (j - r) = i * j - i * r - p * j + p * r
    OBVIOUS
  <2>3. (i + p) * (j + r) = i * j + i * r + p * j + p * r
    OBVIOUS
  <2> QED
    BY <1>2, <2>1, <2>2, <2>3
<1>5. - n <= p * r /\ p * r <= n
  BY <1>2, <1>3, <1>4
<1> QED
  BY <1>5 DEF Within

LEMMA EvalMultAdvances ==
  ASSUME NEW bound, SInv(bound), MessagesFit(bound), EvalMult
  PROVE  Advances(bound)
PROOF
<1>1. PICK j \in DOMAIN ciphertexts, k \in DOMAIN ciphertexts :
        LET c == ciphertexts[j].elements  d == ciphertexts[k].elements
            square == (c[2] * d[2]) % Q[Full]
            new == [elements |-> << (c[1] * d[1] + square * multKey.b) % Q[Full],
                                    (c[1] * d[2] + c[2] * d[1] + square * multKey.a) % Q[Full] >>,
                    towers |-> Full]
        IN  /\ Store(new) /\ refresh' = refresh /\ new \in Ciphertexts /\ Reduced(new)
            /\ multipliers = scheme.parties /\ multKey \in Keys
  BY EvalMultStores DEF SInv
<1> DEFINE c1 == ciphertexts[j].elements[1]
           c2 == ciphertexts[j].elements[2]
           d1 == ciphertexts[k].elements[1]
           d2 == ciphertexts[k].elements[2]
           p == Phase(ciphertexts[j])
           r == Phase(ciphertexts[k])
           q == Q[Full]
           T == Total(secretKeys)
           u == multKey.b
           v == multKey.a
           s == (c2 * d2) % q
           x == (c1 * d1 + s * u) % q
           y == (c1 * d2 + c2 * d1 + s * v) % q
           c == [elements |-> <<x, y>>, towers |-> Full]
           n == Len(ciphertexts) + 1
<1>2. Store(c) /\ refresh' = refresh /\ c \in Ciphertexts /\ Reduced(c) /\ c.towers = Full
      /\ c.elements[1] = x /\ c.elements[2] = y /\ multipliers = scheme.parties /\ multKey \in Keys
  BY <1>1
<1>3. Joined = Parties
  BY <1>2 DEF Store
<1>4. /\ c1 \in Int /\ c2 \in Int /\ d1 \in Int /\ d2 \in Int /\ p \in Int /\ r \in Int
      /\ Congruent(c1 + T * c2, p, q) /\ Congruent(d1 + T * d2, r, q)
      /\ Within(p, bound[j]) /\ Within(r, bound[k]) /\ bound[j] \in Nat /\ bound[k] \in Nat
      /\ j \in 1 .. MaxCiphertexts /\ k \in 1 .. MaxCiphertexts /\ j < n /\ k < n
  <2>1. /\ c1 \in Int /\ c2 \in Int /\ p \in Int /\ Congruent(c1 + T * c2, p, q)
        /\ Within(p, bound[j]) /\ bound[j] \in Nat /\ j \in 1 .. MaxCiphertexts /\ j < n
    BY ValueFacts
  <2>2. /\ d1 \in Int /\ d2 \in Int /\ r \in Int /\ Congruent(d1 + T * d2, r, q)
        /\ Within(r, bound[k]) /\ bound[k] \in Nat /\ k \in 1 .. MaxCiphertexts /\ k < n
    BY ValueFacts
  <2> HIDE DEF c1, c2, d1, d2, p, r, q, T, n
  <2> QED
    BY <2>1, <2>2
<1>5. T \in Int /\ q \in Int /\ u \in Int /\ v \in Int /\ Congruent(u + v * T, T * T, q)
  BY <1>2, <1>3, JoinedKeyFacts, MultKeyFacts
<1>6. s \in Int /\ Congruent(s, c2 * d2, q)
  <2>1. c2 * d2 \in Int
    BY <1>4
  <2> QED
    BY <2>1, ModFull
<1> HIDE DEF s
<1>7. x \in Int /\ y \in Int /\ Congruent(x, c1 * d1 + s * u, q) /\ Congruent(y, c1 * d2 + c2 * d1 + s * v, q)
  <2> HIDE DEF c1, c2, d1, d2, u, v
  <2>1. c1 * d1 + s * u \in Int /\ c1 * d2 + c2 * d1 + s * v \in Int
    BY <1>4, <1>5, <1>6
  <2> QED
    BY <2>1, ModFull
<1>8. n \in 1 .. MaxCiphertexts => Within(p * r, bound[n])
  <2> SUFFICES ASSUME n \in 1 .. MaxCiphertexts PROVE Within(p * r, bound[n])
    OBVIOUS
  <2>1. bound[j] * bound[k] <= bound[n] /\ bound[n] \in Nat
    BY <1>4 DEF MessagesFit
  <2> DEFINE bj == bound[j]
             bk == bound[k]
             bn == bound[n]
  <2> HIDE DEF p, r, n
  <2>2. p \in Int /\ r \in Int /\ bj \in Nat /\ bk \in Nat /\ bn \in Nat /\ bj * bk <= bn
        /\ Within(p, bj) /\ Within(r, bk)
    BY <1>4, <2>1
  <2> HIDE DEF bj, bk, bn
  <2>3. Within(p * r, bn)
    BY <2>2, ProductWithin
  <2> QED
    BY <2>3 DEF bn
<1> HIDE DEF q, T, x, y, c1, c2, d1, d2, p, r, u, v
<1>9. Congruent(x + T * y, p * r, q)
  <2> HIDE DEF c, n
  <2>1. /\ q \in Int /\ T \in Int /\ c1 \in Int /\ c2 \in Int /\ d1 \in Int /\ d2 \in Int
        /\ p \in Int /\ r \in Int /\ x \in Int /\ y \in Int /\ u \in Int /\ v \in Int /\ s \in Int
    BY <1>4, <1>5, <1>6, <1>7
  <2>2. /\ Congruent(c1 + T * c2, p, q) /\ Congruent(d1 + T * d2, r, q)
        /\ Congruent(u + v * T, T * T, q) /\ Congruent(s, c2 * d2, q)
        /\ Congruent(x, c1 * d1 + s * u, q) /\ Congruent(y, c1 * d2 + c2 * d1 + s * v, q)
    BY <1>4, <1>5, <1>6, <1>7
  <2> QED
    BY <2>1, <2>2, ProductValue
<1>10. Congruent(c.elements[1] + Total(secretKeys) * c.elements[2], p * r, Q[Full]) /\ p * r \in Int
  BY <1>2, <1>4, <1>9 DEF T, q
<1> HIDE DEF c
<1>11. /\ KeysJoin' /\ KeysMultiply' /\ ValuesSmall(bound)' /\ PartsAddUp' /\ RefreshHolds' /\ RefreshMasked'
       /\ Ideal!New(p * r)
  BY <1>2, <1>8, <1>10, StoreValue
<1>12. Ideal!Next
  BY <1>11 DEF Ideal!Next, Ideal!EvalMult, Ideal!Handles, p, r
<1> QED
  BY <1>11, <1>12 DEF Advances

LEMMA RefreshAdvances ==
  ASSUME NEW bound, SInv(bound), MessagesFit(bound), OneAggregation, IntMPBootEncrypt
  PROVE  Advances(bound)
PROOF
<1> DEFINE K == Q[NumTowersToKeep]
           T == Total(secretKeys)
           c1 == refresh.input.elements[1]
           c2 == refresh.input.elements[2]
           a == refresh.a
           pair == refresh.sum
           c0 == Centred(c1 + pair[1], K)
           x == (c0 + pair[2]) % Q[Full]
           c == [elements |-> <<x, a>>, towers |-> Full]
           n == Len(ciphertexts) + 1
<1>1. /\ refresh # None /\ refresh \in Refreshes /\ pair # None /\ c1 \in Int
      /\ pair[1] \in Int /\ pair[2] \in Int /\ c0 \in Int
      /\ Store(c) /\ c \in Ciphertexts /\ Reduced(c) /\ refresh' = None
  BY EncryptRefreshed DEF SInv
<1>2. c.elements[1] = x /\ c.elements[2] = a /\ c.towers = Full
  OBVIOUS
<1>3. Joined = Parties
  BY <1>1 DEF Store
<1>4. a \in Int /\ c2 \in Int
  BY <1>1, RefreshFacts, CiphertextFacts
<1>5. T \in Int /\ scheme \in Schemes /\ scheme.parties \in Nat
  BY <1>3, JoinedKeyFacts, SchemeFacts DEF SInv, TInv, KeysShared
<1>6. PICK k \in DOMAIN ciphertexts : Congruent(c1 + T * c2, Phase(ciphertexts[k]), K)
  BY <1>1 DEF SInv, RefreshHolds
<1>7. PICK mask \in Int : Masked(pair, T, c2, a, mask, scheme.parties)
  BY <1>1 DEF SInv, RefreshMasked, SumMasked
<1> DEFINE v == Phase(ciphertexts[k])
<1>8. /\ v \in Int /\ Within(v, bound[k]) /\ k \in 1 .. MaxCiphertexts /\ k < n /\ bound[k] \in Nat
  BY ValueFacts
<1>9. /\ 2 * v + scheme.parties * Q[CompressionLevel] < K
      /\ - (2 * v) + scheme.parties * Q[CompressionLevel] < K
  <2> HIDE DEF v
  <2> QED
    BY <1>5, <1>8, BoundFacts
<1>10. x \in Int /\ Congruent(x, c0 + pair[2], Q[Full])
  <2>1. c0 + pair[2] \in Int
    BY <1>1
  <2> HIDE DEF c0, pair
  <2> QED
    BY <2>1, ModFull
<1>11. n \in 1 .. MaxCiphertexts => Within(v, bound[n])
  <2> SUFFICES ASSUME n \in 1 .. MaxCiphertexts PROVE Within(v, bound[n])
    OBVIOUS
  <2>1. bound[k] + bound[k] <= bound[n] /\ bound[n] \in Nat
    BY <1>8 DEF MessagesFit
  <2> DEFINE bk == bound[k]
             bn == bound[n]
  <2>2. bk + bk <= bn /\ bk \in Nat /\ bn \in Nat /\ - bk <= v /\ v <= bk
    BY <1>8, <2>1 DEF Within
  <2> HIDE DEF bk, bn, v
  <2>3. - bn <= v /\ v <= bn
    BY <1>8, <2>2
  <2> QED
    BY <2>3 DEF Within, bn
<1> HIDE DEF v, T, c1, c2, a, pair, x
<1>12. Congruent(x + T * a, v, Q[Full])
  BY <1>1, <1>4, <1>5, <1>6, <1>7, <1>8, <1>9, <1>10, RefreshedValue DEF v
<1>13. Congruent(c.elements[1] + Total(secretKeys) * c.elements[2], v, Q[Full])
  BY <1>2, <1>12 DEF T
<1> HIDE DEF c
<1>14. /\ KeysJoin' /\ KeysMultiply' /\ ValuesSmall(bound)' /\ PartsAddUp' /\ RefreshHolds' /\ RefreshMasked'
       /\ Ideal!New(v)
  BY <1>1, <1>2, <1>8, <1>11, <1>13, StoreValue
<1>15. Ideal!Next
  BY <1>14 DEF Ideal!Next, Ideal!Refresh, Ideal!Handles, v
<1> QED
  BY <1>14, <1>15 DEF Advances

-----------------------------------------------------------------------------
(* The steps that build the joined keys.                                   *)

LEMMA TotalGrows ==
  ASSUME NEW keys, NEW more, NEW n \in Nat, Len(keys) = n, Len(more) = n + 1,
         \A i \in 1 .. n : keys[i] \in Int /\ more[i] = keys[i],
         NEW s \in Int, more[n + 1] = s
  PROVE  Total(keys) \in Int /\ Total(more) = Total(keys) + s
PROOF
<1> DEFINE S == 1 .. n
           R == 1 .. n + 1
<1>1. IsFiniteSet(S) /\ IsFiniteSet(R)
  <2>1. 1 \in Int /\ n \in Int /\ n + 1 \in Int
    OBVIOUS
  <2> QED
    BY <2>1, FS_Interval
<1>2. n + 1 \in R /\ R \ {n + 1} = S
  OBVIOUS
<1>3. \A i \in R : i \in S \/ i = n + 1
  OBVIOUS
<1>4. Total(keys) = SumOver(keys, S) /\ Total(more) = SumOver(more, R)
  BY DEF Total
<1>5. \A i \in S : keys[i] \in Int /\ more[i] = keys[i]
  OBVIOUS
<1> HIDE DEF S, R
<1>6. \A i \in R : more[i] \in Int
  BY <1>3, <1>5
<1>7. SumOver(more, R) = more[n + 1] + SumOver(more, R \ {n + 1})
  BY <1>1, <1>2, <1>6, SumStep
<1>8. SumOver(keys, S) = SumOver(more, S) /\ SumOver(keys, S) \in Int
  BY <1>1, <1>5, SumEqual, SumInt
<1>9. SumOver(more, R \ {n + 1}) = SumOver(keys, S)
  BY <1>2, <1>8
<1> DEFINE x == SumOver(keys, S)
<1>10. x \in Int /\ Total(keys) = x /\ Total(more) = s + x
  BY <1>4, <1>7, <1>8, <1>9
<1> HIDE DEF x
<1> QED
  BY <1>10

\* Nothing has been computed before all parties have joined.
LEMMA NothingYet ==
  ASSUME NEW bound, SInv(bound), Joined # Parties
  PROVE  ciphertexts = <<>> /\ refresh = None /\ partials = None /\ multipliers = 0
PROOF
<1>1. Len(secretKeys) # scheme.parties
  BY JoinedFacts DEF SInv, TInv
<1>2. ciphertexts = <<>> /\ refresh = None
  BY <1>1 DEF SInv, TInv, CiphertextsTyped, RefreshTyped
<1>3. partials = None
  BY <1>2 DEF SInv, PartsAddUp
<1>4. multipliers \in 0 .. scheme.parties /\ scheme.parties \in Nat
  BY JoinedFacts DEF SInv, TInv, KeysTyped
<1>5. multipliers = 0
  BY <1>1, <1>4 DEF SInv, KeysMultiply
<1> QED
  BY <1>2, <1>3, <1>5

LEMMA JoinAdvances ==
  ASSUME NEW bound, SInv(bound), MessagesFit(bound), Joined # Parties,
         UNCHANGED <<multipliers, ciphertexts, partials, refresh, revealed>>, KeysJoin'
  PROVE  Advances(bound)
PROOF
<1>1. ciphertexts = <<>> /\ refresh = None /\ partials = None /\ multipliers = 0
  BY NothingYet
<1>2. KeysMultiply' /\ PartsAddUp' /\ RefreshHolds' /\ RefreshMasked'
  BY <1>1 DEF KeysMultiply, PartsAddUp, RefreshHolds, RefreshMasked
<1>3. ValuesSmall(bound)'
  BY <1>1 DEF ValuesSmall, MessagesFit
<1>4. [k \in DOMAIN ciphertexts |-> Phase(ciphertexts[k])]' = [k \in DOMAIN ciphertexts |-> Phase(ciphertexts[k])]
  <2>1. DOMAIN ciphertexts = {} /\ DOMAIN ciphertexts' = {}
    BY <1>1
  <2>2. [k \in DOMAIN ciphertexts' |-> Phase(ciphertexts[k])'] = [k \in {} |-> Phase(ciphertexts[k])']
    BY <2>1
  <2>3. [k \in DOMAIN ciphertexts |-> Phase(ciphertexts[k])] = [k \in {} |-> Phase(ciphertexts[k])]
    BY <2>1
  <2>4. [k \in {} |-> Phase(ciphertexts[k])'] = [k \in {} |-> Phase(ciphertexts[k])]
    OBVIOUS
  <2> QED
    BY <2>2, <2>3, <2>4
<1>5. UNCHANGED Ideal!vars
  BY <1>4 DEF Ideal!vars
<1> QED
  BY <1>2, <1>3, <1>5 DEF Advances

LEMMA KeyGenAdvances ==
  ASSUME NEW bound, SInv(bound), MessagesFit(bound), KeyGen
  PROVE  Advances(bound)
PROOF
<1>1. PICK s \in Secrets, tape \in Tapes :
        /\ Joined = {}
        /\ publicKey' = [b |-> (- tape[1] * s) % Q[Full], a |-> tape[1]]
        /\ evalKey' = KeySwitchGen(s, s, tape[2])
        /\ Share(s, tape)
  BY DEF KeyGen
<1>2. KeysShared /\ scheme \in Schemes /\ scheme.parties \in Nat /\ scheme.parties >= 2
  BY SchemeFacts DEF SInv, TInv, KeysShared
<1>3. Len(secretKeys) = 0 /\ Len(secretKeys) < scheme.parties /\ Joined # Parties /\ Len(secretKeys) \in Nat
  BY <1>1, <1>2, JoinedFacts
<1>4. Len(secretKeys') = 1 /\ secretKeys'[1] = s /\ s \in Int
  <2>1. Share(s, tape)
    BY <1>1
  <2>2. Len(secretKeys') = Len(secretKeys) + 1 /\ secretKeys'[Len(secretKeys) + 1] = s
    <3>1. KeysShared /\ Len(secretKeys) < scheme.parties
      BY <1>2, <1>3
    <3>2. Len(secretKeys') = Len(secretKeys) + 1
      BY <2>1, <3>1, ShareStep
    <3>3. secretKeys'[Len(secretKeys) + 1] = s
      <4>1. secretKeys \in Seq(Secrets) /\ secretKeys' = Append(secretKeys, s)
        BY <2>1, <3>1 DEF Share, KeysShared
      <4> QED
        BY <4>1
    <3> QED
      BY <3>2, <3>3
  <2>3. Len(secretKeys) + 1 = 1
    BY <1>3
  <2> QED
    BY <2>2, <2>3, SecretFacts
<1>5. Total(secretKeys') = s
  <2>1. PICK n \in Nat : n = 0
    OBVIOUS
  <2>2. Len(secretKeys) = n /\ Len(secretKeys') = n + 1 /\ secretKeys'[n + 1] = s
        /\ \A i \in 1 .. n : secretKeys[i] \in Int /\ secretKeys'[i] = secretKeys[i]
    BY <1>3, <1>4, <2>1
  <2>3. Total(secretKeys') = Total(secretKeys) + s
    BY <1>4, <2>2, TotalGrows
  <2>4. Total(secretKeys) = SumOver(secretKeys, {})
    BY <1>3 DEF Total
  <2> QED
    BY <1>4, <2>3, <2>4, SumEmpty
<1>6. KeysJoin'
  <2> DEFINE a == tape[1]
             e == tape[2]
             x == - a * s
             y == s - e * s
             q == Q[Full]
  <2>1. a \in Int /\ e \in Int /\ x \in Int /\ y \in Int /\ q \in Int
    <3>1. a \in Int /\ e \in Int
      BY TapeFacts
    <3>2. q \in Int
      BY QFacts, FullFacts
    <3> HIDE DEF a, e, q
    <3> QED
      BY <1>4, <3>1, <3>2
  <2>2. publicKey' = [b |-> x % q, a |-> a] /\ evalKey' = [b |-> y % q, a |-> e]
    BY <1>1 DEF KeySwitchGen
  <2>3. x % q \in Int /\ y % q \in Int /\ Congruent(x % q, x, q) /\ Congruent(y % q, y, q)
    <3> HIDE DEF x, y
    <3> QED
      BY <2>1, ModFull
  <2>4. Congruent(a * s, a * s, q) /\ Congruent(e * s, e * s, q) /\ a * s \in Int /\ e * s \in Int
    <3> HIDE DEF a, e, q
    <3>1. a * s \in Int /\ e * s \in Int
      BY <1>4, <2>1
    <3> QED
      BY <2>1, <3>1, CongruentRefl
  <2> DEFINE sa == a * s
             es == e * s
             xq == x % q
             yq == y % q
  <2>5. sa \in Int /\ es \in Int /\ Congruent(sa, sa, q) /\ Congruent(es, es, q) /\ x = 0 - sa /\ y = s - es
    <3> HIDE DEF q
    <3> QED
      BY <1>4, <2>1, <2>4
  <2>6. xq \in Int /\ yq \in Int /\ Congruent(xq, x, q) /\ Congruent(yq, y, q)
    BY <2>3
  <2> HIDE DEF sa, es, x, y, q, xq, yq
  <2>7. Congruent(xq + sa, x + sa, q) /\ Congruent(yq + es, y + es, q)
    BY <2>1, <2>5, <2>6, CongruentAdd
  <2>8. x + sa = 0 /\ y + es = s
    <3>1. s \in Int
      BY <1>4
    <3>2. sa \in Int /\ es \in Int /\ x = 0 - sa /\ y = s - es /\ x \in Int
      BY <2>1, <2>5
    <3>3. x + sa = 0
      BY <3>2
    <3>4. y + es = s
      BY <3>1, <3>2
    <3> QED
      BY <3>3, <3>4
  <2>9. Congruent(publicKey'.b + publicKey'.a * s, 0, q) /\ Congruent(evalKey'.b + evalKey'.a * s, s, q)
    BY <2>2, <2>7, <2>8 DEF sa, es, xq, yq
  <2> QED
    BY <1>5, <2>9 DEF KeysJoin, q
<1>7. UNCHANGED <<multipliers, ciphertexts, partials, refresh, revealed>>
  BY <1>1 DEF Share
<1> QED
  BY <1>3, <1>6, <1>7, JoinAdvances

LEMMA MultipartyKeyGenAdvances ==
  ASSUME NEW bound, SInv(bound), MessagesFit(bound), MultipartyKeyGen
  PROVE  Advances(bound)
PROOF
<1>1. PICK s \in Secrets, tape \in Tapes, fresh \in BOOLEAN :
        /\ Joined # {} /\ Joined # Parties
        /\ LET b == (- publicKey.a * s) % Q[Full]
               own == [publicKey EXCEPT !.b = IF fresh THEN b ELSE (@ + b) % Q[Full]]
           IN  publicKey' = IF fresh THEN MultiAddPubKeys(publicKey, own) ELSE own
        /\ evalKey' = MultiAddEvalKeys(evalKey, KeySwitchGen(s, s, evalKey.a))
        /\ Share(s, tape)
  BY DEF MultipartyKeyGen
<1>2. KeysShared /\ scheme \in Schemes /\ scheme.parties \in Nat /\ Len(secretKeys) <= scheme.parties
  BY SchemeFacts DEF SInv, TInv, KeysShared
<1>3. Len(secretKeys) < scheme.parties /\ secretKeys # <<>> /\ Len(secretKeys) \in Nat
  BY <1>1, <1>2, JoinedFacts
<1> DEFINE T == Total(secretKeys)
           q == Q[Full]
           pa == publicKey.a
           pb == publicKey.b
           ea == evalKey.a
           eb == evalKey.b
           x == - pa * s
           y == s - ea * s
           b == x % q
           u == (pb + b) % q
           z == y % q
           w == (eb + z) % q
<1>4. T \in Int /\ s \in Int /\ Total(secretKeys') = T + s
  <2>1. \A i \in 1 .. Len(secretKeys) : secretKeys[i] \in Int
    BY <1>2, TotalFacts
  <2>2. /\ Len(secretKeys') = Len(secretKeys) + 1
        /\ \A i \in 1 .. Len(secretKeys) : secretKeys'[i] = secretKeys[i]
        /\ secretKeys'[Len(secretKeys) + 1] = s
    <3>1. Share(s, tape)
      BY <1>1
    <3> QED
      BY <1>2, <1>3, <3>1, ShareStep
  <2>3. s \in Int
    BY SecretFacts
  <2>4. PICK n \in Nat : n = Len(secretKeys)
    BY <1>3
  <2>5. Len(secretKeys) = n /\ Len(secretKeys') = n + 1 /\ secretKeys'[n + 1] = s
        /\ \A i \in 1 .. n : secretKeys[i] \in Int /\ secretKeys'[i] = secretKeys[i]
    BY <2>1, <2>2, <2>4
  <2> QED
    BY <2>3, <2>5, TotalGrows
<1>5. /\ publicKey \in Keys /\ evalKey \in Keys /\ pa \in Int /\ pb \in Int /\ ea \in Int /\ eb \in Int
      /\ publicKey = [b |-> pb, a |-> pa] /\ evalKey = [b |-> eb, a |-> ea]
      /\ Congruent(pb + pa * T, 0, q) /\ Congruent(eb + ea * T, T, q) /\ q \in Int
  <2>1. publicKey \in Keys /\ evalKey \in Keys
    BY <1>3 DEF SInv, TInv, KeysTyped
  <2>2. Congruent(pb + pa * T, 0, q) /\ Congruent(eb + ea * T, T, q)
    BY <1>3 DEF SInv, KeysJoin
  <2> QED
    BY <2>1, <2>2, KeyFacts, QFacts, FullFacts
<1> HIDE DEF T, pa, pb, ea, eb
<1>6. x \in Int /\ y \in Int
  BY <1>4, <1>5
<1>7. /\ b \in Int /\ Congruent(b, x, q) /\ z \in Int /\ Congruent(z, y, q)
  <2> HIDE DEF x, y
  <2> QED
    BY <1>6, ModFull
<1> HIDE DEF x, y, b, z
<1>8. /\ u \in Int /\ Congruent(u, pb + b, q) /\ w \in Int /\ Congruent(w, eb + z, q)
  <2>1. pb + b \in Int /\ eb + z \in Int
    BY <1>5, <1>7
  <2> QED
    BY <2>1, ModFull
<1>9. publicKey' = [b |-> u, a |-> pa]
  <2> DEFINE own == [publicKey EXCEPT !.b = IF fresh THEN b ELSE u]
  <2>1. publicKey' = IF fresh THEN AddB(publicKey, own) ELSE own
    BY <1>1 DEF MultiAddPubKeys, b, x, pa, pb
  <2>2. own = [b |-> IF fresh THEN b ELSE u, a |-> pa]
    BY <1>5
  <2>3. CASE fresh
    <3>1. AddB(publicKey, own) = [publicKey EXCEPT !.b = (pb + b) % q]
      BY <1>5, <2>2, <2>3 DEF AddB
    <3> QED
      BY <1>5, <2>1, <2>3, <3>1
  <2>4. CASE ~ fresh
    BY <2>1, <2>2, <2>4
  <2> QED
    BY <2>3, <2>4
<1>10. evalKey' = [b |-> w, a |-> ea]
  <2>1. evalKey' = AddB(evalKey, [b |-> z, a |-> ea])
    BY <1>1 DEF MultiAddEvalKeys, KeySwitchGen, z, y, ea
  <2> QED
    BY <1>5, <2>1 DEF AddB
<1> HIDE DEF q, u, w
<1>11. Congruent(u + pa * (T + s), 0, q)
  <2>1. PICK i \in Int : pb + pa * T = 0 + i * q
    BY <1>5 DEF Congruent
  <2>2. PICK j \in Int : b = x + j * q
    BY <1>7 DEF Congruent
  <2>3. PICK k \in Int : u = pb + b + k * q
    BY <1>8 DEF Congruent
  <2>4. pa * (T + s) = pa * T + pa * s /\ x = - (pa * s) /\ (i + j + k) * q = i * q + j * q + k * q
        /\ i + j + k \in Int
    BY <1>4, <1>5 DEF x
  <2> DEFINE e == pa * T
             f == pa * s
             l == i * q
             m == j * q
             o == k * q
  <2>5. e \in Int /\ f \in Int /\ l \in Int /\ m \in Int /\ o \in Int /\ pb + e = l /\ b = - f + m /\ u = pb + b + o
    BY <1>4, <1>5, <2>1, <2>2, <2>3, <2>4
  <2>6. pa * (T + s) = e + f /\ (i + j + k) * q = l + m + o
    BY <2>4
  <2> HIDE DEF e, f, l, m, o
  <2>7. u + (e + f) = 0 + (l + m + o)
    BY <1>5, <2>5
  <2>8. u + pa * (T + s) = 0 + (i + j + k) * q
    BY <2>6, <2>7
  <2> QED
    BY <2>4, <2>8 DEF Congruent
<1>12. Congruent(w + ea * (T + s), T + s, q)
  <2>1. PICK i \in Int : eb + ea * T = T + i * q
    BY <1>5 DEF Congruent
  <2>2. PICK j \in Int : z = y + j * q
    BY <1>7 DEF Congruent
  <2>3. PICK k \in Int : w = eb + z + k * q
    BY <1>8 DEF Congruent
  <2>4. ea * (T + s) = ea * T + ea * s /\ y = s - ea * s /\ (i + j + k) * q = i * q + j * q + k * q
        /\ i + j + k \in Int
    BY <1>4, <1>5 DEF y
  <2> DEFINE e == ea * T
             f == ea * s
             l == i * q
             m == j * q
             o == k * q
  <2>5. e \in Int /\ f \in Int /\ l \in Int /\ m \in Int /\ o \in Int /\ eb + e = T + l /\ z = s - f + m /\ w = eb + z + o
    BY <1>4, <1>5, <2>1, <2>2, <2>3, <2>4
  <2>6. ea * (T + s) = e + f /\ (i + j + k) * q = l + m + o
    BY <2>4
  <2> HIDE DEF e, f, l, m, o
  <2>7. w + (e + f) = T + s + (l + m + o)
    BY <1>4, <1>5, <2>5
  <2>8. w + ea * (T + s) = T + s + (i + j + k) * q
    BY <2>6, <2>7
  <2> QED
    BY <2>4, <2>8 DEF Congruent
<1>13. KeysJoin'
  <2>1. publicKey'.b = u /\ publicKey'.a = pa /\ evalKey'.b = w /\ evalKey'.a = ea
    BY <1>9, <1>10
  <2> QED
    BY <1>4, <1>11, <1>12, <2>1 DEF KeysJoin, q
<1>14. UNCHANGED <<multipliers, ciphertexts, partials, refresh, revealed>>
  BY <1>1 DEF Share
<1> QED
  BY <1>1, <1>13, <1>14, JoinAdvances

-----------------------------------------------------------------------------
(* Steps that change no number.                                            *)

LEMMA StutterAdvances ==
  ASSUME NEW bound, SInv(bound), UNCHANGED <<secretKeys, ciphertexts>>,
         KeysJoin', KeysMultiply', PartsAddUp', RefreshHolds', RefreshMasked',
         revealed' = revealed
         \/ \E k \in DOMAIN ciphertexts : revealed' = <<Phase(ciphertexts[k])>>
  PROVE  Advances(bound)
PROOF
<1>1. \A k : Phase(ciphertexts[k])' = Phase(ciphertexts[k])
  BY PhaseNext
<1>2. ValuesSmall(bound)'
  <2>1. Len(ciphertexts') <= MaxCiphertexts
    BY DEF SInv, ValuesSmall
  <2>2. \A k \in DOMAIN ciphertexts' : Within(Phase(ciphertexts[k])', bound[k])
    BY <1>1 DEF SInv, ValuesSmall
  <2> QED
    BY <2>1, <2>2 DEF ValuesSmall
<1>3. [k \in DOMAIN ciphertexts |-> Phase(ciphertexts[k])]' = [k \in DOMAIN ciphertexts |-> Phase(ciphertexts[k])]
  BY <1>1
<1>4. Ideal!Next \/ UNCHANGED Ideal!vars
  <2>1. CASE revealed' = revealed
    BY <1>3, <2>1 DEF Ideal!vars
  <2>2. CASE \E k \in DOMAIN ciphertexts : revealed' = <<Phase(ciphertexts[k])>>
    BY <1>3, <2>2 DEF Ideal!Next, Ideal!Decrypt, Ideal!Handles
  <2> QED
    BY <2>1, <2>2
<1> QED
  BY <1>2, <1>4 DEF Advances

LEMMA LastKeysGrow ==
  ASSUME KeysShared, NEW n \in Nat, n < Len(secretKeys)
  PROVE  /\ LastKeys(secretKeys, n) \in Int
         /\ LastKeys(secretKeys, n + 1) = LastKeys(secretKeys, n) + secretKeys[Len(secretKeys) - n]
PROOF
<1>1. PICK m \in Nat : m = Len(secretKeys)
  BY TotalFacts
<1>2. \A i \in 1 .. m : secretKeys[i] \in Int
  BY <1>1, TotalFacts
<1> DEFINE i == m - n
           S == i + 1 .. m
           R == i .. m
<1>3. i \in 1 .. m /\ i \in R /\ S = R \ {i} /\ i \in Int
  BY <1>1
<1>4. LastKeys(secretKeys, n) = SumOver(secretKeys, S) /\ LastKeys(secretKeys, n + 1) = SumOver(secretKeys, R)
  <2>1. m - (n + 1) + 1 = i /\ m - n + 1 = i + 1
    BY <1>1
  <2> QED
    BY <1>1, <2>1 DEF LastKeys
<1>5. IsFiniteSet(S) /\ IsFiniteSet(R)
  <2> HIDE DEF i
  <2>1. i + 1 \in Int /\ m \in Int
    BY <1>1, <1>3
  <2> QED
    BY <1>3, <2>1, FS_Interval
<1>6. \A j \in R : secretKeys[j] \in Int
  BY <1>2, <1>3
<1> HIDE DEF i, S, R
<1>7. SumOver(secretKeys, R) = secretKeys[i] + SumOver(secretKeys, R \ {i})
  <2>1. i \in R /\ IsFiniteSet(R) /\ \A x \in R : secretKeys[x] \in Int
    BY <1>3, <1>5, <1>6
  <2> QED
    BY <2>1, SumStep
<1>8. SumOver(secretKeys, S) \in Int
  BY <1>3, <1>5, <1>6, SumInt
<1>9. SumOver(secretKeys, R \ {i}) = SumOver(secretKeys, S) /\ secretKeys[i] \in Int
  BY <1>3, <1>6
<1> DEFINE x == SumOver(secretKeys, S)
           y == secretKeys[i]
<1>10. x \in Int /\ y \in Int /\ LastKeys(secretKeys, n) = x /\ LastKeys(secretKeys, n + 1) = y + x
  BY <1>4, <1>7, <1>8, <1>9
<1>11. secretKeys[Len(secretKeys) - n] = y
  BY <1>1 DEF i
<1> HIDE DEF x, y
<1> QED
  BY <1>10, <1>11

LEMMA MultiplyEvalKeyAdvances ==
  ASSUME NEW bound, SInv(bound), SumsFit, AllShares, MultiplyEvalKey
  PROVE  Advances(bound)
PROOF
<1>0. /\ Joined = Parties /\ scheme.parties - multipliers > 0 /\ CanAct(scheme.parties - multipliers)
      /\ multipliers' = multipliers + 1
      /\ multKey' = LET part == MultiMultEvalKey(KeyOf(scheme.parties - multipliers), evalKey)
                    IN  IF multipliers = 0 THEN part ELSE MultiAddEvalMultKeys(part, multKey)
      /\ UNCHANGED <<keyVars, alive, ciphertexts, partials, refresh, revealed>>
  BY DEF MultiplyEvalKey
<1>1. PICK n \in Nat : n = multipliers
  BY JoinedFacts DEF SInv, TInv, KeysTyped
<1>2. /\ Len(secretKeys) = scheme.parties /\ scheme.parties \in Nat /\ n < Len(secretKeys) /\ KeysShared
      /\ Len(secretKeys) - n \in 1 .. Len(secretKeys)
  <2>1. Len(secretKeys) = scheme.parties /\ scheme.parties \in Nat /\ KeysShared
    BY <1>0, JoinedFacts DEF SInv, TInv
  <2> QED
    BY <1>0, <1>1, <2>1
<1>3. PICK k \in Int : k = secretKeys[Len(secretKeys) - n]
  BY <1>2, TotalFacts
<1>4. KeyOf(scheme.parties - multipliers) = k
  <2>1. CanAct(Len(secretKeys) - n)
    BY <1>0, <1>1, <1>2
  <2> DEFINE i == Len(secretKeys) - n
  <2>2. i \in 1 .. Len(secretKeys) /\ CanAct(i)
    BY <1>2, <2>1
  <2> HIDE DEF i
  <2>3. KeyOf(i) = secretKeys[i]
    BY <1>2, <2>2, KeyOfOwner
  <2> QED
    BY <1>1, <1>2, <1>3, <2>3 DEF i
<1> DEFINE L == LastKeys(secretKeys, n)
           q == Q[Full]
           b == evalKey.b
           a == evalKey.a
           u == (b * k) % q
           v == (a * k) % q
           part == [b |-> u, a |-> v]
<1>5. L \in Int /\ LastKeys(secretKeys, n + 1) = L + k
  BY <1>2, <1>3, LastKeysGrow
<1>6. b \in Int /\ a \in Int /\ q \in Int
  BY <1>0, JoinedKeyFacts
<1>7. u \in Int /\ v \in Int /\ Congruent(u, b * k, q) /\ Congruent(v, a * k, q)
  <2>1. b * k \in Int /\ a * k \in Int
    BY <1>6
  <2> QED
    BY <2>1, ModFull
<1>8. multKey' = IF n = 0 THEN part ELSE MultiAddEvalMultKeys(part, multKey)
  BY <1>0, <1>1, <1>4 DEF MultiMultEvalKey
<1> HIDE DEF L, b, a, q, u, v
<1>9. Congruent(multKey'.b, (L + k) * b, q) /\ Congruent(multKey'.a, (L + k) * a, q)
  <2>1. CASE n = 0
    <3>1. L = 0
      <4>1. Len(secretKeys) - n + 1 .. Len(secretKeys) = {}
        BY <1>2, <2>1
      <4> QED
        BY <4>1, SumEmpty DEF L, LastKeys
    <3>2. multKey'.b = u /\ multKey'.a = v
      BY <1>8, <2>1
    <3>3. (L + k) * b = b * k /\ (L + k) * a = a * k
      BY <1>6, <3>1
    <3> QED
      BY <1>7, <3>2, <3>3
  <2>2. CASE n # 0
    <3>1. multKey \in Keys /\ multipliers > 0
      BY <1>1, <2>2 DEF SInv, TInv, KeysTyped
    <3> DEFINE mb == multKey.b
               ma == multKey.a
    <3>2. mb \in Int /\ ma \in Int
      BY <3>1, KeyFacts
    <3>3. Congruent(mb, L * b, q) /\ Congruent(ma, L * a, q)
      BY <1>1, <3>1 DEF SInv, KeysMultiply, L, b, a, q
    <3> HIDE DEF mb, ma
    <3>4. multKey'.b = (u + mb) % q /\ multKey'.a = (v + ma) % q
      <4>1. multKey' = [part EXCEPT !.b = (u + mb) % q, !.a = (v + ma) % q]
        BY <1>8, <2>2 DEF MultiAddEvalMultKeys, AddB, mb, ma, q
      <4> QED
        BY <4>1
    <3>5. Congruent(multKey'.b, u + mb, q) /\ Congruent(multKey'.a, v + ma, q)
          /\ multKey'.b \in Int /\ multKey'.a \in Int
      <4>1. u + mb \in Int /\ v + ma \in Int
        BY <1>7, <3>2
      <4> QED
        BY <3>4, <4>1, ModFull DEF q
    <3>6. ASSUME NEW x \in Int, NEW e \in Int, NEW w \in Int, NEW m \in Int,
                 Congruent(w, e * k, q), Congruent(m, L * e, q), Congruent(x, w + m, q)
          PROVE  Congruent(x, (L + k) * e, q)
      <4> DEFINE f == e * k
                 g == L * e
      <4>1. f \in Int /\ g \in Int /\ Congruent(w, f, q) /\ Congruent(m, g, q) /\ (L + k) * e = f + g
        BY <1>5, <3>6
      <4> HIDE DEF f, g
      <4>2. Congruent(w + m, f + g, q) /\ w + m \in Int /\ f + g \in Int
        BY <1>6, <4>1, CongruentAdd
      <4> QED
        BY <1>6, <3>6, <4>1, <4>2, CongruentTrans
    <3> QED
      BY <1>6, <1>7, <3>2, <3>3, <3>5, <3>6
  <2> QED
    BY <2>1, <2>2
<1>10. KeysMultiply'
  <2>1. multipliers' = n + 1 /\ secretKeys' = secretKeys /\ scheme' = scheme /\ evalKey' = evalKey
    BY <1>0, <1>1 DEF keyVars
  <2> QED
    BY <1>2, <1>5, <1>9, <2>1 DEF KeysMultiply, b, a, q
<1>11. KeysJoin'
  BY <1>0 DEF SInv, KeysJoin, keyVars
<1>12. PartsAddUp' /\ RefreshHolds' /\ UNCHANGED <<secretKeys, ciphertexts>> /\ revealed' = revealed
  BY <1>0, PartsStay, RefreshHoldsStays DEF SInv, keyVars
<1>13. RefreshMasked'
  BY <1>0 DEF SInv, RefreshMasked, keyVars
<1> QED
  BY <1>10, <1>11, <1>12, <1>13, StutterAdvances

LEMMA AbortAdvances ==
  ASSUME NEW bound, SInv(bound), Abort \/ UNCHANGED vars
  PROVE  Advances(bound)
PROOF
<1>1. UNCHANGED keyVars /\ UNCHANGED <<multKey, multipliers, ciphertexts, partials, refresh, revealed>>
      /\ UNCHANGED <<scheme, secretKeys>>
  BY DEF Abort, vars, keyVars
<1>2. KeysJoin' /\ KeysMultiply'
  BY <1>1, CombinedKeysStay DEF SInv
<1>3. PartsAddUp' /\ RefreshHolds'
  BY <1>1, PartsStay, RefreshHoldsStays DEF SInv
<1>4. RefreshMasked'
  BY <1>1 DEF SInv, RefreshMasked
<1> QED
  BY <1>1, <1>2, <1>3, <1>4, StutterAdvances

-----------------------------------------------------------------------------
(* The parties' answers add up to what the ciphertext holds.               *)

\* Where ciphertexts exist, everyone has joined.
LEMMA KeysAllThere ==
  ASSUME NEW bound, SInv(bound), MessagesFit(bound), Len(secretKeys) = scheme.parties
  PROVE  /\ KeysShared /\ scheme \in Schemes /\ IsFiniteSet(Parties) /\ Cardinality(Parties) = scheme.parties
         /\ Parties = 1 .. Len(secretKeys) /\ Total(secretKeys) = SumOver(secretKeys, Parties)
         /\ Total(secretKeys) \in Int /\ \A i \in Parties : secretKeys[i] \in Int
PROOF
<1>1. KeysShared /\ scheme \in Schemes
  BY DEF SInv, TInv, KeysShared
<1>2. Parties = 1 .. Len(secretKeys) /\ IsFiniteSet(Parties) /\ Cardinality(Parties) = scheme.parties
  BY <1>1, PartiesFinite
<1>3. Total(secretKeys) \in Int /\ \A i \in 1 .. Len(secretKeys) : secretKeys[i] \in Int
  BY <1>1, TotalFacts
<1> QED
  BY <1>1, <1>2, <1>3 DEF Total

LEMMA MultipartyDecryptAdvances ==
  ASSUME NEW bound, SInv(bound), MessagesFit(bound), SumsFit, AllShares, MultipartyDecrypt
  PROVE  Advances(bound)
PROOF
<1>1. PICK i \in Parties, k \in DOMAIN ciphertexts :
        /\ CanAct(i)
        /\ \/ /\ partials = None
              /\ partials' = [of |-> k, part |-> [j \in {i} |-> MultipartyDecryptLead(KeyOf(i), ciphertexts[k])]]
           \/ /\ partials # None
              /\ partials.of = k /\ i \notin DOMAIN partials.part
              /\ partials' = [partials EXCEPT !.part = [j \in DOMAIN @ \cup {i} |->
                   IF j = i THEN MultipartyDecryptMain(KeyOf(i), ciphertexts[k]) ELSE @[j]]]
        /\ UNCHANGED <<keyVars, multKey, multipliers, alive, ciphertexts, refresh, revealed>>
  BY DEF MultipartyDecrypt
<1>2. Len(secretKeys) = scheme.parties
  BY <1>1 DEF SInv, TInv, CiphertextsTyped
<1>3. PICK c : c = ciphertexts[k].elements
  OBVIOUS
<1>4. c[1] \in Int /\ c[2] \in Int /\ ciphertexts[k].towers = Full
  BY <1>3, ValueFacts
<1>5. PICK s \in Int : s = secretKeys[i] /\ s = KeyOf(i)
  <2>1. KeysShared /\ i \in 1 .. Len(secretKeys) /\ secretKeys[i] \in Int
    BY <1>2, KeysAllThere
  <2> QED
    BY <1>1, <2>1, KeyOfOwner
<1> DEFINE Lead == MultipartyDecryptLead(s, ciphertexts[k])
           Main == MultipartyDecryptMain(s, ciphertexts[k])
<1>6. PICK lead \in Int, main \in Int :
        /\ lead = Lead /\ main = Main
        /\ Congruent(main, s * c[2] + 0, Q[Full]) /\ Congruent(lead, s * c[2] + c[1], Q[Full])
  <2> DEFINE x == c[1]
             y == s * c[2]
             q == Q[Full]
             main == y % q
             lead == (x + main) % q
  <2>1. x \in Int /\ y \in Int
    BY <1>4
  <2>2. q \in Int
    BY QFacts, FullFacts
  <2>3. main = Main /\ lead = Lead
    BY <1>3, <1>4 DEF MultipartyDecryptMain, MultipartyDecryptLead
  <2> HIDE DEF x, y
  <2>4. main \in Int /\ Congruent(main, y, q)
    BY <2>1, ModFull
  <2> HIDE DEF main
  <2>5. lead \in Int /\ Congruent(lead, x + main, q)
    <3>1. x + main \in Int
      BY <2>1, <2>4
    <3> QED
      BY <3>1, ModFull
  <2> HIDE DEF lead, q, Lead, Main
  <2>6. Congruent(lead, y + x, q) /\ y + 0 = y
    <3>1. Congruent(x, x, q)
      BY <2>1, <2>2, CongruentRefl
    <3>2. Congruent(x + main, x + y, q) /\ x + main \in Int /\ x + y \in Int /\ x + y = y + x
      BY <2>1, <2>2, <2>4, <3>1, CongruentAdd
    <3>3. Congruent(lead, x + y, q)
      BY <2>2, <2>5, <3>2, CongruentTrans
    <3>4. y + 0 = y /\ y + x = x + y
      BY <2>1
    <3> QED
      BY <3>3, <3>4
  <2> QED
    BY <2>3, <2>4, <2>5, <2>6 DEF x, y, q
<1> HIDE DEF Lead, Main
<1>7. Parties' = Parties /\ secretKeys' = secretKeys /\ ciphertexts' = ciphertexts
  BY <1>1 DEF keyVars, Parties
<1>8. PartsAddUp'
  <2>1. CASE partials = None
    <3>1. partials' = [of |-> k, part |-> [j \in {i} |-> lead]]
      <4>1. None # partials \/ partials' = [of |-> k, part |-> [j \in {i} |-> MultipartyDecryptLead(KeyOf(i), ciphertexts[k])]]
        BY <1>1
      <4>2. MultipartyDecryptLead(KeyOf(i), ciphertexts[k]) = lead
        BY <1>5, <1>6 DEF Lead
      <4> QED
        BY <2>1, <4>1, <4>2
    <3> DEFINE part == [j \in {i} |-> lead]
    <3>2. Parts(part, secretKeys, c, i)
      <4>1. \A j \in DOMAIN part : j = i /\ part[j] = lead
        OBVIOUS
      <4> HIDE DEF part
      <4>2. Congruent(lead, secretKeys[i] * c[2] + c[1], Q[Full])
        BY <1>5, <1>6
      <4> QED
        BY <1>6, <4>1, <4>2 DEF Parts
    <3>3. DOMAIN part = {i}
      OBVIOUS
    <3> HIDE DEF part
    <3>4. partials'.of = k /\ partials'.part = part /\ partials' = [of |-> k, part |-> part]
      BY <3>1 DEF part
    <3>5. \E l \in DOMAIN partials'.part : Parts(partials'.part, secretKeys', ciphertexts'[partials'.of].elements, l)
      BY <1>3, <1>7, <3>2, <3>3, <3>4
    <3>6. partials'.of \in DOMAIN ciphertexts' /\ DOMAIN partials'.part \subseteq Parties'
      BY <1>7, <3>3, <3>4
    <3> QED
      BY <3>4, <3>5, <3>6 DEF PartsAddUp
  <2>2. CASE partials # None
    <3>0. PICK old : old = partials.part
      OBVIOUS
    <3>1. PICK first \in DOMAIN old :
            /\ partials = [of |-> k, part |-> old] /\ i \notin DOMAIN old
            /\ DOMAIN old \subseteq Parties /\ Parts(old, secretKeys, c, first)
      BY <1>1, <1>3, <2>2, <3>0 DEF SInv, PartsAddUp
    <3> DEFINE part == [j \in DOMAIN old \cup {i} |-> IF j = i THEN main ELSE old[j]]
    <3>2. partials' = [of |-> k, part |-> part]
      <4>1. partials = None
            \/ partials' = [partials EXCEPT !.part = [j \in DOMAIN @ \cup {i} |->
                   IF j = i THEN MultipartyDecryptMain(KeyOf(i), ciphertexts[k]) ELSE @[j]]]
        BY <1>1
      <4>2. MultipartyDecryptMain(KeyOf(i), ciphertexts[k]) = main
        BY <1>5, <1>6 DEF Main
      <4> QED
        BY <2>2, <3>1, <4>1, <4>2
    <3>3. Parts(part, secretKeys, c, first)
      <4>1. \A j \in DOMAIN part : \/ j = i /\ j # first /\ part[j] = main
                                   \/ j \in DOMAIN old /\ part[j] = old[j]
        BY <3>1
      <4> HIDE DEF part
      <4>2. Congruent(main, secretKeys[i] * c[2] + 0, Q[Full])
        BY <1>5, <1>6
      <4>3. ASSUME NEW j \in DOMAIN part
            PROVE  /\ part[j] \in Int
                   /\ Congruent(part[j], secretKeys[j] * c[2] + (IF j = first THEN c[1] ELSE 0), Q[Full])
        <5>1. CASE j = i /\ j # first /\ part[j] = main
          BY <1>6, <4>2, <5>1
        <5>2. CASE j \in DOMAIN old /\ part[j] = old[j]
          BY <3>1, <5>2 DEF Parts
        <5> QED
          BY <4>1, <5>1, <5>2
      <4> QED
        BY <4>3 DEF Parts
    <3>4. first \in DOMAIN part /\ DOMAIN part \subseteq Parties
      BY <3>1
    <3> HIDE DEF part
    <3>5. partials'.of = k /\ partials'.part = part /\ partials' = [of |-> partials'.of, part |-> partials'.part]
      BY <3>2
    <3>6. \E l \in DOMAIN partials'.part : Parts(partials'.part, secretKeys', ciphertexts'[partials'.of].elements, l)
      BY <1>3, <1>7, <3>3, <3>4, <3>5
    <3>7. partials'.of \in DOMAIN ciphertexts' /\ DOMAIN partials'.part \subseteq Parties'
      BY <1>7, <3>4, <3>5
    <3> QED
      BY <3>5, <3>6, <3>7 DEF PartsAddUp
  <2> QED
    BY <2>1, <2>2
<1>9. KeysJoin' /\ KeysMultiply' /\ RefreshHolds'
  BY <1>1, CombinedKeysStay, RefreshHoldsStays DEF SInv, keyVars
<1>10. RefreshMasked'
  BY <1>1 DEF SInv, RefreshMasked, keyVars
<1>11. UNCHANGED <<secretKeys, ciphertexts>> /\ revealed' = revealed
  BY <1>1 DEF keyVars
<1> QED
  BY <1>8, <1>9, <1>10, <1>11, StutterAdvances

LEMMA FusionAdvances ==
  ASSUME NEW bound, SInv(bound), MessagesFit(bound), MultipartyDecryptFusion
  PROVE  Advances(bound)
PROOF
<1>1. /\ partials # None /\ DOMAIN partials.part = Parties
      /\ revealed' = << Centred(Sum(partials.part), Q[ciphertexts[partials.of].towers]) >>
      /\ partials' = None
      /\ UNCHANGED <<keyVars, multKey, multipliers, alive, ciphertexts, refresh>>
  BY DEF MultipartyDecryptFusion
<1>0. PICK part : part = partials.part
  OBVIOUS
<1>2. PICK k \in DOMAIN ciphertexts, lead \in Parties :
        /\ k = partials.of /\ DOMAIN part = Parties
        /\ Parts(part, secretKeys, ciphertexts[k].elements, lead)
  BY <1>0, <1>1 DEF SInv, PartsAddUp
<1>3. Len(secretKeys) = scheme.parties
  BY DEF SInv, TInv, CiphertextsTyped
<1>4. PICK c : c = ciphertexts[k]
  OBVIOUS
<1>5. c \in Ciphertexts /\ c.towers = Full /\ c.elements[1] \in Int /\ c.elements[2] \in Int
  BY <1>4, ValueFacts
<1>6. KeysShared /\ IsFiniteSet(Parties) /\ Total(secretKeys) = SumOver(secretKeys, Parties)
      /\ Total(secretKeys) \in Int /\ \A i \in Parties : secretKeys[i] \in Int
  BY <1>3, KeysAllThere
<1> DEFINE v == SumOver(part, Parties)
           t == c.elements[1] + Total(secretKeys) * c.elements[2]
<1>7. v \in Int /\ Congruent(v, t, Q[Full])
  BY <1>2, <1>4, <1>5, <1>6, FusionValue
<1>8. Congruent(t, v, Q[Full])
  <2>1. t \in Int /\ Q[Full] \in Int
    BY <1>5, <1>6, QFacts, FullFacts
  <2> HIDE DEF t, v
  <2> QED
    BY <1>7, <2>1, CongruentSym
<1>9. Centred(v, Q[Full]) = Phase(c)
  <2> HIDE DEF v
  <2> QED
    BY <1>5, <1>6, <1>7, <1>8, PhaseFacts
<1>10. revealed' = <<Phase(ciphertexts[k])>>
  <2>1. Sum(part) = v
    BY <1>2, SumIsOver
  <2> QED
    BY <1>0, <1>1, <1>2, <1>4, <1>5, <1>9, <2>1
<1>11. KeysJoin' /\ KeysMultiply' /\ RefreshHolds'
  BY <1>1, CombinedKeysStay, RefreshHoldsStays DEF SInv, keyVars
<1>12. PartsAddUp'
  BY <1>1 DEF PartsAddUp
<1>13. RefreshMasked'
  BY <1>1 DEF SInv, RefreshMasked, keyVars
<1>14. UNCHANGED <<secretKeys, ciphertexts>>
  BY <1>1 DEF keyVars
<1> QED
  BY <1>10, <1>11, <1>12, <1>13, <1>14, StutterAdvances

-----------------------------------------------------------------------------
(* The steps of an interactive bootstrapping before its last one.          *)

LEMMA AdjustScaleAdvances ==
  ASSUME NEW bound, SInv(bound), MessagesFit(bound), IntMPBootAdjustScale
  PROVE  Advances(bound)
PROOF
<1>1. PICK k \in DOMAIN ciphertexts, a \in {tape[1] : tape \in Tapes} :
        /\ refresh' = [input |-> Compress(ciphertexts[k], NumTowersToKeep), a |-> a,
                       pairs |-> <<>>, sum |-> None, adds |-> 0]
        /\ UNCHANGED <<keyVars, multKey, multipliers, alive, ciphertexts, partials, revealed>>
  BY DEF IntMPBootAdjustScale
<1>2. Len(secretKeys) = scheme.parties
  BY DEF SInv, TInv, CiphertextsTyped
<1>3. PICK c : c = ciphertexts[k]
  OBVIOUS
<1>4. PICK d : d = Compress(c, NumTowersToKeep)
  OBVIOUS
<1> DEFINE T == Total(secretKeys)
           v == Phase(c)
           x == c.elements[1]
           y == c.elements[2]
           K == Q[NumTowersToKeep]
           xk == d.elements[1]
           yk == d.elements[2]
<1>5. c \in Ciphertexts /\ x \in Int /\ y \in Int /\ v \in Int /\ Congruent(x + T * y, v, Q[Full])
  BY <1>3, ValueFacts
<1>6. NumTowersToKeep \in 0 .. Full /\ Full \in 0 .. Full /\ NumTowersToKeep <= Full
  BY FullFacts
<1>7. T \in Int /\ K \in Int
  BY <1>2, <1>6, KeysAllThere, QFacts
<1>8. xk \in Int /\ yk \in Int /\ Congruent(xk, x, K) /\ Congruent(yk, y, K)
  <2>1. xk = x % K /\ yk = y % K
    BY <1>4, <1>5, CompressFacts
  <2> HIDE DEF x, y, xk, yk
  <2> QED
    BY <1>5, <1>6, <2>1, QMod
<1> HIDE DEF T, v, x, y, xk, yk
<1>9. Congruent(x + T * y, v, K)
  <2> DEFINE z == x + T * y
  <2>1. z \in Int /\ Congruent(z, v, Q[Full])
    BY <1>5, <1>7
  <2> HIDE DEF z, K
  <2>2. Congruent(z, v, Q[NumTowersToKeep])
    BY <1>5, <1>6, <2>1, CongruentFewer
  <2> QED
    BY <2>2 DEF z, K
<1> HIDE DEF K
<1>10. Congruent(xk + T * yk, v, K)
  <2>1. PICK e \in Int : x + T * y = v + e * K
    BY <1>9 DEF Congruent
  <2>2. PICK f \in Int : xk = x + f * K
    BY <1>8 DEF Congruent
  <2>3. PICK g \in Int : yk = y + g * K
    BY <1>8 DEF Congruent
  <2> DEFINE l == T * y
             m == e * K
             n == f * K
             o == T * (g * K)
  <2>4. T * yk = l + o /\ o = (T * g) * K /\ T * g \in Int
    BY <1>5, <1>7, <2>3
  <2>5. l \in Int /\ m \in Int /\ n \in Int /\ o \in Int /\ x + l = v + m /\ xk = x + n
    BY <1>5, <1>7, <2>1, <2>2
  <2>6. (e + f + T * g) * K = m + n + o /\ e + f + T * g \in Int
    <3> DEFINE h == T * g
    <3>1. h \in Int /\ o = h * K
      BY <2>4
    <3> HIDE DEF h, o
    <3>2. (e + f + h) * K = e * K + f * K + h * K /\ e + f + h \in Int
      BY <1>7, <3>1
    <3> QED
      BY <3>1, <3>2 DEF h
  <2> HIDE DEF l, m, n, o
  <2>7. xk + (l + o) = v + (m + n + o)
    BY <1>5, <2>5
  <2>8. xk + T * yk = v + (e + f + T * g) * K
    BY <2>4, <2>6, <2>7
  <2> QED
    BY <2>6, <2>8 DEF Congruent
<1>11. /\ refresh' = [input |-> d, a |-> a, pairs |-> <<>>, sum |-> None, adds |-> 0]
       /\ secretKeys' = secretKeys /\ ciphertexts' = ciphertexts
  BY <1>1, <1>3, <1>4 DEF keyVars
<1>12. RefreshHolds'
  <2>1. Phase(ciphertexts[k])' = v
    BY <1>3, <1>11, PhaseNext DEF v
  <2>2. refresh'.input.elements[1] = xk /\ refresh'.input.elements[2] = yk
    BY <1>11 DEF xk, yk
  <2>3. Congruent(refresh'.input.elements[1] + Total(secretKeys') * refresh'.input.elements[2],
                  Phase(ciphertexts[k])', Q[NumTowersToKeep])
    BY <1>10, <1>11, <2>1, <2>2 DEF T, K
  <2>4. k \in DOMAIN ciphertexts'
    BY <1>11
  <2> QED
    BY <2>3, <2>4 DEF RefreshHolds
<1>13. RefreshMasked'
  <2>1. refresh'.adds = 0 /\ refresh'.sum = None /\ refresh'.pairs = <<>>
    BY <1>11
  <2>2. PairsMasked(secretKeys', refresh')
    BY <2>1 DEF PairsMasked
  <2> QED
    BY <2>1, <2>2 DEF RefreshMasked
<1>14. KeysJoin' /\ KeysMultiply' /\ PartsAddUp'
  BY <1>1, CombinedKeysStay, PartsStay DEF SInv, keyVars
<1>15. revealed' = revealed
  BY <1>1
<1> QED
  BY <1>11, <1>12, <1>13, <1>14, <1>15, StutterAdvances

LEMMA IntMPBootDecryptAdvances ==
  ASSUME NEW bound, SInv(bound), MessagesFit(bound), SumsFit, AllShares, IntMPBootDecrypt
  PROVE  Advances(bound)
PROOF
<1>1. PICK tape \in Tapes :
        LET i == Len(refresh.pairs) + 1
            mask == GenerateMi(tape[1])
            pair == << GenerateMaskedDecryptionShare(KeyOf(i), refresh.input, mask),
                       GenerateReEncryptionShare(KeyOf(i), refresh.a, mask) >>
        IN  /\ refresh # None /\ i \in Parties /\ CanAct(i) /\ i \in 1 .. Len(secretKeys)
            /\ mask \in Int /\ KeyOf(i) \in Int /\ pair \in [1 .. 2 -> Int]
            /\ 2 * mask < Q[CompressionLevel] /\ - Q[CompressionLevel] <= 2 * mask
            /\ refresh' = [input |-> refresh.input, a |-> refresh.a, pairs |-> Append(refresh.pairs, pair),
                           sum |-> refresh.sum, adds |-> refresh.adds]
            /\ UNCHANGED <<keyVars, multKey, multipliers, alive, ciphertexts, partials, revealed>>
  BY PairFacts DEF SInv
<1>2. PICK r \in Refreshes : r = refresh /\ r # None /\ r.input.towers = NumTowersToKeep
  BY <1>1 DEF SInv, TInv, RefreshTyped
<1>3. /\ r.input \in Ciphertexts /\ r.a \in Int /\ r.pairs \in Seq([1 .. 2 -> Int]) /\ Len(r.pairs) \in Nat
      /\ r.input.elements[1] \in Int /\ r.input.elements[2] \in Int
  BY <1>2, RefreshFacts, CiphertextFacts
<1>4. PICK n \in Nat, i \in Nat, mask \in Int :
        /\ n = Len(r.pairs) /\ i = n + 1 /\ mask = GenerateMi(tape[1])
        /\ i \in Parties /\ CanAct(i) /\ i \in 1 .. Len(secretKeys)
        /\ 2 * mask < Q[CompressionLevel] /\ - Q[CompressionLevel] <= 2 * mask
  BY <1>1, <1>2, <1>3
<1>5. PICK s \in Int : s = secretKeys[i] /\ s = KeyOf(i)
  <2>1. KeysShared
    BY DEF SInv, TInv
  <2>2. secretKeys[i] \in Int
    BY <1>4, <2>1, TotalFacts
  <2> QED
    BY <1>4, <2>1, <2>2, KeyOfOwner
<1>6. PICK pair : pair = << (s * r.input.elements[2] - mask) % Q[NumTowersToKeep],
                            (- s * r.a + mask) % Q[Full] >>
  OBVIOUS
<1>7. /\ refresh' = [input |-> r.input, a |-> r.a, pairs |-> Append(r.pairs, pair),
                     sum |-> r.sum, adds |-> r.adds]
      /\ UNCHANGED <<keyVars, multKey, multipliers, alive, ciphertexts, partials, revealed>>
  <2>1. pair = << GenerateMaskedDecryptionShare(KeyOf(i), refresh.input, mask),
                  GenerateReEncryptionShare(KeyOf(i), refresh.a, mask) >>
    BY <1>2, <1>5, <1>6 DEF GenerateMaskedDecryptionShare, GenerateReEncryptionShare
  <2>2. i = Len(refresh.pairs) + 1 /\ mask = GenerateMi(tape[1])
    BY <1>2, <1>4
  <2> QED
    BY <1>1, <1>2, <2>1, <2>2
<1>8. Masked(pair, s, r.input.elements[2], r.a, mask, 1)
  <2>1. pair[1] = (s * r.input.elements[2] - mask) % Q[NumTowersToKeep] /\ pair[2] = (- s * r.a + mask) % Q[Full]
    BY <1>6
  <2>2. 2 * mask <= Q[CompressionLevel] /\ - Q[CompressionLevel] <= 2 * mask
    BY <1>4, QFacts, FullFacts
  <2> QED
    BY <1>3, <2>1, <2>2, PairMasked
<1>9. r.adds = 0 /\ r.sum = None /\ PairsMasked(secretKeys, r)
  <2>1. scheme.parties \in Nat /\ Parties = 1 .. scheme.parties
    BY PartiesFinite DEF SInv, TInv, KeysShared
  <2>2. Len(r.pairs) # scheme.parties
    BY <1>4, <2>1
  <2> QED
    BY <1>2, <2>2 DEF SInv, RefreshMasked
<1>10. PairsMasked(secretKeys', refresh')
  <2>1. refresh'.pairs = Append(r.pairs, pair) /\ refresh'.input = r.input /\ refresh'.a = r.a
        /\ secretKeys' = secretKeys
    BY <1>7 DEF keyVars
  <2>2. Append(r.pairs, pair) = [k \in 1 .. n + 1 |-> IF k = n + 1 THEN pair ELSE r.pairs[k]]
    BY <1>3, <1>4, AppendIs
  <2>3. Len(Append(r.pairs, pair)) = n + 1
    BY <1>3, <1>4
  <2>4. ASSUME NEW k \in 1 .. n + 1
        PROVE  \E l \in Int : Masked(Append(r.pairs, pair)[k], secretKeys[k], r.input.elements[2], r.a, l, 1)
    <3>1. CASE k = n + 1
      <4>1. Append(r.pairs, pair)[k] = pair /\ secretKeys[k] = s
        BY <1>4, <1>5, <2>2, <3>1
      <4> QED
        BY <1>8, <4>1
    <3>2. CASE k # n + 1
      <4>1. k \in 1 .. Len(r.pairs) /\ Append(r.pairs, pair)[k] = r.pairs[k]
        BY <1>4, <2>2, <3>2
      <4> QED
        BY <1>9, <4>1 DEF PairsMasked
    <3> QED
      BY <3>1, <3>2
  <2> QED
    BY <2>1, <2>3, <2>4 DEF PairsMasked
<1>11. RefreshMasked'
  <2>1. refresh'.adds = 0 /\ refresh'.sum = None
    BY <1>7, <1>9
  <2> QED
    BY <1>10, <2>1 DEF RefreshMasked
<1>12. RefreshHolds'
  <2>1. refresh'.input = refresh.input /\ refresh # None
    BY <1>2, <1>7
  <2> QED
    BY <1>7, <2>1, RefreshHoldsStays DEF SInv, keyVars
<1>13. KeysJoin' /\ KeysMultiply' /\ PartsAddUp'
  BY <1>7, CombinedKeysStay, PartsStay DEF SInv, keyVars
<1>14. UNCHANGED <<secretKeys, ciphertexts>> /\ revealed' = revealed
  BY <1>7 DEF keyVars
<1> QED
  BY <1>11, <1>12, <1>13, <1>14, StutterAdvances

LEMMA IntMPBootAddAdvances ==
  ASSUME NEW bound, SInv(bound), MessagesFit(bound), OneAggregation, IntMPBootAdd
  PROVE  Advances(bound)
PROOF
<1>1. PICK r \in Refreshes :
        /\ r = refresh /\ r # None /\ r.input.towers = NumTowersToKeep /\ Len(secretKeys) = scheme.parties
  BY AddFormsTotal DEF SInv, TInv, RefreshTyped
<1> DEFINE f == [i \in Parties |-> r.pairs[i][1]]
           g == [i \in Parties |-> r.pairs[i][2]]
<1>2. PICK total :
        total = << SumOver(f, Parties) % Q[NumTowersToKeep], SumOver(g, Parties) % Q[Full] >>
  OBVIOUS
<1>3. /\ Len(r.pairs) = scheme.parties /\ DOMAIN r.pairs = Parties /\ r.adds < MaxAdds
      /\ \A i \in Parties : r.pairs[i][1] \in Int /\ r.pairs[i][2] \in Int
      /\ refresh' = [input |-> r.input, a |-> r.a, pairs |-> [r.pairs EXCEPT ![1] = total],
                     sum |-> total, adds |-> r.adds + 1]
      /\ UNCHANGED <<keyVars, multKey, multipliers, alive, ciphertexts, partials, revealed>>
  BY <1>1, <1>2, AddFormsTotal DEF SInv
<1>4. /\ r.a \in Int /\ r.adds = 0 /\ r.input.elements[2] \in Int /\ r.pairs \in Seq([1 .. 2 -> Int])
  <2>1. r.adds \in Nat /\ r.a \in Int /\ r.input \in Ciphertexts /\ r.pairs \in Seq([1 .. 2 -> Int])
    BY RefreshFacts
  <2> QED
    BY <1>3, <2>1, CiphertextFacts DEF OneAggregation
<1>5. PairsMasked(secretKeys, r)
  BY <1>1, <1>4 DEF SInv, RefreshMasked
<1>6. /\ IsFiniteSet(Parties) /\ Cardinality(Parties) = scheme.parties /\ Parties = 1 .. Len(r.pairs)
      /\ Total(secretKeys) = SumOver(secretKeys, Parties) /\ \A i \in Parties : secretKeys[i] \in Int
      /\ scheme.parties \in Nat /\ scheme.parties >= 2 /\ scheme.parties \in 1 .. scheme.parties
  <2>1. Parties = 1 .. Len(r.pairs)
    BY <1>3 DEF Parties
  <2> QED
    BY <1>1, <2>1, KeysAllThere, PartiesFinite
<1> DEFINE masks == [i \in Parties |-> CHOOSE mask \in Int :
                       Masked(r.pairs[i], secretKeys[i], r.input.elements[2], r.a, mask, 1)]
<1>7. ASSUME NEW i \in Parties
      PROVE  /\ f[i] \in Int /\ g[i] \in Int /\ masks[i] \in Int
             /\ Masked(<<f[i], g[i]>>, secretKeys[i], r.input.elements[2], r.a, masks[i], 1)
  <2>1. \E mask \in Int : Masked(r.pairs[i], secretKeys[i], r.input.elements[2], r.a, mask, 1)
    BY <1>5, <1>6 DEF PairsMasked
  <2>2. masks[i] \in Int /\ Masked(r.pairs[i], secretKeys[i], r.input.elements[2], r.a, masks[i], 1)
    BY <2>1
  <2>3. f[i] = r.pairs[i][1] /\ g[i] = r.pairs[i][2] /\ f[i] \in Int /\ g[i] \in Int
    BY <1>3
  <2>4. <<f[i], g[i]>>[1] = r.pairs[i][1] /\ <<f[i], g[i]>>[2] = r.pairs[i][2]
    BY <2>3
  <2> HIDE DEF masks
  <2> QED
    BY <2>2, <2>3, <2>4 DEF Masked
<1> HIDE DEF f, g, masks
<1>8. /\ SumOver(masks, Parties) \in Int
      /\ Masked(total, Total(secretKeys), r.input.elements[2], r.a, SumOver(masks, Parties), scheme.parties)
  <2>1. \A i \in Parties : f[i] \in Int /\ g[i] \in Int /\ masks[i] \in Int
    BY <1>7
  <2>2. \A i \in Parties : Masked(<<f[i], g[i]>>, secretKeys[i], r.input.elements[2], r.a, masks[i], 1)
    BY <1>7
  <2>3. /\ SumOver(masks, Parties) \in Int
        /\ Masked(<< SumOver(f, Parties) % Q[NumTowersToKeep], SumOver(g, Parties) % Q[Full] >>,
                  SumOver(secretKeys, Parties), r.input.elements[2], r.a, SumOver(masks, Parties), Cardinality(Parties))
    BY <1>4, <1>6, <2>1, <2>2, MasksAddUp
  <2> QED
    BY <1>2, <1>6, <2>3
<1>9. RefreshMasked'
  <2>1. /\ refresh'.adds = 1 /\ refresh'.sum = total /\ refresh'.input = r.input /\ refresh'.a = r.a
        /\ Len(refresh'.pairs) = scheme.parties /\ secretKeys' = secretKeys /\ scheme' = scheme
    <3>1. refresh'.pairs = [r.pairs EXCEPT ![1] = total] /\ refresh'.adds = 0 + 1 /\ refresh'.sum = total
          /\ refresh'.input = r.input /\ refresh'.a = r.a /\ secretKeys' = secretKeys /\ scheme' = scheme
      BY <1>3, <1>4 DEF keyVars
    <3>2. Len([r.pairs EXCEPT ![1] = total]) = Len(r.pairs)
      <4>1. total \in [1 .. 2 -> Int]
        BY <1>1, <1>2, AddFormsTotal DEF SInv, f, g
      <4>2. [r.pairs EXCEPT ![1] = total] \in Seq([1 .. 2 -> Int])
        BY <1>4, <4>1, ReplacedIsSeq
      <4>3. DOMAIN [r.pairs EXCEPT ![1] = total] = DOMAIN r.pairs
        OBVIOUS
      <4>4. Len(r.pairs) \in Nat /\ DOMAIN r.pairs = 1 .. Len(r.pairs)
        BY <1>4
      <4> DEFINE p == [r.pairs EXCEPT ![1] = total]
      <4>5. Len(p) \in Nat /\ DOMAIN p = 1 .. Len(p) /\ DOMAIN p = DOMAIN r.pairs
        BY <4>2, <4>3
      <4> HIDE DEF p
      <4>6. 1 .. Len(p) = 1 .. Len(r.pairs)
        BY <4>4, <4>5
      <4> QED
        BY <4>4, <4>5, <4>6 DEF p
    <3> QED
      BY <1>3, <3>1, <3>2
  <2>2. SumMasked(secretKeys', refresh', scheme'.parties)
    BY <1>8, <2>1 DEF SumMasked
  <2> QED
    BY <2>1, <2>2 DEF RefreshMasked
<1>10. RefreshHolds'
  <2>1. refresh'.input = refresh.input /\ refresh # None
    BY <1>1, <1>3
  <2> QED
    BY <1>3, <2>1, RefreshHoldsStays DEF SInv, keyVars
<1>11. KeysJoin' /\ KeysMultiply' /\ PartsAddUp'
  BY <1>3, CombinedKeysStay, PartsStay DEF SInv, keyVars
<1>12. UNCHANGED <<secretKeys, ciphertexts>> /\ revealed' = revealed
  BY <1>3 DEF keyVars
<1> QED
  BY <1>9, <1>10, <1>11, <1>12, StutterAdvances

-----------------------------------------------------------------------------
(* The parties together are one ideal evaluator.                           *)

LEMMA SInvInit ==
  ASSUME NEW bound, MessagesFit(bound), Init
  PROVE  SInv(bound) /\ Ideal!Init
PROOF
<1>1. TInv
  BY TInvInit
<1>2. secretKeys = <<>> /\ multipliers = 0 /\ ciphertexts = <<>> /\ partials = None /\ refresh = None
      /\ revealed = <<>>
  BY DEF Init
<1>3. KeysJoin /\ KeysMultiply /\ PartsAddUp /\ RefreshHolds /\ RefreshMasked
  BY <1>2 DEF KeysJoin, KeysMultiply, PartsAddUp, RefreshHolds, RefreshMasked
<1>4. ValuesSmall(bound)
  BY <1>2 DEF ValuesSmall, MessagesFit
<1>5. [k \in DOMAIN ciphertexts |-> Phase(ciphertexts[k])] = <<>>
  <2>1. DOMAIN ciphertexts = {}
    BY <1>2
  <2>2. [k \in {} |-> Phase(ciphertexts[k])] = <<>>
    OBVIOUS
  <2> QED
    BY <2>1, <2>2
<1> QED
  BY <1>1, <1>2, <1>3, <1>4, <1>5 DEF SInv, Ideal!Init

LEMMA SInvNext ==
  ASSUME NEW bound, MessagesFit(bound), SumsFit, AllShares, OneAggregation
  PROVE  SInv(bound) /\ [Next]_vars => SInv(bound)' /\ [Ideal!Next]_(Ideal!vars)
PROOF
<1> SUFFICES ASSUME SInv(bound), [Next]_vars
             PROVE  SInv(bound)' /\ [Ideal!Next]_(Ideal!vars)
  OBVIOUS
<1>1. TInv'
  BY TInvNext DEF SInv
<1>2. Advances(bound)
  <2>1. CASE KeyGen
    BY <2>1, KeyGenAdvances
  <2>2. CASE MultipartyKeyGen
    BY <2>2, MultipartyKeyGenAdvances
  <2>3. CASE MultiplyEvalKey
    BY <2>3, MultiplyEvalKeyAdvances
  <2>4. CASE Abort \/ UNCHANGED vars
    BY <2>4, AbortAdvances
  <2>5. CASE Encrypt
    BY <2>5, EncryptAdvances
  <2>6. CASE EvalAdd
    BY <2>6, EvalAddAdvances
  <2>7. CASE EvalMult
    BY <2>7, EvalMultAdvances
  <2>8. CASE MultipartyDecrypt
    BY <2>8, MultipartyDecryptAdvances
  <2>9. CASE MultipartyDecryptFusion
    BY <2>9, FusionAdvances
  <2>10. CASE IntMPBootAdjustScale
    BY <2>10, AdjustScaleAdvances
  <2>11. CASE IntMPBootDecrypt
    BY <2>11, IntMPBootDecryptAdvances
  <2>12. CASE IntMPBootAdd
    BY <2>12, IntMPBootAddAdvances
  <2>13. CASE IntMPBootEncrypt
    BY <2>13, RefreshAdvances
  <2> QED
    BY <2>1, <2>2, <2>3, <2>4, <2>5, <2>6, <2>7, <2>8, <2>9, <2>10, <2>11, <2>12, <2>13 DEF Next
<1> QED
  BY <1>1, <1>2 DEF SInv, Advances

(* No order of joining, of contributing to the multiplication key and of   *)
(* answering, no lost party that was recovered, and no interactive         *)
(* bootstrapping changes what a ciphertext holds or what the fusion        *)
(* returns: the parties together are one ideal evaluator.                  *)
THEOREM Implements ==
  ASSUME NEW bound, MessagesFit(bound), SumsFit, AllShares, OneAggregation
  PROVE  Spec => ImplementsIdeal
PROOF
<1>1. Init => SInv(bound) /\ Ideal!Init
  BY SInvInit
<1>2. SInv(bound) /\ [Next]_vars => SInv(bound)' /\ [Ideal!Next]_(Ideal!vars)
  BY SInvNext
<1> QED
  BY <1>1, <1>2, PTL DEF Spec, ImplementsIdeal, Ideal!Spec
=============================================================================
