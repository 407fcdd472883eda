---------------------- MODULE CKKSBootstrapping_proof ----------------------
(***************************************************************************)
(* Proofs about CKKSBootstrapping, for every number of slots, level budget *)
(* and baby step: the rotation keys that are generated cover the rotations *)
(* a refresh asks for, and set-ups have a plaintext for each level.        *)
(***************************************************************************)
EXTENDS CKKSBootstrapping, FiniteSetTheorems, WellFoundedInduction, TLAPS

-----------------------------------------------------------------------------
(* Induction over the natural numbers, for sets.                           *)

(* A non-empty set of natural numbers has a least element.                  *)
LEMMA LeastExists ==
  ASSUME NEW S \in SUBSET Nat, S # {}
  PROVE  \E x \in S : \A y \in S : x <= y
PROOF
<1> DEFINE T == {0 .. n : n \in S}
<1>1. \A n \in Nat : 0 .. n \in SUBSET Nat /\ IsFiniteSet(0 .. n)
  BY FS_Interval
<1>2. T \subseteq FiniteSubsetsOf(Nat) /\ T # {}
  BY <1>1 DEF FiniteSubsetsOf
<1>3. PICK X \in T : \A Y \in T : <<Y, X>> \notin StrictSubsetOrdering(Nat)
  <2> HIDE DEF T
  <2> QED
    BY <1>2, FS_StrictSubsetOrderingWellFounded, WFMin
<1>4. PICK x \in S : X = 0 .. x
  BY <1>3
<1>5. ASSUME NEW y \in S, y < x
      PROVE  FALSE
  <2>1. x \in 0 .. x /\ x \notin 0 .. y /\ 0 .. y \subseteq 0 .. x
    BY <1>5
  <2>2. <<0 .. y, 0 .. x>> \in (SUBSET Nat) \X (SUBSET Nat)
    BY <1>1
  <2>3. <<0 .. y, 0 .. x>> \in StrictSubsetOrdering(Nat)
    BY <2>1, <2>2 DEF StrictSubsetOrdering
  <2> QED
    BY <1>3, <1>4, <2>3
<1> QED
  BY <1>5

(* A set that holds 0, and with a number its successor, holds them all.     *)
LEMMA SetInduction ==
  ASSUME NEW Members, 0 \in Members, \A n \in Nat : n \in Members => n + 1 \in Members
  PROVE  \A n \in Nat : n \in Members
PROOF
<1>1. SUFFICES ASSUME Nat \ Members # {} PROVE FALSE
  OBVIOUS
<1>2. PICK x \in Nat \ Members : \A y \in Nat \ Members : x <= y
  BY <1>1, LeastExists
<1>3. /\ x - 1 \in Nat /\ x - 1 \in Members
      /\ x - 1 + 1 = x
  BY <1>2
<1> QED
  BY <1>2, <1>3

(* A set that holds 0, and with a number its successor, up to a bound.      *)
LEMMA BoundedInduction ==
  ASSUME NEW Members, NEW top \in Nat, 0 \in Members, \A n \in 0 .. top - 1 : n \in Members => n + 1 \in Members
  PROVE  \A n \in 0 .. top : n \in Members
PROOF
<1> DEFINE Missing == {n \in 0 .. top : n \notin Members}
<1>1. SUFFICES ASSUME Missing # {} PROVE FALSE
  OBVIOUS
<1>2. Missing \in SUBSET Nat
  OBVIOUS
<1>3. PICK x \in Missing : \A y \in Missing : x <= y
  <2> HIDE DEF Missing
  <2> QED
    BY <1>1, <1>2, LeastExists
<1>4. x - 1 \in 0 .. top - 1 /\ x - 1 \in Members /\ x - 1 + 1 = x
  BY <1>3
<1> QED
  BY <1>3, <1>4

(* Recursion up to a bound: F[k] makes the k-th value, in S, of the one    *)
(* before, and there is a function of these values.                        *)
RecursionSteps(S, top) == [1 .. top -> [S -> S]]
IsRecursion(f, S, a, F, top) ==
  /\ f \in [0 .. top -> S]
  /\ f[0] = a
  /\ \A k \in 1 .. top : f[k] = F[k][f[k - 1]]

LEMMA RecursionExists ==
  ASSUME NEW S, NEW a \in S, NEW top \in Nat, NEW F \in RecursionSteps(S, top)
  PROVE  \E f : IsRecursion(f, S, a, F, top)
PROOF
<1> USE DEF RecursionSteps
<1> DEFINE Is(f, n) == f = [k \in 0 .. n |-> IF k = 0 THEN a ELSE F[k][f[k - 1]]]
           Members == {n \in 0 .. top : \E f \in [0 .. n -> S] : Is(f, n)}
<1>1. 0 \in Members
  <2> DEFINE f == [k \in 0 .. 0 |-> a]
  <2>1. f \in [0 .. 0 -> S]
    OBVIOUS
  <2>2. Is(f, 0)
    OBVIOUS
  <2>3. 0 \in 0 .. top
    OBVIOUS
  <2> HIDE DEF f
  <2> QED
    BY <2>1, <2>2, <2>3
<1>2. ASSUME NEW n \in 0 .. top - 1, n \in Members
      PROVE  n + 1 \in Members
  <2>1. PICK f \in [0 .. n -> S] : Is(f, n)
    BY <1>2
  <2> DEFINE h == [k \in 0 .. n + 1 |-> IF k = 0 THEN a ELSE F[k][f[k - 1]]]
  <2>2. \A k \in 0 .. n : h[k] = f[k]
    <3>1. \A k \in 0 .. n : f[k] = IF k = 0 THEN a ELSE F[k][f[k - 1]]
      BY <2>1
    <3>2. \A k \in 0 .. n : k \in 0 .. n + 1
      OBVIOUS
    <3> HIDE DEF Is, Members
    <3> QED
      BY <3>1, <3>2
  <2>3. \A k \in 0 .. n + 1 : h[k] \in S
    <3>1. \A k \in 0 .. n + 1 : k # 0 => k - 1 \in 0 .. n /\ k \in 1 .. top
      OBVIOUS
    <3>2. \A k \in 1 .. top, v \in S : F[k][v] \in S
      OBVIOUS
    <3> HIDE DEF Is, Members
    <3> QED
      BY <3>1, <3>2
  <2> HIDE DEF h
  <2>4. \A k \in 0 .. n + 1 : k # 0 => f[k - 1] = h[k - 1]
    BY <2>2
  <2>5. Is(h, n + 1)
    BY <2>4 DEF h
  <2>6. h \in [0 .. n + 1 -> S]
    BY <2>3, <2>5
  <2>7. n + 1 \in 0 .. top
    OBVIOUS
  <2> QED
    BY <2>5, <2>6, <2>7
<1>3. \A n \in 0 .. top : n \in Members
  <2> HIDE DEF Members
  <2> QED
    BY <1>1, <1>2, BoundedInduction, Zenon
<1>4. PICK f \in [0 .. top -> S] : Is(f, top)
  BY <1>3
<1>5. f[0] = a /\ \A k \in 1 .. top : f[k] = F[k][f[k - 1]]
  BY <1>4
<1> QED
  BY <1>5 DEF IsRecursion

(* Quotient and remainder.                                                 *)
LEMMA Division ==
  ASSUME NEW a \in Int, NEW b \in Nat \ {0}
  PROVE  \E k \in Int, r \in 0 .. b - 1 : a = b * k + r /\ k = a \div b /\ r = a % b
OBVIOUS

(* The baby step a user gives is no longer than the slots of a ciphertext. *)
(* With a longer one the transform of a single level asks for a rotation   *)
(* by all slots, whose key is taken off the list.                          *)
DimsFit == \A dim1 \in Dims : dim1 \in Nat \X Nat /\ dim1[1] <= M4

(* Levels are numbers.                                                     *)
BudgetsFit == \A type \in DOMAIN Budgets : Budgets[type] \subseteq Nat \X Nat

-----------------------------------------------------------------------------
(* Powers of two.                                                          *)
Pow2(n) == CHOOSE pow : pow = [k \in 0..n |-> IF k = 0 THEN 1 ELSE 2 * pow[k - 1]]

LEMMA Pow2Facts ==
  ASSUME NEW n \in Nat
  PROVE  /\ \A k \in 0..n : Pow2(n)[k] \in Nat \ {0}
         /\ Pow2(n)[0] = 1
         /\ \A k \in 1..n : Pow2(n)[k] = 2 * Pow2(n)[k - 1]
PROOF
<1> DEFINE Is(f) == f = [k \in 0..n |-> IF k = 0 THEN 1 ELSE 2 * f[k - 1]]
           S == Nat \ {0}
           F == [k \in 1..n |-> [v \in S |-> 2 * v]]
<1>1. 1 \in S /\ F \in RecursionSteps(S, n)
  BY DEF RecursionSteps
<1>2. PICK f : IsRecursion(f, S, 1, F, n)
  <2> HIDE DEF F, S
  <2> QED
    BY <1>1, RecursionExists, Zenon
<1>3. f \in [0..n -> S] /\ f[0] = 1 /\ \A k \in 1..n : f[k] = 2 * f[k - 1]
  <2>1. f \in [0..n -> S] /\ f[0] = 1 /\ \A k \in 1..n : f[k] = F[k][f[k - 1]]
    <3> HIDE DEF F, Is, S
    <3> QED
      BY <1>2 DEF IsRecursion
  <2>2. \A k \in 1..n : f[k - 1] \in S
    BY <2>1
  <2> QED
    BY <2>1, <2>2
<1>4. Is(f)
  <2>1. f = [k \in 0..n |-> f[k]]
    BY <1>3
  <2>2. \A k \in 0..n : f[k] = IF k = 0 THEN 1 ELSE 2 * f[k - 1]
    BY <1>3
  <2> QED
    BY <2>1, <2>2
<1> DEFINE p == Pow2(n)
<1>5. Is(p)
  BY <1>4 DEF Pow2
<1>6. p[0] = 1 /\ \A k \in 1..n : p[k] = 2 * p[k - 1]
  BY <1>5
<1>7. \A k \in 0..n : p[k] \in S
  <2> DEFINE T == {k \in 0..n : p[k] \in S}
  <2>1. 0 \in T
    BY <1>6
  <2>2. ASSUME NEW k \in 0..n - 1, k \in T
        PROVE  k + 1 \in T
    <3>1. k + 1 \in 1..n /\ k + 1 - 1 = k
      OBVIOUS
    <3> HIDE DEF p
    <3> QED
      BY <1>6, <2>2, <3>1
  <2> HIDE DEF T
  <2>3. \A k \in 0..n : k \in T
    BY <2>1, <2>2, BoundedInduction, Zenon
  <2> QED
    BY <2>3 DEF T
<1> QED
  BY <1>6, <1>7

LEMMA TwoToIs ==
  ASSUME NEW n
  PROVE  TwoTo(n) = Pow2(n)[n]
BY DEF TwoTo, Pow2

LEMMA Pow2Agree ==
  ASSUME NEW n \in Nat
  PROVE  Pow2(n + 1)[n] = Pow2(n)[n]
PROOF
<1> DEFINE f == Pow2(n)
           g == Pow2(n + 1)
           T == {k \in 0..n : g[k] = f[k]}
<1>1. f[0] = 1 /\ \A k \in 1..n : f[k] = 2 * f[k - 1]
  BY Pow2Facts
<1>2. g[0] = 1 /\ \A k \in 1..n + 1 : g[k] = 2 * g[k - 1]
  BY Pow2Facts
<1> HIDE DEF f, g
<1>3. 0 \in T
  BY <1>1, <1>2
<1>4. ASSUME NEW k \in 0..n - 1, k \in T
      PROVE  k + 1 \in T
  <2>1. k + 1 \in 1..n /\ k + 1 \in 1..n + 1 /\ k + 1 - 1 = k
    OBVIOUS
  <2> QED
    BY <1>1, <1>2, <1>4, <2>1
<1>5. \A k \in 0..n : k \in T
  <2> HIDE DEF T
  <2> QED
    BY <1>3, <1>4, BoundedInduction, Zenon
<1> QED
  BY <1>5 DEF f, g

LEMMA TwoToFacts ==
  /\ TwoTo(0) = 1
  /\ \A n \in Nat : TwoTo(n) \in Nat \ {0} /\ TwoTo(n + 1) = 2 * TwoTo(n)
PROOF
<1>1. TwoTo(0) = 1
  BY TwoToIs, Pow2Facts
<1>2. ASSUME NEW n \in Nat
      PROVE  TwoTo(n) \in Nat \ {0} /\ TwoTo(n + 1) = 2 * TwoTo(n)
  <2>1. n \in 0..n /\ n + 1 \in 1..n + 1 /\ n + 1 - 1 = n /\ n + 1 \in Nat
    OBVIOUS
  <2>2. TwoTo(n) = Pow2(n)[n] /\ TwoTo(n + 1) = Pow2(n + 1)[n + 1]
    BY TwoToIs
  <2>3. Pow2(n)[n] \in Nat \ {0}
    BY <2>1, Pow2Facts
  <2>4. Pow2(n + 1)[n + 1] = 2 * Pow2(n + 1)[n]
    BY <2>1, Pow2Facts
  <2> QED
    BY <2>2, <2>3, <2>4, Pow2Agree
<1> QED
  BY <1>1, <1>2

LEMMA TwoToPositive ==
  ASSUME NEW n \in Nat
  PROVE  TwoTo(n) \in Nat /\ TwoTo(n) > 0
BY TwoToFacts

(* 1, 2, 4 and 8.                                                          *)
LEMMA TwoToSmall == TwoTo(1) = 2 /\ TwoTo(2) = 4 /\ TwoTo(3) = 8
PROOF
<1>1. TwoTo(0 + 1) = 2 * TwoTo(0) /\ TwoTo(1 + 1) = 2 * TwoTo(1) /\ TwoTo(2 + 1) = 2 * TwoTo(2)
  BY TwoToFacts
<1> QED
  BY <1>1, TwoToFacts

LEMMA TwoToSum ==
  ASSUME NEW a \in Nat, NEW b \in Nat
  PROVE  TwoTo(a + b) = TwoTo(a) * TwoTo(b)
PROOF
<1> DEFINE T == {n \in Nat : TwoTo(a + n) = TwoTo(a) * TwoTo(n)}
<1>1. 0 \in T
  BY TwoToFacts
<1>2. ASSUME NEW n \in Nat, n \in T
      PROVE  n + 1 \in T
  <2>1. TwoTo(n + 1) = 2 * TwoTo(n) /\ TwoTo(a + n + 1) = 2 * TwoTo(a + n)
    BY TwoToFacts
  <2>2. TwoTo(a + n) = TwoTo(a) * TwoTo(n)
    BY <1>2
  <2>3. TwoTo(a) \in Nat /\ TwoTo(n) \in Nat /\ TwoTo(a + n) \in Nat
    BY TwoToPositive
  <2>4. TwoTo(a + (n + 1)) = TwoTo(a) * TwoTo(n + 1)
    <3>1. a + (n + 1) = a + n + 1
      OBVIOUS
    <3> QED
      BY <2>1, <2>2, <2>3, <3>1
  <2> QED
    BY <2>4
<1> HIDE DEF T
<1>3. b \in T
  BY <1>1, <1>2, SetInduction, Zenon
<1> QED
  BY <1>3 DEF T

LEMMA TwoToGrows ==
  ASSUME NEW a \in Nat, NEW b \in Nat, a <= b
  PROVE  TwoTo(a) <= TwoTo(b)
PROOF
<1>1. b - a \in Nat /\ a + (b - a) = b
  OBVIOUS
<1>2. TwoTo(b) = TwoTo(a) * TwoTo(b - a)
  BY <1>1, TwoToSum
<1>3. TwoTo(a) \in Nat /\ TwoTo(b - a) \in Nat /\ TwoTo(b - a) >= 1
  BY <1>1, TwoToPositive
<1> QED
  BY <1>2, <1>3

LEMMA TwoToLarge ==
  ASSUME NEW n \in Nat
  PROVE  n < TwoTo(n)
PROOF
<1> DEFINE T == {k \in Nat : k < TwoTo(k)}
<1>1. 0 \in T
  BY TwoToFacts
<1>2. ASSUME NEW k \in Nat, k \in T
      PROVE  k + 1 \in T
  BY <1>2, TwoToFacts
<1> HIDE DEF T
<1>3. n \in T
  BY <1>1, <1>2, SetInduction, Zenon
<1> QED
  BY <1>3 DEF T

LEMMA Log2Facts ==
  ASSUME NEW n \in Nat \ {0}
  PROVE  Log2(n) \in 0..n /\ TwoTo(Log2(n)) <= n /\ n < TwoTo(Log2(n) + 1)
PROOF
<1> DEFINE S == {l \in Nat : n < TwoTo(l + 1)}
           Is(l) == TwoTo(l) <= n /\ n < TwoTo(l + 1)
<1>1. n \in S
  BY TwoToLarge, TwoToFacts
<1>2. PICK x \in S : \A y \in S : x <= y
  <2>1. S \in SUBSET Nat /\ S # {}
    BY <1>1
  <2> HIDE DEF S
  <2> QED
    BY <2>1, LeastExists, Zenon
<1>3. TwoTo(x) <= n
  <2>1. CASE x = 0
    BY <2>1, TwoToFacts
  <2>2. CASE x # 0
    <3>1. x - 1 \in Nat /\ x - 1 + 1 = x /\ ~(x <= x - 1)
      BY <2>2
    <3>2. x - 1 \notin S
      BY <1>2, <3>1
    <3>3. ~(n < TwoTo(x - 1 + 1))
      BY <3>1, <3>2
    <3> QED
      BY <3>1, <3>3, TwoToPositive
  <2> QED
    BY <2>1, <2>2
<1>4. x \in 0..n /\ Is(x)
  BY <1>1, <1>2, <1>3
<1> HIDE DEF S, Is
<1>5. Log2(n) \in 0..n /\ Is(Log2(n))
  <2>1. Log2(n) = CHOOSE l \in 0..n : Is(l)
    BY DEF Log2, Is
  <2> QED
    BY <1>4, <2>1, Zenon
<1> QED
  BY <1>5 DEF Is

LEMMA LogSlotsFacts ==
  ASSUME NEW s \in Nat \ {0}
  PROVE  /\ LogSlots(s) \in Nat \ {0}
         /\ s > 1 => TwoTo(LogSlots(s)) <= s
         /\ s < 3 => LogSlots(s) = 1
PROOF
<1>1. CASE s < 3
  BY <1>1, TwoToSmall DEF LogSlots
<1>2. CASE ~(s < 3)
  <2>1. LogSlots(s) = Log2(s)
    BY <1>2 DEF LogSlots
  <2>2. Log2(s) # 0
    BY <1>2, Log2Facts, TwoToSmall
  <2> QED
    BY <1>2, <2>1, <2>2, Log2Facts
<1> QED
  BY <1>1, <1>2

-----------------------------------------------------------------------------
(* Rotations and the layers of a transform.                                *)
LEMMA TableIs ==
  ASSUME NEW f
  PROVE  Table(f) = f
BY DEF Table

(* A rotation is reduced to at most all slots, and to fewer unless it is a *)
(* negative multiple of them.                                              *)
LEMMA ReduceRange ==
  ASSUME NEW x \in Int, NEW n \in Nat \ {0}
  PROVE  /\ ReduceRotation(x, n) \in 0..n
         /\ x > -n => ReduceRotation(x, n) \in 0..n - 1
PROOF
<1>1. CASE x >= 0
  BY <1>1 DEF ReduceRotation
<1>2. CASE x < 0
  <2>1. PICK k \in Int, r \in 0..n - 1 : -x = n * k + r /\ k = (-x) \div n
    <3>1. -x \in Int
      OBVIOUS
    <3> QED
      BY <3>1, Division
  <2>2. ReduceRotation(x, n) = x + n + k * n
    BY <1>2, <2>1 DEF ReduceRotation
  <2>3. ReduceRotation(x, n) = n - r
    BY <2>1, <2>2
  <2>4. ASSUME x > -n PROVE r # 0
    <3>1. n * k + r < n /\ n * k + r > 0
      BY <1>2, <2>1, <2>4
    <3> QED
      BY <3>1
  <2> QED
    BY <2>1, <2>3, <2>4
<1> QED
  BY <1>1, <1>2

LEMMA CeilFacts ==
  ASSUME NEW a \in Nat, NEW b \in Nat \ {0}
  PROVE  /\ CeilDivide(a, b) \in Nat
         /\ CeilDivide(a, b) * b >= a
         /\ (CeilDivide(a, b) - 1) * b < a
PROOF
<1>1. PICK k \in Int, r \in 0..b - 1 : a + b - 1 = b * k + r /\ k = (a + b - 1) \div b
  BY Division
<1>2. k >= 0
  BY <1>1
<1>3. k * b = b * k /\ (k - 1) * b = b * k - b
  BY <1>1
<1> QED
  BY <1>1, <1>2, <1>3 DEF CeilDivide

(* The layers are all spread over the levels: rows full levels and, if     *)
(* there is a remainder, one more.                                         *)
Flag(rem) == IF rem = 0 THEN 0 ELSE 1
IsSplit(d, L, B) ==
  /\ d.layers \in Nat \ {0}
  /\ d.rem \in Nat
  /\ (B - Flag(d.rem)) * d.layers + d.rem = L

LEMMA LayersSpread ==
  ASSUME NEW L \in Nat, NEW B \in 1..L
  PROVE  IsSplit(SelectLayers(L, B), L, B)
PROOF
<1> DEFINE l == CeilDivide(L, B)
           Rem(rows, layers) == L - rows * layers
           Dim(rows, layers) == rows + IF Rem(rows, layers) # 0 THEN 1 ELSE 0
           Split(rows, layers) == [layers |-> layers, rows |-> rows, rem |-> Rem(rows, layers)]
           first == L \div (l - 1)
           fits == {r \in 0..first : Dim(r, l - 1) = B}
           chosen == CHOOSE r \in fits : \A s \in fits : s <= r
<1>1. SelectLayers(L, B) = IF Dim(L \div l, l) >= B THEN Split(L \div l, l)
                           ELSE IF Dim(first, l - 1) <= B THEN Split(first, l - 1)
                           ELSE Split(chosen, l - 1)
  BY DEF SelectLayers
<1>2. l \in Nat /\ l * B >= L /\ (l - 1) * B < L
  BY CeilFacts
<1>3. l # 0
  BY <1>2
<1> HIDE DEF l
<1>4. PICK q \in Int, r \in 0..l - 1 : L = l * q + r /\ q = L \div l
  BY <1>2, <1>3, Division
<1>5. q \in Nat
  BY <1>2, <1>3, <1>4
<1>6. Rem(q, l) = r
  BY <1>2, <1>4, <1>5
<1>7. CASE Dim(q, l) >= B
  <2>1. Dim(q, l) <= B
    <3>1. CASE r = 0
      <4>1. l * q <= l * B
        BY <1>2, <1>4, <3>1
      <4>2. q <= B
        BY <1>2, <1>3, <1>5, <4>1
      <4> QED
        BY <1>6, <3>1, <4>2
    <3>2. CASE r # 0
      <4>1. l * q < l * B
        BY <1>2, <1>4, <3>2
      <4>2. q < B
        BY <1>2, <1>3, <1>5, <4>1
      <4> QED
        BY <1>6, <3>2, <4>2, <1>5
    <3> QED
      BY <3>1, <3>2
  <2>2. Dim(q, l) = B
    BY <2>1, <1>5, <1>7
  <2>3. SelectLayers(L, B) = [layers |-> l, rows |-> q, rem |-> r]
    BY <1>1, <1>4, <1>6, <1>7
  <2>4. B - Flag(r) = q
    BY <1>5, <1>6, <2>2 DEF Flag
  <2>5. q * l + r = L
    BY <1>2, <1>4
  <2> QED
    BY <1>2, <1>3, <2>3, <2>4, <2>5 DEF IsSplit
<1>8. CASE ~(Dim(q, l) >= B)
  <2> DEFINE k == l - 1
  <2>1. l # 1
    <3>1. ASSUME l = 1 PROVE FALSE
      <4>1. r = 0 /\ q = L
        BY <1>4, <3>1
      <4> QED
        BY <1>6, <1>8, <4>1
    <3> QED
      BY <3>1
  <2>2. k \in Nat \ {0} /\ k * B < L
    BY <1>2, <1>3, <2>1
  <2> HIDE DEF k
  <2>3. PICK f \in Int, t \in 0..k - 1 : L = k * f + t /\ f = L \div k
    BY <2>2, Division
  <2>4. f \in Nat /\ Rem(f, k) = t
    BY <2>2, <2>3
  <2>5. B <= f
    <3>1. ASSUME f < B PROVE FALSE
      <4>1. f <= B - 1
        BY <2>4, <3>1
      <4>2. k * f <= k * (B - 1)
        BY <2>2, <2>4, <4>1
      <4>3. k * (B - 1) = k * B - k
        BY <2>2
      <4> QED
        BY <2>2, <2>3, <4>2, <4>3
    <3> QED
      BY <2>4, <3>1
  <2>6. ~(Dim(f, k) <= B)
    <3>1. CASE t = 0
      <4>1. k * f > k * B
        BY <2>2, <2>3, <3>1
      <4>2. f > B
        BY <2>2, <2>4, <4>1
      <4> QED
        BY <2>4, <3>1, <4>2
    <3>2. CASE t # 0
      BY <2>4, <2>5, <3>2
    <3> QED
      BY <3>1, <3>2
  <2>7. Rem(B - 1, k) = L - k * B + k /\ Rem(B - 1, k) > 0
    BY <2>2
  <2>8. fits = {B - 1}
    <3>1. fits = {x \in 0..f : Dim(x, k) = B}
      BY <2>3 DEF k
    <3>2. Dim(B - 1, k) = B /\ B - 1 \in 0..f
      BY <2>5, <2>7, <2>4
    <3>3. ASSUME NEW x \in 0..f, Dim(x, k) = B
          PROVE  x = B - 1
      <4>1. CASE Rem(x, k) # 0
        BY <3>3, <4>1
      <4>2. CASE Rem(x, k) = 0
        <5>1. x = B
          BY <3>3, <4>2
        <5> QED
          BY <2>2, <4>2, <5>1
      <4> QED
        BY <4>1, <4>2
    <3> HIDE DEF fits
    <3> QED
      BY <3>1, <3>2, <3>3
  <2>9. chosen = B - 1
    <3> HIDE DEF fits
    <3>1. \A s \in fits : s <= B - 1
      BY <2>8
    <3> QED
      BY <2>8, <3>1
  <2>10. SelectLayers(L, B) = [layers |-> k, rows |-> B - 1, rem |-> L - k * B + k]
    <3>1. SelectLayers(L, B) = Split(chosen, k)
      BY <1>1, <1>4, <1>8, <2>3, <2>6 DEF k
    <3>2. Split(chosen, k) = [layers |-> k, rows |-> B - 1, rem |-> Rem(B - 1, k)]
      BY <2>9
    <3> QED
      BY <2>7, <3>1, <3>2
  <2>11. (B - 1) * k + (L - k * B + k) = L
    BY <2>2
  <2> QED
    BY <2>2, <2>7, <2>10, <2>11 DEF IsSplit, Flag
<1> QED
  BY <1>7, <1>8

(* A giant step is no longer than the slots its layers reach.              *)
LEMMA GiantFacts ==
  ASSUME NEW l \in Nat \ {0}
  PROVE  GiantStep(l) \in Nat \ {0} /\ GiantStep(l) <= TwoTo(l)
PROOF
<1> DEFINE e == l \div 2 + 1 + IF TwoTo(l + 1) - 1 > 7 THEN 1 ELSE 0
<1>1. e \in Nat /\ e <= l
  <2>1. CASE TwoTo(l + 1) - 1 > 7
    <3>1. l >= 3
      <4>1. ASSUME l < 3 PROVE FALSE
        <5>1. l + 1 \in Nat /\ 3 \in Nat /\ l + 1 <= 3
          BY <4>1
        <5>2. TwoTo(l + 1) <= TwoTo(3)
          BY <5>1, TwoToGrows
        <5> QED
          BY <2>1, <5>1, <5>2, TwoToSmall, TwoToPositive
      <4> QED
        BY <4>1
    <3> QED
      BY <2>1, <3>1
  <2>2. CASE ~(TwoTo(l + 1) - 1 > 7)
    BY <2>2
  <2> QED
    BY <2>1, <2>2
<1>2. GiantStep(l) = TwoTo(e)
  BY DEF GiantStep
<1> HIDE DEF e
<1> QED
  BY <1>1, <1>2, TwoToGrows, TwoToPositive

(* What GetCollapsedFFTParams answers for s slots: as many levels as       *)
(* budgeted, which hold all layers, and a baby step within the rotations.  *)
Laid(p, s) ==
  /\ p.lvlb \in 1..LogSlots(s)
  /\ p.layersCollapse \in Nat \ {0} /\ p.remCollapse \in Nat
  /\ (p.lvlb - Flag(p.remCollapse)) * p.layersCollapse + p.remCollapse = LogSlots(s)
  /\ p.numRotations = TwoTo(p.layersCollapse + 1) - 1
  /\ p.numRotationsRem = TwoTo(p.remCollapse + 1) - 1
  /\ p.g \in 1..p.numRotations
  /\ p.b \in Nat /\ p.bRem \in Nat /\ p.gRem \in Nat

LEMMA ParamsLaid ==
  ASSUME NEW s \in Nat \ {0}, NEW B \in 1..LogSlots(s), NEW dim \in Nat
  PROVE  LET p == GetCollapsedFFTParams(s, B, dim)
         IN  /\ Laid(p, s) /\ p.lvlb = B
             /\ p = GetCollapsedFFTParams(s, B, p.g)
             /\ s <= M4 /\ dim <= M4 /\ B = 1 => p.g <= M4
PROOF
<1> DEFINE d == SelectLayers(LogSlots(s), B)
           num == TwoTo(d.layers + 1) - 1
           numRem == TwoTo(d.rem + 1) - 1
           Step(x) == IF x = 0 \/ x > num THEN GiantStep(d.layers) ELSE x
           stepRem == IF d.rem # 0 THEN GiantStep(d.rem) ELSE 0
           bRem == IF d.rem # 0 THEN (numRem + 1) \div stepRem ELSE 0
           Params(x) == [lvlb |-> B, layersCollapse |-> d.layers, remCollapse |-> d.rem,
                         numRotations |-> num, b |-> (num + 1) \div Step(x), g |-> Step(x),
                         numRotationsRem |-> numRem, bRem |-> bRem, gRem |-> stepRem]
<1>1. ASSUME NEW x PROVE GetCollapsedFFTParams(s, B, x) = Params(x)
  BY DEF GetCollapsedFFTParams
<1>2. LogSlots(s) \in Nat /\ IsSplit(d, LogSlots(s), B)
  BY LogSlotsFacts, LayersSpread
<1>3. /\ d.layers \in Nat \ {0} /\ d.rem \in Nat
      /\ (B - Flag(d.rem)) * d.layers + d.rem = LogSlots(s)
  BY <1>2 DEF IsSplit
<1> HIDE DEF d
<1>4. /\ num \in Nat /\ numRem \in Nat
      /\ GiantStep(d.layers) \in 1..num
      /\ TwoTo(d.layers) \in Nat /\ GiantStep(d.layers) <= TwoTo(d.layers)
  <2>1. TwoTo(d.layers) \in Nat /\ TwoTo(d.layers) > 0 /\ TwoTo(d.layers + 1) = 2 * TwoTo(d.layers)
    BY <1>3, TwoToFacts
  <2>2. TwoTo(d.rem + 1) \in Nat /\ TwoTo(d.rem + 1) > 0
    <3>1. d.rem + 1 \in Nat
      BY <1>3
    <3> QED
      BY <3>1, TwoToPositive
  <2>3. GiantStep(d.layers) \in Nat \ {0} /\ GiantStep(d.layers) <= TwoTo(d.layers)
    BY <1>3, GiantFacts
  <2> QED
    BY <2>1, <2>2, <2>3
<1>5. stepRem \in Nat /\ bRem \in Nat
  <2>1. CASE d.rem = 0
    BY <2>1
  <2>2. CASE d.rem # 0
    <3>1. GiantStep(d.rem) \in Nat \ {0}
      BY <1>3, <2>2, GiantFacts
    <3> HIDE DEF numRem
    <3> QED
      BY <1>4, <2>2, <3>1
  <2> QED
    BY <2>1, <2>2
<1> HIDE DEF num, numRem, stepRem, bRem
<1>6. \A x \in Nat : /\ Step(x) \in 1..num
                     /\ Step(Step(x)) = Step(x)
                     /\ (num + 1) \div Step(x) \in Nat
  BY <1>4
<1>7. Laid(Params(dim), s)
  BY <1>3, <1>4, <1>5, <1>6 DEF Laid, num, numRem
<1>8. Params(dim) = Params(Params(dim).g)
  <2>1. Params(dim).g = Step(dim)
    OBVIOUS
  <2>2. Step(Step(dim)) = Step(dim)
    BY <1>6
  <2> HIDE DEF Step
  <2> QED
    BY <2>1, <2>2
<1>9. s <= M4 /\ dim <= M4 /\ B = 1 => Step(dim) <= M4
  <2>1. SUFFICES ASSUME s <= M4, B = 1 PROVE GiantStep(d.layers) <= M4
    BY <1>4
  <2>2. d.layers <= LogSlots(s)
    <3>1. CASE d.rem = 0
      BY <1>2, <1>3, <2>1, <3>1 DEF Flag
    <3>2. CASE d.rem # 0
      \* one level holds all layers
      <4>1. SelectLayers(LogSlots(s), 1).layers = LogSlots(s)
        <5> DEFINE L == LogSlots(s)
        <5>1. L \in Nat \ {0}
          BY LogSlotsFacts
        <5> HIDE DEF L
        <5>2. CeilDivide(L, 1) = L
          BY <5>1 DEF CeilDivide
        <5>3. L \div L = 1 /\ L - 1 * L = 0
          BY <5>1
        <5>4. SelectLayers(L, 1).layers = L
          BY <5>1, <5>2, <5>3 DEF SelectLayers
        <5> QED
          BY <5>4 DEF L
      <4> QED
        BY <1>2, <2>1, <4>1 DEF d
    <3> QED
      BY <3>1, <3>2
  <2>3. TwoTo(d.layers) <= TwoTo(LogSlots(s))
    BY <1>2, <1>3, <2>2, TwoToGrows
  <2>4. TwoTo(LogSlots(s)) \in Nat /\ TwoTo(LogSlots(s)) <= M4
    <3>1. TwoTo(LogSlots(s)) \in Nat
      BY <1>2, TwoToPositive
    <3>2. CASE s > 1
      BY <2>1, <3>1, <3>2, LogSlotsFacts, M4Assumption
    <3>3. CASE ~(s > 1)
      BY <3>1, <3>3, LogSlotsFacts, M4Assumption, TwoToSmall
    <3> QED
      BY <3>2, <3>3
  <2> QED
    BY <1>4, <2>3, <2>4, M4Assumption
<1> HIDE DEF Step
<1> QED
  BY <1>1, <1>7, <1>8, <1>9

-----------------------------------------------------------------------------
(* The keys that are generated cover the rotations of the transforms.      *)
InRange == 0..M4 - 1

\* What BabyStepGiantStep asks for at a level.
LevelRotations(level, n) ==
  {RotIn(level, j, n) : j \in 0..(level.g - 1)} \cup {RotOut(level, i) : i \in 1..(level.b - 1)}
LevelIndices(level, n) == Indices(level.scale, level.num, level.b, level.g, n)

\* A level whose layers do not reach past n slots.
IsLevel(level, n) ==
  /\ level.scale \in Nat \ {0} /\ level.g \in Nat /\ level.b \in Nat
  /\ \E h \in Nat \ {0} : level.num = 2 * h - 1 /\ level.scale * h <= n

LEMMA LevelCovered ==
  ASSUME NEW n \in 1..M4, NEW level, IsLevel(level, n)
  PROVE  LevelRotations(level, n) \subseteq LevelIndices(level, n) \cap InRange
PROOF
<1> DEFINE num == level.num
           scale == level.scale
           g == level.g
           b == level.b
           half == 1 - (num + 1) \div 2
<1>1. PICK h \in Nat \ {0} : num = 2 * h - 1 /\ scale * h <= n
  BY DEF IsLevel
<1>2. scale \in Nat \ {0} /\ g \in Nat /\ b \in Nat /\ n \in Nat \ {0} /\ M4 \in Nat \ {0}
  BY M4Assumption DEF IsLevel
<1>3. (num + 1) \div 2 = h /\ half = 1 - h
  BY <1>1
<1>4. LevelIndices(level, n) = {ReduceRotation(j * scale, n) : j \in half..(half + g - 1)}
                               \cup {ReduceRotation(i * g * scale, M4) : i \in 0..(b - 1)}
  BY DEF LevelIndices, Indices
<1>5. ASSUME NEW j \in 0..(g - 1)
      PROVE  RotIn(level, j, n) \in LevelIndices(level, n) \cap InRange
  <2> DEFINE k == j + half
  <2>1. RotIn(level, j, n) = ReduceRotation(scale * (j - (h - 1)), n)
    BY <1>3 DEF RotIn
  <2>2. k \in half..(half + g - 1) /\ k = j - (h - 1) /\ k \in Int /\ k >= 1 - h
    BY <1>1, <1>2, <1>3
  <2> HIDE DEF k, half, num, scale, g
  <2>3. scale * k = k * scale /\ scale * k \in Int
    BY <1>2, <2>2
  <2>4. scale * k > -n
    <3>1. scale * k >= scale * (1 - h)
      BY <1>1, <1>2, <2>2
    <3>2. scale * (1 - h) = scale - scale * h
      BY <1>1, <1>2
    <3>3. scale * h \in Int /\ scale * (1 - h) \in Int
      BY <1>1, <1>2
    <3> QED
      BY <1>1, <1>2, <2>3, <3>1, <3>2, <3>3
  <2>5. RotIn(level, j, n) = ReduceRotation(k * scale, n)
    BY <2>1, <2>2, <2>3
  <2>6. ReduceRotation(scale * k, n) \in 0..n - 1
    BY <1>2, <2>3, <2>4, ReduceRange
  <2>7. RotIn(level, j, n) \in LevelIndices(level, n)
    BY <1>4, <2>2, <2>5
  <2>8. RotIn(level, j, n) \in InRange
    BY <1>2, <2>3, <2>5, <2>6 DEF InRange
  <2> QED
    BY <2>7, <2>8
<1>6. ASSUME NEW i \in 1..(b - 1)
      PROVE  RotOut(level, i) \in LevelIndices(level, n) \cap InRange
  <2>1. RotOut(level, i) = ReduceRotation(scale * g * i, M4)
    BY DEF RotOut
  <2>2. scale * g * i = i * g * scale /\ i * g * scale \in Nat /\ i \in 0..(b - 1)
    <3>1. i \in Nat /\ i \in 0..(b - 1)
      BY <1>2
    <3>2. scale * g \in Nat /\ scale * g = g * scale /\ i * g \in Nat
      BY <1>2, <3>1
    <3> HIDE DEF scale, g
    <3> QED
      BY <1>2, <3>1, <3>2
  <2> DEFINE x == i * g * scale
  <2>3. x \in Nat
    BY <2>2
  <2> HIDE DEF scale, g, b, x
  <2>4. x \in Int /\ x > -M4
    BY <1>2, <2>3
  <2>5. ReduceRotation(x, M4) \in 0..M4 - 1
    BY <1>2, <2>4, ReduceRange
  <2> QED
    BY <1>4, <2>1, <2>2, <2>5 DEF InRange, x
<1> QED
  BY <1>5, <1>6 DEF LevelRotations

\* The rotations of all levels, one after the other.
LEMMA RotationsAre ==
  ASSUME NEW levels, NEW n
  PROVE  RotationsOf(levels, n) = UNION {LevelRotations(levels[s], n) : s \in DOMAIN levels}
BY DEF RotationsOf, LevelRotations

(* The levels of the two transforms.                                       *)
LEMMA LevelsAre ==
  ASSUME NEW s \in Nat \ {0}, NEW p, Laid(p, s)
  PROVE  /\ DOMAIN EncodingLevels(p) = 1..p.lvlb
         /\ DOMAIN DecodingLevels(p) = 1..p.lvlb
         /\ \A n \in 1..p.lvlb - FlagRem(p) :
              /\ EncodingLevels(p)[n].scale = EncodingScale(p, p.lvlb - n)
              /\ DecodingLevels(p)[n].scale = DecodingScale(p, n - 1)
              /\ \A level \in {EncodingLevels(p)[n], DecodingLevels(p)[n]} :
                   level.num = p.numRotations /\ level.b = p.b /\ level.g = p.g
         /\ FlagRem(p) = 1 =>
              /\ EncodingLevels(p)[p.lvlb].scale = 1
              /\ DecodingLevels(p)[p.lvlb].scale = DecodingScale(p, p.lvlb - 1)
              /\ \A level \in {EncodingLevels(p)[p.lvlb], DecodingLevels(p)[p.lvlb]} :
                   level.num = p.numRotationsRem /\ level.b = p.bRem /\ level.g = p.gRem
PROOF
<1> DEFINE m == p.lvlb - FlagRem(p)
           Enc(n) == Level(p.layersCollapse,
                           p.layersCollapse * (p.lvlb - n + 1 - FlagRem(p)) + p.remCollapse - 1,
                           EncodingScale(p, p.lvlb - n), p.numRotations, p.b, p.g)
           Dec(n) == Level(p.layersCollapse, (n - 1) * p.layersCollapse, DecodingScale(p, n - 1),
                           p.numRotations, p.b, p.g)
           RestEnc == Level(p.remCollapse, p.remCollapse - 1, 1, p.numRotationsRem, p.bRem, p.gRem)
           RestDec == Level(p.remCollapse, m * p.layersCollapse, DecodingScale(p, m),
                            p.numRotationsRem, p.bRem, p.gRem)
           WholeEnc == [n \in 1..m |-> Enc(n)]
           WholeDec == [n \in 1..m |-> Dec(n)]
<1>1. FlagRem(p) \in {0, 1} /\ m \in Nat /\ p.lvlb \in Nat
  BY LogSlotsFacts DEF Laid, FlagRem
<1>2. EncodingLevels(p) = IF FlagRem(p) = 1 THEN Append(WholeEnc, RestEnc) ELSE WholeEnc
  BY DEF EncodingLevels
<1>3. DecodingLevels(p) = IF FlagRem(p) = 1 THEN Append(WholeDec, RestDec) ELSE WholeDec
  BY DEF DecodingLevels
<1>4. /\ WholeEnc \in Seq({Enc(n) : n \in 1..m}) /\ Len(WholeEnc) = m
      /\ WholeDec \in Seq({Dec(n) : n \in 1..m}) /\ Len(WholeDec) = m
  <2> HIDE DEF Enc, Dec
  <2> QED
    BY <1>1
<1>5. /\ \A n \in 1..m : WholeEnc[n] = Enc(n) /\ WholeDec[n] = Dec(n)
      /\ DOMAIN WholeEnc = 1..m /\ DOMAIN WholeDec = 1..m
  OBVIOUS
<1>6. ASSUME NEW level, NEW base, NEW scale, NEW num, NEW b, NEW g
      PROVE  /\ Level(level, base, scale, num, b, g).scale = scale
             /\ Level(level, base, scale, num, b, g).num = num
             /\ Level(level, base, scale, num, b, g).b = b
             /\ Level(level, base, scale, num, b, g).g = g
  BY DEF Level
<1>7. CASE FlagRem(p) = 0
  <2>1. EncodingLevels(p) = WholeEnc /\ DecodingLevels(p) = WholeDec /\ m = p.lvlb
    BY <1>1, <1>2, <1>3, <1>7
  <2> HIDE DEF WholeEnc, WholeDec
  <2> QED
    BY <1>5, <1>6, <1>7, <2>1
<1>8. CASE FlagRem(p) = 1
  <2>1. m + 1 = p.lvlb /\ m = p.lvlb - 1
    BY <1>1, <1>8
  <2> DEFINE Appended(w, rest) == /\ DOMAIN Append(w, rest) = 1..p.lvlb
                                  /\ \A n \in 1..m : Append(w, rest)[n] = w[n]
                                  /\ Append(w, rest)[p.lvlb] = rest
  <2>2. ASSUME NEW w, NEW S, w \in Seq(S), Len(w) = m, NEW rest
        PROVE  Appended(w, rest)
    <3> HIDE DEF m
    <3> QED
      BY <1>1, <2>1, <2>2
  <2> HIDE DEF WholeEnc, WholeDec
  <2>3. /\ DOMAIN EncodingLevels(p) = 1..p.lvlb
        /\ \A n \in 1..m : EncodingLevels(p)[n] = Enc(n)
        /\ EncodingLevels(p)[p.lvlb] = RestEnc
    <3> DEFINE S == {Enc(n) : n \in 1..m}
    <3>1. WholeEnc \in Seq(S) /\ Len(WholeEnc) = m /\ \A n \in 1..m : WholeEnc[n] = Enc(n)
      BY <1>4, <1>5
    <3>2. EncodingLevels(p) = Append(WholeEnc, RestEnc)
      BY <1>2, <1>8
    <3> HIDE DEF S, RestEnc, Enc, m
    <3>3. Appended(WholeEnc, RestEnc)
      <4> HIDE DEF Appended
      <4> QED
        BY <2>2, <3>1, Zenon
    <3> QED
      BY <3>1, <3>2, <3>3
  <2>4. /\ DOMAIN DecodingLevels(p) = 1..p.lvlb
        /\ \A n \in 1..m : DecodingLevels(p)[n] = Dec(n)
        /\ DecodingLevels(p)[p.lvlb] = RestDec
    <3> DEFINE S == {Dec(n) : n \in 1..m}
    <3>1. WholeDec \in Seq(S) /\ Len(WholeDec) = m /\ \A n \in 1..m : WholeDec[n] = Dec(n)
      BY <1>4, <1>5
    <3>2. DecodingLevels(p) = Append(WholeDec, RestDec)
      BY <1>3, <1>8
    <3> HIDE DEF S, RestDec, Dec, m
    <3>3. Appended(WholeDec, RestDec)
      <4> HIDE DEF Appended
      <4> QED
        BY <2>2, <3>1, Zenon
    <3> QED
      BY <3>1, <3>2, <3>3
  <2> QED
    BY <1>6, <2>1, <2>3, <2>4
<1> QED
  BY <1>1, <1>7, <1>8

(* The layers a level skips and those it collapses stay within the slots.  *)
LEMMA LevelFits ==
  ASSUME NEW s \in Nat \ {0, 1}, NEW n \in Nat, s <= n, NEW e \in Nat, NEW l \in Nat,
         e + l <= LogSlots(s), NEW level, level.scale = TwoTo(e), level.num = TwoTo(l + 1) - 1,
         level.b \in Nat, level.g \in Nat
  PROVE  IsLevel(level, n)
PROOF
<1>1. LogSlots(s) \in Nat /\ TwoTo(LogSlots(s)) <= s
  BY LogSlotsFacts
<1>2. TwoTo(e + l) = TwoTo(e) * TwoTo(l) /\ TwoTo(l + 1) = 2 * TwoTo(l)
  BY TwoToSum, TwoToFacts
<1>3. TwoTo(e + l) <= TwoTo(LogSlots(s))
  <2>1. e + l \in Nat
    OBVIOUS
  <2> QED
    BY <1>1, <2>1, TwoToGrows
<1>4. TwoTo(e) \in Nat \ {0} /\ TwoTo(l) \in Nat \ {0} /\ TwoTo(LogSlots(s)) \in Nat
  BY <1>1, TwoToFacts
<1>5. level.num = 2 * TwoTo(l) - 1 /\ level.scale * TwoTo(l) <= n
  BY <1>1, <1>2, <1>3, <1>4
<1> QED
  BY <1>4, <1>5 DEF IsLevel

(* The levels of a transform reach no further than its slots.              *)
LEMMA LevelsFit ==
  ASSUME NEW s \in Nat \ {0, 1}, NEW p, Laid(p, s)
  PROVE  \A n \in 1..p.lvlb : /\ IsLevel(EncodingLevels(p)[n], s)
                              /\ \A m \in Nat : s <= m => IsLevel(DecodingLevels(p)[n], m)
PROOF
<1> DEFINE B == p.lvlb
           F == FlagRem(p)
           L == LogSlots(s)
           lc == p.layersCollapse
           rem == p.remCollapse
<1>1. L \in Nat /\ B \in 1..L /\ F \in {0, 1} /\ lc \in Nat \ {0} /\ rem \in Nat
  BY LogSlotsFacts DEF Laid, FlagRem
<1>2. (B - F) * lc + rem = L /\ (F = 0 => rem = 0)
  BY DEF Laid, FlagRem, Flag
<1>3. /\ p.numRotations = TwoTo(lc + 1) - 1 /\ p.numRotationsRem = TwoTo(rem + 1) - 1
      /\ p.b \in Nat /\ p.g \in Nat /\ p.bRem \in Nat /\ p.gRem \in Nat
  <2>1. p.numRotations \in Int /\ p.g \in 1..p.numRotations
    <3>1. lc + 1 \in Nat
      BY <1>1
    <3> QED
      BY <3>1, TwoToPositive DEF Laid
  <2>2. p.g \in Nat
    BY <2>1
  <2> QED
    BY <2>2 DEF Laid
<1>4. ASSUME NEW n \in 1..B - F
      PROVE  /\ IsLevel(EncodingLevels(p)[n], s)
             /\ \A m \in Nat : s <= m => IsLevel(DecodingLevels(p)[n], m)
  <2> DEFINE c == B - n - F
             e == c * lc + rem
             d == (n - 1) * lc
             enc == EncodingLevels(p)[n]
             dec == DecodingLevels(p)[n]
  <2>1. /\ enc.scale = EncodingScale(p, B - n) /\ dec.scale = DecodingScale(p, n - 1)
        /\ \A level \in {enc, dec} :
             level.num = p.numRotations /\ level.b = p.b /\ level.g = p.g
    BY LevelsAre
  <2>2. enc.scale = TwoTo(e) /\ dec.scale = TwoTo(d)
    BY <2>1 DEF EncodingScale, DecodingScale
  <2>3. c \in Nat /\ n - 1 \in Nat /\ c + 1 <= B - F /\ n \in Nat /\ B - F \in Nat
    BY <1>1
  <2>4. e \in Nat /\ e + lc <= L
    <3> HIDE DEF c, B, F, L, lc, rem
    <3>1. c * lc \in Nat /\ (c + 1) * lc = c * lc + lc
      BY <1>1, <2>3
    <3>2. (c + 1) * lc <= (B - F) * lc /\ (c + 1) * lc \in Nat /\ (B - F) * lc \in Nat
      BY <1>1, <2>3
    <3> QED
      BY <1>1, <1>2, <3>1, <3>2
  <2>5. d \in Nat /\ d + lc <= L
    <3> HIDE DEF B, F, L, lc, rem
    <3>1. (n - 1) * lc \in Nat /\ (n - 1) * lc + lc = n * lc
      BY <1>1, <2>3
    <3>2. n * lc <= (B - F) * lc /\ n * lc \in Nat /\ (B - F) * lc \in Nat
      BY <1>1, <2>3
    <3> QED
      BY <1>1, <1>2, <3>1, <3>2
  <2>6. s <= s /\ s \in Nat /\ lc \in Nat
    BY <1>1
  <2> HIDE DEF c, e, d, enc, dec, B, F
  <2>7. IsLevel(enc, s)
    BY <1>3, <2>1, <2>2, <2>4, <2>6, LevelFits
  <2>8. ASSUME NEW m \in Nat, s <= m PROVE IsLevel(dec, m)
    BY <1>3, <2>1, <2>2, <2>5, <2>6, <2>8, LevelFits
  <2> QED
    BY <2>7, <2>8 DEF enc, dec
<1>5. ASSUME F = 1
      PROVE  /\ IsLevel(EncodingLevels(p)[B], s)
             /\ \A m \in Nat : s <= m => IsLevel(DecodingLevels(p)[B], m)
  <2> DEFINE e == 0
             d == (B - 1) * lc
             enc == EncodingLevels(p)[B]
             dec == DecodingLevels(p)[B]
  <2>1. /\ enc.scale = 1 /\ dec.scale = DecodingScale(p, B - 1)
        /\ \A level \in {enc, dec} :
             level.num = p.numRotationsRem /\ level.b = p.bRem /\ level.g = p.gRem
    BY <1>5, LevelsAre
  <2>2. enc.scale = TwoTo(e) /\ dec.scale = TwoTo(d)
    BY <2>1, TwoToFacts DEF DecodingScale
  <2>3. d \in Nat /\ d + rem = L /\ e \in Nat /\ e + rem <= L /\ s <= s /\ s \in Nat
    <3>1. B - 1 \in Nat
      BY <1>1
    <3> HIDE DEF B, L, lc, rem
    <3>2. d \in Nat
      BY <1>1, <3>1
    <3> QED
      BY <1>1, <1>2, <1>5, <3>2
  <2>4. d + rem <= L
    BY <1>1, <2>3
  <2> HIDE DEF e, d, enc, dec, B, F
  <2>5. IsLevel(enc, s)
    BY <1>1, <1>3, <2>1, <2>2, <2>3, LevelFits
  <2>6. ASSUME NEW m \in Nat, s <= m PROVE IsLevel(dec, m)
    BY <1>1, <1>3, <2>1, <2>2, <2>3, <2>4, <2>6, LevelFits
  <2> QED
    BY <2>5, <2>6 DEF enc, dec
<1>6. ASSUME NEW n \in 1..p.lvlb
      PROVE  /\ IsLevel(EncodingLevels(p)[n], s)
             /\ \A m \in Nat : s <= m => IsLevel(DecodingLevels(p)[n], m)
  <2>1. n \in 1..B - F \/ (F = 1 /\ n = B)
    BY <1>1
  <2> QED
    BY <1>4, <1>5, <2>1
<1> QED
  BY <1>6

(* Keys for the rotations of both transforms are asked for.                *)
LEMMA EncodingCovered ==
  ASSUME NEW s \in 2..M4, NEW p, Laid(p, s)
  PROVE  RotationsOf(EncodingLevels(p), s) \subseteq FindCoeffsToSlotsRotationIndices(s, p) \cap InRange
PROOF
<1> DEFINE F == FlagRem(p)
           Whole == UNION {Indices(EncodingScale(p, t), p.numRotations, p.b, p.g, s) : t \in F..(p.lvlb - 1)}
           Rest == Indices(1, p.numRotationsRem, p.bRem, p.gRem, s)
<1>1. s \in Nat \ {0, 1} /\ s \in Nat \ {0} /\ s \in 1..M4
  BY M4Assumption
<1>2. Whole \subseteq FindCoeffsToSlotsRotationIndices(s, p)
  BY DEF FindCoeffsToSlotsRotationIndices
<1>3. F = 1 => Rest \subseteq FindCoeffsToSlotsRotationIndices(s, p)
  <2>1. FindCoeffsToSlotsRotationIndices(s, p) = PartialSums(s) \cup Whole \cup (IF F = 1 THEN Rest ELSE {})
    BY DEF FindCoeffsToSlotsRotationIndices
  <2> HIDE DEF Whole, Rest, F
  <2> QED
    BY <2>1
<1>4. F \in {0, 1} /\ p.lvlb \in Nat
  BY <1>1, LogSlotsFacts DEF Laid, FlagRem
<1>5. ASSUME NEW n \in 1..p.lvlb
      PROVE  LevelIndices(EncodingLevels(p)[n], s) \subseteq FindCoeffsToSlotsRotationIndices(s, p)
  <2> DEFINE level == EncodingLevels(p)[n]
  <2>1. CASE n \in 1..p.lvlb - F
    <3>1. /\ level.scale = EncodingScale(p, p.lvlb - n)
          /\ level.num = p.numRotations /\ level.b = p.b /\ level.g = p.g
      BY <1>1, <2>1, LevelsAre
    <3>2. p.lvlb - n \in F..p.lvlb - 1
      BY <1>4, <2>1
    <3>3. LevelIndices(level, s) = Indices(EncodingScale(p, p.lvlb - n), p.numRotations, p.b, p.g, s)
      BY <3>1 DEF LevelIndices
    <3>4. LevelIndices(level, s) \subseteq Whole
      <4> HIDE DEF level, F
      <4> QED
        BY <3>2, <3>3
    <3> QED
      BY <1>2, <3>4
  <2>2. CASE F = 1 /\ n = p.lvlb
    <3>1. /\ level.scale = 1
          /\ level.num = p.numRotationsRem /\ level.b = p.bRem /\ level.g = p.gRem
      BY <1>1, <2>2, LevelsAre
    <3>2. LevelIndices(level, s) = Rest
      BY <3>1 DEF LevelIndices
    <3> QED
      BY <1>3, <2>2, <3>2
  <2> QED
    BY <1>4, <2>1, <2>2
<1>6. ASSUME NEW n \in 1..p.lvlb
      PROVE  LevelRotations(EncodingLevels(p)[n], s) \subseteq FindCoeffsToSlotsRotationIndices(s, p) \cap InRange
  <2>1. IsLevel(EncodingLevels(p)[n], s)
    BY <1>1, LevelsFit
  <2>2. LevelRotations(EncodingLevels(p)[n], s) \subseteq LevelIndices(EncodingLevels(p)[n], s) \cap InRange
    BY <1>1, <2>1, LevelCovered
  <2> QED
    BY <1>5, <2>2
<1>7. DOMAIN EncodingLevels(p) = 1..p.lvlb
  BY <1>1, LevelsAre
<1> QED
  BY <1>6, <1>7, RotationsAre

LEMMA DecodingCovered ==
  ASSUME NEW s \in 2..M4, NEW p, Laid(p, s)
  PROVE  RotationsOf(DecodingLevels(p), M4) \subseteq FindSlotsToCoeffsRotationIndices(s, p) \cap InRange
PROOF
<1> DEFINE F == FlagRem(p)
           smax == p.lvlb - F
           Whole == UNION {Indices(DecodingScale(p, t), p.numRotations, p.b, p.g, M4) : t \in 0..(smax - 1)}
           Rest == Indices(DecodingScale(p, smax), p.numRotationsRem, p.bRem, p.gRem, M4)
<1>1. s \in Nat \ {0, 1} /\ s \in Nat \ {0} /\ M4 \in 1..M4 /\ s <= M4 /\ M4 \in Nat
  BY M4Assumption
<1>2. Whole \subseteq FindSlotsToCoeffsRotationIndices(s, p)
  BY DEF FindSlotsToCoeffsRotationIndices
<1>3. F = 1 => Rest \subseteq FindSlotsToCoeffsRotationIndices(s, p)
  <2>1. FindSlotsToCoeffsRotationIndices(s, p) = PartialSums(s) \cup Whole \cup (IF F = 1 THEN Rest ELSE {})
    BY DEF FindSlotsToCoeffsRotationIndices
  <2> HIDE DEF Whole, Rest, F
  <2> QED
    BY <2>1
<1>4. F \in {0, 1} /\ p.lvlb \in Nat
  BY <1>1, LogSlotsFacts DEF Laid, FlagRem
<1>5. ASSUME NEW n \in 1..p.lvlb
      PROVE  LevelIndices(DecodingLevels(p)[n], M4) \subseteq FindSlotsToCoeffsRotationIndices(s, p)
  <2> DEFINE level == DecodingLevels(p)[n]
  <2>1. CASE n \in 1..p.lvlb - F
    <3>1. /\ level.scale = DecodingScale(p, n - 1)
          /\ level.num = p.numRotations /\ level.b = p.b /\ level.g = p.g
      BY <1>1, <2>1, LevelsAre
    <3>2. n - 1 \in 0..smax - 1
      BY <1>4, <2>1
    <3>3. LevelIndices(level, M4) = Indices(DecodingScale(p, n - 1), p.numRotations, p.b, p.g, M4)
      BY <3>1 DEF LevelIndices
    <3>4. LevelIndices(level, M4) \subseteq Whole
      <4> HIDE DEF level, smax
      <4> QED
        BY <3>2, <3>3
    <3> QED
      BY <1>2, <3>4
  <2>2. CASE F = 1 /\ n = p.lvlb
    <3>1. /\ level.scale = DecodingScale(p, smax)
          /\ level.num = p.numRotationsRem /\ level.b = p.bRem /\ level.g = p.gRem
      BY <1>1, <2>2, LevelsAre
    <3>2. LevelIndices(level, M4) = Rest
      BY <3>1 DEF LevelIndices
    <3> QED
      BY <1>3, <2>2, <3>2
  <2> QED
    BY <1>4, <2>1, <2>2
<1>6. ASSUME NEW n \in 1..p.lvlb
      PROVE  LevelRotations(DecodingLevels(p)[n], M4) \subseteq FindSlotsToCoeffsRotationIndices(s, p) \cap InRange
  <2>1. IsLevel(DecodingLevels(p)[n], M4)
    BY <1>1, LevelsFit
  <2>2. LevelRotations(DecodingLevels(p)[n], M4) \subseteq LevelIndices(DecodingLevels(p)[n], M4) \cap InRange
    BY <1>1, <2>1, LevelCovered
  <2> QED
    BY <1>5, <2>2
<1>7. DOMAIN DecodingLevels(p) = 1..p.lvlb
  BY <1>1, LevelsAre
<1> QED
  BY <1>6, <1>7, RotationsAre

(* The rotations that add up the copies of a sparse packing.               *)
LEMMA PartialSumsIn ==
  ASSUME NEW s \in 1..M4
  PROVE  PartialSums(s) \subseteq 1..M4 - 1
PROOF
<1>1. M4 \in Nat \ {0} /\ s \in Nat \ {0}
  BY M4Assumption
<1>2. PICK q \in Int, r \in 0..s - 1 : M4 = s * q + r /\ q = M4 \div s
  BY <1>1, Division
<1>3. ASSUME NEW x \in 0..Log2(M4), TwoTo(x) < q
      PROVE  TwoTo(x) * s \in 1..M4 - 1
  <2>1. x \in Nat
    BY <1>1, Log2Facts
  <2> DEFINE t == TwoTo(x)
  <2>2. t \in Nat \ {0} /\ t < q
    BY <1>3, <2>1, TwoToFacts
  <2> HIDE DEF t
  <2>3. t * s >= 1 /\ t * s < q * s /\ t * s \in Int /\ q * s = s * q
    BY <1>1, <1>2, <2>2
  <2>4. t * s \in 1..M4 - 1
    BY <1>1, <1>2, <2>3
  <2> QED
    BY <2>4 DEF t
<1> QED
  BY <1>2, <1>3 DEF PartialSums

(* The transform of a single level.                                        *)
LEMMA LinearCovered ==
  ASSUME NEW s \in 1..M4, NEW enc, enc.g \in 1..M4
  PROVE  /\ LinearRotations(s, enc.g) \subseteq FindLinearTransformRotationIndices(s, enc) \cap InRange
         /\ FindLinearTransformRotationIndices(s, enc) \subseteq 0..M4
PROOF
<1> DEFINE g == enc.g
           c == CeilDivide(s, g)
<1>1. M4 \in Nat \ {0} /\ s \in Nat /\ s <= M4 /\ g \in Nat \ {0} /\ g <= M4
  BY M4Assumption
<1>2. c \in Nat /\ (c - 1) * g < s
  BY <1>1, CeilFacts
<1>3. FindLinearTransformRotationIndices(s, enc) = 1..g \cup {i * g : i \in 2..(c - 1)} \cup PartialSums(s)
  BY DEF FindLinearTransformRotationIndices
<1>4. LinearRotations(s, enc.g) = 1..(g - 1) \cup {g * j : j \in 1..(c - 1)}
  BY DEF LinearRotations
<1>5. PartialSums(s) \subseteq 0..M4
  BY <1>1, PartialSumsIn
<1> HIDE DEF g, c
<1>6. ASSUME NEW j \in 1..c - 1
      PROVE  g * j \in 0..M4 - 1 /\ g * j = j * g
  <2>1. j \in Nat /\ j <= c - 1 /\ c - 1 \in Nat
    BY <1>2
  <2>2. g * j <= g * (c - 1) /\ g * (c - 1) = (c - 1) * g /\ g * j \in Nat /\ g * j = j * g
    BY <1>1, <2>1
  <2> QED
    BY <1>1, <1>2, <2>2
<1>7. \A j \in 1..c - 1 : g * j \in FindLinearTransformRotationIndices(s, enc)
  <2>1. TAKE j \in 1..c - 1
  <2>2. CASE j = 1
    <3>1. g * 1 \in 1..g
      BY <1>1
    <3> QED
      BY <1>3, <2>2, <3>1
  <2>3. CASE j # 1
    <3>1. j \in 2..(c - 1)
      BY <2>3
    <3> QED
      BY <1>3, <1>6, <3>1
  <2> QED
    BY <2>2, <2>3
<1>8. 1..(g - 1) \subseteq 1..g /\ 1..(g - 1) \subseteq InRange /\ 1..g \subseteq 0..M4
  BY <1>1 DEF InRange
<1>9. {i * g : i \in 2..(c - 1)} \subseteq 0..M4
  <2>1. \A i \in 2..(c - 1) : i \in 1..c - 1
    BY <1>2
  <2> QED
    BY <1>1, <1>6, <2>1
<1>10. LinearRotations(s, enc.g) \subseteq InRange
  BY <1>4, <1>6, <1>8 DEF InRange
<1> QED
  BY <1>3, <1>4, <1>5, <1>7, <1>8, <1>9, <1>10

(* Every index a key is generated for is a rotation of the slots.          *)
LEMMA IndicesIn ==
  ASSUME NEW n \in 1..M4, NEW scale \in Nat, NEW num \in Nat, NEW b \in Nat, NEW g \in Nat
  PROVE  Indices(scale, num, b, g, n) \subseteq 0..M4
PROOF
<1> DEFINE half == 1 - (num + 1) \div 2
<1>1. n \in Nat \ {0} /\ M4 \in Nat \ {0} /\ n <= M4
  BY M4Assumption
<1>2. half \in Int
  OBVIOUS
<1>3. Indices(scale, num, b, g, n) = {ReduceRotation(j * scale, n) : j \in half..(half + g - 1)}
                                     \cup {ReduceRotation(i * g * scale, M4) : i \in 0..(b - 1)}
  BY DEF Indices
<1> HIDE DEF half
<1>4. ASSUME NEW j \in half..(half + g - 1)
      PROVE  ReduceRotation(j * scale, n) \in 0..M4
  <2> DEFINE x == j * scale
  <2>1. x \in Int
    BY <1>2
  <2> HIDE DEF x
  <2>2. ReduceRotation(x, n) \in 0..n
    BY <1>1, <2>1, ReduceRange
  <2> QED
    BY <1>1, <2>2 DEF x
<1>5. ASSUME NEW i \in 0..(b - 1)
      PROVE  ReduceRotation(i * g * scale, M4) \in 0..M4
  <2> DEFINE x == i * g * scale
  <2>1. x \in Int
    <3>1. i * g \in Int
      OBVIOUS
    <3> QED
      BY <3>1
  <2> HIDE DEF x
  <2> QED
    BY <1>1, <2>1, ReduceRange DEF x
<1> QED
  BY <1>3, <1>4, <1>5

(* What is left of the parameters of a transform in an archive.            *)
Bare(q) == [NoParams EXCEPT !.lvlb = q.lvlb, !.g = q.g]

LEMMA TransformIndicesIn ==
  ASSUME NEW s \in 1..M4, NEW q, NEW p, Laid(p, s), q = p \/ q = Bare(p)
  PROVE  /\ FindCoeffsToSlotsRotationIndices(s, q) \subseteq 0..M4
         /\ FindSlotsToCoeffsRotationIndices(s, q) \subseteq 0..M4
PROOF
<1> DEFINE F == FlagRem(q)
<1>1. M4 \in Nat \ {0} /\ M4 \in 1..M4 /\ s \in Nat \ {0}
  BY M4Assumption
<1>2. p.g \in Nat /\ p.numRotations \in Nat /\ p.numRotationsRem \in Nat
  <2>1. /\ TwoTo(p.layersCollapse + 1) \in Nat /\ TwoTo(p.layersCollapse + 1) > 0
        /\ TwoTo(p.remCollapse + 1) \in Nat /\ TwoTo(p.remCollapse + 1) > 0
    <3>1. p.layersCollapse + 1 \in Nat /\ p.remCollapse + 1 \in Nat
      BY DEF Laid
    <3> QED
      BY <3>1, TwoToPositive
  <2> QED
    BY <2>1 DEF Laid
<1>3. /\ q.lvlb \in Nat /\ q.layersCollapse \in Nat /\ q.remCollapse \in Nat
      /\ q.numRotations \in Nat /\ q.numRotationsRem \in Nat
      /\ q.b \in Nat /\ q.g \in Nat /\ q.bRem \in Nat /\ q.gRem \in Nat
      /\ F \in {0, 1} /\ F <= q.lvlb
  <2>1. CASE q = p
    BY <1>1, <1>2, <2>1, LogSlotsFacts DEF Laid, FlagRem
  <2>2. CASE q = Bare(p)
    BY <1>1, <1>2, <2>2, LogSlotsFacts DEF Laid, FlagRem, Bare, NoParams
  <2> QED
    BY <2>1, <2>2
<1> HIDE DEF F
<1>4. ASSUME NEW t \in Nat
      PROVE  DecodingScale(q, t) \in Nat /\ (t >= F => EncodingScale(q, t) \in Nat)
  <2>1. t * q.layersCollapse \in Nat
    BY <1>3
  <2>2. t >= F => (t - F) * q.layersCollapse + q.remCollapse \in Nat
    BY <1>3
  <2> QED
    BY <2>1, <2>2, TwoToPositive DEF DecodingScale, EncodingScale, F
<1>5. PartialSums(s) \subseteq 0..M4
  BY <1>1, PartialSumsIn
<1>6. FindCoeffsToSlotsRotationIndices(s, q) \subseteq 0..M4
  <2>1. ASSUME NEW t \in F..(q.lvlb - 1)
        PROVE  Indices(EncodingScale(q, t), q.numRotations, q.b, q.g, s) \subseteq 0..M4
    <3>1. t \in Nat /\ t >= F
      BY <1>3
    <3> QED
      BY <1>3, <1>4, <3>1, IndicesIn
  <2>2. Indices(1, q.numRotationsRem, q.bRem, q.gRem, s) \subseteq 0..M4
    BY <1>3, IndicesIn
  <2>3. FindCoeffsToSlotsRotationIndices(s, q)
          = PartialSums(s)
            \cup (UNION {Indices(EncodingScale(q, t), q.numRotations, q.b, q.g, s) : t \in F..(q.lvlb - 1)})
            \cup (IF F = 1 THEN Indices(1, q.numRotationsRem, q.bRem, q.gRem, s) ELSE {})
    BY DEF FindCoeffsToSlotsRotationIndices, F
  <2> QED
    BY <1>5, <2>1, <2>2, <2>3
<1>7. FindSlotsToCoeffsRotationIndices(s, q) \subseteq 0..M4
  <2> DEFINE smax == q.lvlb - F
  <2>1. ASSUME NEW t \in 0..(smax - 1)
        PROVE  Indices(DecodingScale(q, t), q.numRotations, q.b, q.g, M4) \subseteq 0..M4
    <3>1. t \in Nat
      BY <1>3
    <3> QED
      BY <1>1, <1>3, <1>4, <3>1, IndicesIn
  <2>2. Indices(DecodingScale(q, smax), q.numRotationsRem, q.bRem, q.gRem, M4) \subseteq 0..M4
    <3>1. smax \in Nat
      BY <1>3
    <3> QED
      BY <1>1, <1>3, <1>4, <3>1, IndicesIn
  <2>3. FindSlotsToCoeffsRotationIndices(s, q)
          = PartialSums(s)
            \cup (UNION {Indices(DecodingScale(q, t), q.numRotations, q.b, q.g, M4) : t \in 0..(smax - 1)})
            \cup (IF F = 1 THEN Indices(DecodingScale(q, smax), q.numRotationsRem, q.bRem, q.gRem, M4)
                  ELSE {})
    BY DEF FindSlotsToCoeffsRotationIndices, F
  <2> HIDE DEF smax
  <2> QED
    BY <1>5, <2>1, <2>2, <2>3
<1> QED
  BY <1>6, <1>7

-----------------------------------------------------------------------------
(* The automorphisms of the rotations.                                     *)
LEMMA AutomorphismsAre ==
  ASSUME NEW i \in 0..M4 - 1
  PROVE  AutomorphismIndex[i] \in 1..Conjugation
PROOF
<1> DEFINE n == M4 - 1
           S == {x \in 1..Conjugation : x % 2 = 1}
           F == [k \in 1..n |-> [v \in S |-> (5 * v) % CyclotomicOrder]]
           Is(f) == f = [k \in 0..n |-> IF k = 0 THEN 1 ELSE (5 * f[k - 1]) % CyclotomicOrder]
           p == CHOOSE f : Is(f)
<1>1. n \in Nat /\ M4 \in Nat \ {0, 1}
  BY M4Assumption
<1>2. 1 \in S
  BY <1>1 DEF Conjugation, CyclotomicOrder
<1>3. F \in RecursionSteps(S, n)
  <2>1. ASSUME NEW v \in S PROVE (5 * v) % CyclotomicOrder \in S
    <3>1. v \in Nat /\ v % 2 = 1
      BY <1>1 DEF Conjugation, CyclotomicOrder
    <3>2. PICK k \in Int, r \in 0..4 * M4 - 1 : 5 * v = 4 * M4 * k + r /\ r = (5 * v) % (4 * M4)
      <4>1. 4 * M4 \in Nat \ {0} /\ 5 * v \in Int
        BY <1>1, <3>1
      <4> QED
        BY <4>1, Division
    <3>3. r % 2 = 1
      <4> DEFINE a == M4 * k
      <4>1. a \in Int /\ 4 * M4 * k = 4 * a
        BY <1>1
      <4> HIDE DEF a
      <4> QED
        BY <3>1, <3>2, <4>1
    <3>4. r \in S
      BY <1>1, <3>2, <3>3 DEF Conjugation, CyclotomicOrder
    <3> QED
      BY <3>2, <3>4 DEF CyclotomicOrder
  <2> HIDE DEF S
  <2> QED
    BY <2>1 DEF RecursionSteps
<1>4. PICK f : IsRecursion(f, S, 1, F, n)
  <2> HIDE DEF F, S, n
  <2> QED
    BY <1>1, <1>2, <1>3, RecursionExists, Zenon
<1>5. f \in [0..n -> S] /\ f[0] = 1 /\ \A k \in 1..n : f[k] = F[k][f[k - 1]]
  <2> HIDE DEF F, S, n
  <2> QED
    BY <1>4 DEF IsRecursion
<1>6. \A k \in 1..n : f[k - 1] \in S /\ f[k] = (5 * f[k - 1]) % CyclotomicOrder
  <2>1. TAKE k \in 1..n
  <2>2. k - 1 \in 0..n
    BY <1>1
  <2>3. f[k - 1] \in S /\ f[k] = F[k][f[k - 1]]
    <3> HIDE DEF F, S, n
    <3> QED
      BY <1>5, <2>2
  <2>4. \A v \in S : F[k][v] = (5 * v) % CyclotomicOrder
    <3> HIDE DEF S
    <3> QED
      OBVIOUS
  <2> HIDE DEF F, S
  <2> QED
    BY <2>3, <2>4
<1>7. Is(f)
  <2> HIDE DEF S, n
  <2>1. f = [k \in 0..n |-> f[k]]
    BY <1>5
  <2>2. \A k \in 0..n : f[k] = IF k = 0 THEN 1 ELSE (5 * f[k - 1]) % CyclotomicOrder
    BY <1>1, <1>5, <1>6
  <2> QED
    BY <2>1, <2>2
<1>8. AutomorphismIndex = p
  BY TableIs DEF AutomorphismIndex
<1>9. Is(p)
  <2> HIDE DEF Is
  <2> QED
    BY <1>7, Zenon
<1>10. p[0] = 1 /\ \A k \in 1..n : p[k] = (5 * p[k - 1]) % CyclotomicOrder
  <2> HIDE DEF p
  <2> QED
    BY <1>1, <1>9
<1>11. \A k \in 0..n : p[k] \in S
  <2> DEFINE T == {k \in 0..n : p[k] \in S}
  <2>1. 0 \in T
    BY <1>1, <1>2, <1>10
  <2>2. ASSUME NEW k \in 0..n - 1, k \in T
        PROVE  k + 1 \in T
    <3>1. k + 1 \in 1..n /\ k + 1 - 1 = k /\ k + 1 \in 0..n
      BY <1>1
    <3>2. p[k] \in S
      BY <2>2
    <3> HIDE DEF p, n, S
    <3>3. p[k + 1] = F[k + 1][p[k]]
      <4>1. p[k + 1] = (5 * p[k]) % CyclotomicOrder
        BY <1>10, <3>1
      <4> QED
        BY <3>1, <3>2, <4>1 DEF F
    <3>4. F[k + 1][p[k]] \in S
      BY <1>3, <3>1, <3>2 DEF RecursionSteps
    <3> QED
      BY <3>1, <3>3, <3>4
  <2> HIDE DEF T, n
  <2>3. \A k \in 0..n : k \in T
    BY <1>1, <2>1, <2>2, BoundedInduction, Zenon
  <2> QED
    BY <2>3 DEF T
<1> QED
  <2> HIDE DEF p
  <2> QED
    BY <1>8, <1>11

-----------------------------------------------------------------------------
(* The set-ups and the keys.                                               *)

(* The parameters of a transform as they were found, or what an archive    *)
(* holds of them, from which they are found again.                         *)
FullOf(q, s) == GetCollapsedFFTParams(s, q.lvlb, q.g)
ParamsFor(q, s) ==
  /\ Laid(FullOf(q, s), s) /\ FullOf(q, s).lvlb = q.lvlb /\ FullOf(q, s).g = q.g
  /\ q = FullOf(q, s) \/ q = Bare(q)

\* The entry of m_bootPrecomMap for s slots.
SetUp(p, s) ==
  /\ p = [slots |-> s, BTSlotsEncoding |-> p.BTSlotsEncoding, enc |-> p.enc, dec |-> p.dec,
          U0Pre |-> p.U0Pre, U0hatTPre |-> p.U0hatTPre]
  /\ ParamsFor(p.enc, s) /\ ParamsFor(p.dec, s)
  /\ p.enc.lvlb = 1 => p.enc.g <= M4
  /\ p.U0Pre # <<>> \/ p.enc.layersCollapse > 0 => p.enc = FullOf(p.enc, s) /\ p.dec = FullOf(p.dec, s)
  /\ Len(p.U0Pre) \in {0, p.dec.lvlb} /\ Len(p.U0hatTPre) \in {0, p.enc.lvlb}

EntriesInv ==
  /\ DOMAIN bootPrecom = SlotCounts
  /\ \A s \in SlotCounts : bootPrecom[s] = None \/ SetUp(bootPrecom[s], s)
KeysInv ==
  /\ evalKeys \subseteq 1..Conjugation
  /\ keyed \subseteq SlotCounts
  /\ keyed # {} => Conjugation \in evalKeys

\* What keys were generated for, from the parameters in full.
KeysOf(p, s) ==
  {AutomorphismIndex[i] : i \in FindBootstrapRotationIndices(s, FullOf(p.enc, s), FullOf(p.dec, s))}
  \cup {Conjugation}
KeysKept ==
  \A s \in keyed : bootPrecom[s] # None /\ KeysOf(bootPrecom[s], s) \subseteq evalKeys

LEMMA SlotsFacts ==
  ASSUME NEW s \in SlotCounts
  PROVE  s \in 1..M4 /\ s \in Nat \ {0} /\ s <= M4
BY SlotsAssumption, M4Assumption

(* Parameters found for a budget and a baby step are found again from      *)
(* themselves.                                                             *)
LEMMA FoundAgain ==
  ASSUME NEW s \in SlotCounts, NEW B \in 1..LogSlots(s), NEW dim \in Nat
  PROVE  LET q == GetCollapsedFFTParams(s, B, dim)
         IN  /\ q = FullOf(q, s) /\ ParamsFor(q, s)
             /\ dim <= M4 /\ q.lvlb = 1 => q.g <= M4
PROOF
<1> DEFINE q == GetCollapsedFFTParams(s, B, dim)
<1>1. /\ Laid(q, s) /\ q.lvlb = B
      /\ q = GetCollapsedFFTParams(s, B, q.g)
      /\ s <= M4 /\ dim <= M4 /\ B = 1 => q.g <= M4
  BY SlotsFacts, ParamsLaid
<1> HIDE DEF q
<1>2. q = FullOf(q, s)
  BY <1>1 DEF FullOf
<1>3. ParamsFor(q, s)
  BY <1>1, <1>2 DEF ParamsFor
<1>4. dim <= M4 /\ q.lvlb = 1 => q.g <= M4
  BY <1>1, SlotsFacts
<1> QED
  BY <1>2, <1>3, <1>4 DEF q

LEMMA FullFacts ==
  ASSUME NEW s \in SlotCounts, NEW q, ParamsFor(q, s)
  PROVE  /\ Laid(FullOf(q, s), s)
         /\ FullOf(FullOf(q, s), s) = FullOf(q, s)
         /\ FullOf(q, s).lvlb = q.lvlb /\ FullOf(q, s).g = q.g
         /\ ParamsFor(FullOf(q, s), s)
BY DEF ParamsFor, FullOf

LEMMA BareFacts ==
  ASSUME NEW s, NEW q
  PROVE  /\ Bare(q).lvlb = q.lvlb /\ Bare(q).g = q.g /\ Bare(q).layersCollapse = 0
         /\ FullOf(Bare(q), s) = FullOf(q, s)
         /\ Bare(Bare(q)) = Bare(q)
PROOF
<1>1. Bare(q).lvlb = q.lvlb /\ Bare(q).g = q.g /\ Bare(q).layersCollapse = 0
  BY DEF Bare, NoParams
<1> QED
  BY <1>1 DEF FullOf, Bare

LEMMA BareParams ==
  ASSUME NEW s \in SlotCounts, NEW q, ParamsFor(q, s)
  PROVE  ParamsFor(Bare(q), s)
BY BareFacts DEF ParamsFor

(* The rotations keys are generated for are those of the slots.            *)
LEMMA BootstrapIndicesIn ==
  ASSUME NEW s \in SlotCounts, NEW enc, NEW dec, ParamsFor(enc, s), ParamsFor(dec, s),
         enc.lvlb = 1 => enc.g <= M4
  PROVE  FindBootstrapRotationIndices(s, enc, dec) \subseteq 1..M4 - 1
PROOF
<1>1. s \in 1..M4 /\ M4 \in Nat
  BY SlotsFacts, M4Assumption
<1>2. ASSUME NEW q, ParamsFor(q, s)
      PROVE  /\ FindCoeffsToSlotsRotationIndices(s, q) \subseteq 0..M4
             /\ FindSlotsToCoeffsRotationIndices(s, q) \subseteq 0..M4
  <2> DEFINE p == FullOf(q, s)
  <2>1. Laid(p, s) /\ (q = p \/ q = Bare(p))
    <3>1. Laid(p, s) /\ p.lvlb = q.lvlb /\ p.g = q.g /\ (q = p \/ q = Bare(q))
      BY <1>2 DEF ParamsFor
    <3> HIDE DEF p
    <3> QED
      BY <3>1 DEF Bare
  <2> HIDE DEF p
  <2> QED
    BY <1>1, <2>1, TransformIndicesIn
<1>3. ASSUME IsLTBootstrap(enc, dec)
      PROVE  FindLinearTransformRotationIndices(s, enc) \subseteq 0..M4
  <2>1. enc.g \in 1..M4
    <3>1. enc.g \in Nat \ {0}
      <4> DEFINE p == FullOf(enc, s)
      <4>1. Laid(p, s) /\ p.g = enc.g
        BY DEF ParamsFor
      <4> HIDE DEF p
      <4>2. p.layersCollapse + 1 \in Nat /\ p.numRotations = TwoTo(p.layersCollapse + 1) - 1
        BY <4>1 DEF Laid
      <4>3. p.numRotations \in Int
        BY <4>2, TwoToPositive
      <4> QED
        BY <4>1, <4>3 DEF Laid
    <3> QED
      BY <1>1, <1>3, <3>1 DEF IsLTBootstrap
  <2> QED
    BY <1>1, <2>1, LinearCovered
<1>4. FindCoeffsToSlotsRotationIndices(s, enc) \cup FindSlotsToCoeffsRotationIndices(s, dec) \subseteq 0..M4
  BY <1>2
<1> DEFINE all == IF IsLTBootstrap(enc, dec) THEN FindLinearTransformRotationIndices(s, enc)
                  ELSE FindCoeffsToSlotsRotationIndices(s, enc) \cup FindSlotsToCoeffsRotationIndices(s, dec)
<1>5. all \subseteq 0..M4
  BY <1>3, <1>4
<1>6. FindBootstrapRotationIndices(s, enc, dec) = (all \cup {s}) \ {0, M4}
  BY DEF FindBootstrapRotationIndices
<1> HIDE DEF all
<1> QED
  BY <1>1, <1>5, <1>6

(* Those a refresh uses are among them.                                    *)
LEMMA UsedHaveKeys ==
  ASSUME NEW s \in SlotCounts, NEW p, p.slots = s, Laid(p.enc, s), Laid(p.dec, s),
         p.enc.lvlb = 1 => p.enc.g <= M4
  PROVE  RotationsUsed(p) \subseteq FindBootstrapRotationIndices(s, p.enc, p.dec)
PROOF
<1> DEFINE enc == p.enc
           dec == p.dec
           all == IF IsLTBootstrap(enc, dec) THEN FindLinearTransformRotationIndices(s, enc)
                  ELSE FindCoeffsToSlotsRotationIndices(s, enc) \cup FindSlotsToCoeffsRotationIndices(s, dec)
           transforms == IF IsLTBootstrap(enc, dec) THEN LinearRotations(s, enc.g)
                         ELSE RotationsOf(EncodingLevels(enc), s) \cup RotationsOf(DecodingLevels(dec), M4)
<1>1. s \in 1..M4 /\ s \in Nat \ {0} /\ M4 \in Nat
  BY SlotsFacts, M4Assumption
<1>2. PartialSums(s) \subseteq all
  BY DEF FindLinearTransformRotationIndices, FindCoeffsToSlotsRotationIndices
<1>3. PartialSums(s) \subseteq InRange
  BY <1>1, PartialSumsIn DEF InRange
<1>4. transforms \subseteq all \cap InRange
  <2>1. CASE IsLTBootstrap(enc, dec)
    <3>1. enc.lvlb = 1 /\ enc.g <= M4
      BY <2>1 DEF IsLTBootstrap
    <3>2. enc.g \in Nat \ {0}
      <4>1. enc.layersCollapse + 1 \in Nat /\ enc.numRotations = TwoTo(enc.layersCollapse + 1) - 1
        BY DEF Laid
      <4>2. enc.numRotations \in Int
        BY <4>1, TwoToPositive
      <4> QED
        BY <4>2 DEF Laid
    <3>3. enc.g \in 1..M4
      BY <1>1, <3>1, <3>2
    <3>4. LinearRotations(s, enc.g) \subseteq FindLinearTransformRotationIndices(s, enc) \cap InRange
      BY <1>1, <3>3, LinearCovered
    <3> QED
      BY <2>1, <3>4
  <2>2. CASE ~IsLTBootstrap(enc, dec)
    <3>1. s \in 2..M4
      <4>1. ASSUME s = 1 PROVE FALSE
        <5>1. LogSlots(s) = 1
          BY <1>1, <4>1, LogSlotsFacts
        <5>2. enc.lvlb \in 1..1 /\ dec.lvlb \in 1..1
          BY <5>1 DEF Laid
        <5> QED
          BY <2>2, <5>2 DEF IsLTBootstrap
      <4> QED
        BY <1>1, <4>1
    <3>2. /\ RotationsOf(EncodingLevels(enc), s) \subseteq FindCoeffsToSlotsRotationIndices(s, enc) \cap InRange
          /\ RotationsOf(DecodingLevels(dec), M4) \subseteq FindSlotsToCoeffsRotationIndices(s, dec) \cap InRange
      BY <3>1, EncodingCovered, DecodingCovered
    <3> QED
      BY <2>2, <3>2
  <2> QED
    BY <2>1, <2>2
<1>5. FindBootstrapRotationIndices(s, enc, dec) = (all \cup {s}) \ {0, M4}
  BY DEF FindBootstrapRotationIndices
<1>6. RotationsUsed(p) \subseteq (transforms \cup IF s # M4 THEN PartialSums(s) \cup {s} ELSE {}) \ {0}
  BY DEF RotationsUsed, Sparse
<1>7. s # M4 => s \in InRange
  BY <1>1 DEF InRange
<1> HIDE DEF all, transforms
<1>8. \A i \in InRange : i # M4
  BY <1>1 DEF InRange
<1> QED
  BY <1>2, <1>3, <1>4, <1>5, <1>6, <1>7, <1>8

(* Plaintexts for each level of both transforms.                           *)
Entry(s, bts, enc, dec, u, w) ==
  [slots |-> s, BTSlotsEncoding |-> bts, enc |-> enc, dec |-> dec, U0Pre |-> u, U0hatTPre |-> w]

EntryOf(s, bts, enc, dec, u, w) ==
  [slots : {s}, BTSlotsEncoding : {bts}, enc : {enc}, dec : {dec}, U0Pre : {u}, U0hatTPre : {w}]

LEMMA EntryFrom ==
  ASSUME NEW s, NEW bts, NEW enc, NEW dec, NEW u, NEW w, NEW p \in EntryOf(s, bts, enc, dec, u, w)
  PROVE  p = Entry(s, bts, enc, dec, u, w)
BY DEF Entry, EntryOf

(* Parameters and plaintexts are replaced, and nothing else.               *)
Found(p, enc, dec) == [p EXCEPT !.enc = enc, !.dec = dec]
Computed(p, u, w) == [p EXCEPT !.U0Pre = u, !.U0hatTPre = w]

LEMMA FoundIs ==
  ASSUME NEW s, NEW bts, NEW enc, NEW dec, NEW u, NEW w, NEW enc1, NEW dec1
  PROVE  Found(Entry(s, bts, enc, dec, u, w), enc1, dec1) = Entry(s, bts, enc1, dec1, u, w)
PROOF
<1>1. Found(Entry(s, bts, enc, dec, u, w), enc1, dec1) \in EntryOf(s, bts, enc1, dec1, u, w)
  BY DEF Found, Entry, EntryOf
<1> QED
  BY <1>1, EntryFrom

LEMMA ComputedIs ==
  ASSUME NEW s, NEW bts, NEW enc, NEW dec, NEW u, NEW w, NEW x, NEW y
  PROVE  Computed(Entry(s, bts, enc, dec, u, w), x, y) = Entry(s, bts, enc, dec, x, y)
PROOF
<1>1. Computed(Entry(s, bts, enc, dec, u, w), x, y) \in EntryOf(s, bts, enc, dec, x, y)
  BY DEF Computed, Entry, EntryOf
<1> QED
  BY <1>1, EntryFrom

(* An entry with a plaintext for each level.                               *)
Filled(p, s, bts, enc, dec) ==
  \E x, y : p = Entry(s, bts, enc, dec, x, y) /\ Len(x) = dec.lvlb /\ Len(y) = enc.lvlb

LEMMA LengthIs ==
  ASSUME NEW n \in Nat, NEW S, NEW f, f = [k \in S |-> f[k]], S = 1..n
  PROVE  Len(f) = n
OBVIOUS

IsTable(f, S) == DOMAIN f = S /\ f = [k \in DOMAIN f |-> f[k]]

LEMMA PlaintextsMatch ==
  ASSUME NEW s \in SlotCounts, NEW bts, NEW enc, NEW dec, NEW u, NEW w, NEW pair,
         Laid(enc, s), Laid(dec, s)
  PROVE  Filled(WithPlaintexts(Entry(s, bts, enc, dec, u, w), pair), s, bts, enc, dec)
PROOF
<1> DEFINE p == Entry(s, bts, enc, dec, u, w)
           pack == dataType = "COMPLEX" /\ p.BTSlotsEncoding
           linD == LinearDecoding(s, enc.g, pair)
           linE == LinearEncoding(s, enc.g, pair)
           preD == EvalSlotsToCoeffsPrecompute(s, dec, pack)
           preE == EvalCoeffsToSlotsPrecompute(s, enc, pack)
<1>1. p.slots = s /\ p.enc = enc /\ p.dec = dec
  BY DEF Entry
<1>2. ASSUME NEW x, NEW y
      PROVE  Computed(p, x, y) = Entry(s, bts, enc, dec, x, y)
  BY ComputedIs
<1>3. WithPlaintexts(p, pair) = IF IsLTBootstrap(enc, dec)
                                THEN Computed(p, <<linD>>, <<linE>>)
                                ELSE Computed(p, preD, preE)
  <2> HIDE DEF p
  <2> QED
    BY <1>1 DEF WithPlaintexts, Computed
<1>4. enc.lvlb \in Nat /\ dec.lvlb \in Nat
  BY SlotsFacts, LogSlotsFacts DEF Laid
<1>5. Len(preD) = dec.lvlb
  <2>1. DOMAIN preD = 1..dec.lvlb /\ preD = [k \in DOMAIN preD |-> preD[k]]
    <3>1. DOMAIN DecodingLevels(dec) = 1..dec.lvlb
      BY SlotsFacts, LevelsAre
    <3>2. IsTable(preD, DOMAIN DecodingLevels(dec))
      BY Zenon DEF EvalSlotsToCoeffsPrecompute, IsTable, Table
    <3> HIDE DEF preD
    <3> QED
      BY <3>1, <3>2 DEF IsTable
  <2> HIDE DEF preD
  <2> QED
    BY <1>4, <2>1, LengthIs
<1>6. Len(preE) = enc.lvlb
  <2>1. DOMAIN preE = 1..enc.lvlb /\ preE = [k \in DOMAIN preE |-> preE[k]]
    <3>1. DOMAIN EncodingLevels(enc) = 1..enc.lvlb
      BY SlotsFacts, LevelsAre
    <3>2. IsTable(preE, DOMAIN EncodingLevels(enc))
      BY Zenon DEF EvalCoeffsToSlotsPrecompute, IsTable, Table
    <3> HIDE DEF preE
    <3> QED
      BY <3>1, <3>2 DEF IsTable
  <2> HIDE DEF preE
  <2> QED
    BY <1>4, <2>1, LengthIs
<1> HIDE DEF p, linD, linE, preD, preE
<1>7. CASE IsLTBootstrap(enc, dec)
  <2>1. WithPlaintexts(p, pair) = Entry(s, bts, enc, dec, <<linD>>, <<linE>>)
    BY <1>2, <1>3, <1>7
  <2>2. Len(<<linD>>) = dec.lvlb /\ Len(<<linE>>) = enc.lvlb
    BY <1>7 DEF IsLTBootstrap
  <2> QED
    BY <2>1, <2>2 DEF p, Filled
<1>8. CASE ~IsLTBootstrap(enc, dec)
  <2>1. WithPlaintexts(p, pair) = Entry(s, bts, enc, dec, preD, preE)
    BY <1>2, <1>3, <1>8
  <2> QED
    BY <1>5, <1>6, <2>1 DEF p, Filled
<1> QED
  BY <1>7, <1>8

(* The first invariant says how the entries of the map are, and of which   *)
(* automorphisms there are keys.                                           *)
TypeInv == dataType \in DOMAIN Budgets /\ EntriesInv /\ KeysInv

LEMMA TypeInvInit == Init => TypeInv /\ KeysKept
BY DEF Init, TypeInv, EntriesInv, KeysInv, KeysKept

LEMMA NoneIsNot ==
  ASSUME NEW s \in SlotCounts, NEW p, SetUp(p, s)
  PROVE  p # None
PROOF
<1>1. p.slots = s
  <2> DEFINE q == [slots |-> s, BTSlotsEncoding |-> p.BTSlotsEncoding, enc |-> p.enc, dec |-> p.dec,
                   U0Pre |-> p.U0Pre, U0hatTPre |-> p.U0hatTPre]
  <2>1. p = q /\ q.slots = s
    BY DEF SetUp
  <2> QED
    BY <2>1
<1> QED
  BY <1>1, SlotsFacts DEF None

(* An entry with its parameters in full, and with plaintexts or without.   *)
LEMMA EntryIsSetUp ==
  ASSUME NEW s \in SlotCounts, NEW bts, NEW enc, NEW dec, NEW u, NEW w,
         ParamsFor(enc, s), ParamsFor(dec, s), enc.lvlb = 1 => enc.g <= M4,
         u # <<>> \/ enc.layersCollapse > 0 => enc = FullOf(enc, s) /\ dec = FullOf(dec, s),
         Len(u) \in {0, dec.lvlb}, Len(w) \in {0, enc.lvlb}
  PROVE  SetUp(Entry(s, bts, enc, dec, u, w), s)
BY DEF SetUp, Entry

LEMMA SetUpIsEntry ==
  ASSUME NEW s, NEW p, SetUp(p, s)
  PROVE  p = Entry(s, p.BTSlotsEncoding, p.enc, p.dec, p.U0Pre, p.U0hatTPre) /\ p.slots = s
PROOF
<1>1. p = Entry(s, p.BTSlotsEncoding, p.enc, p.dec, p.U0Pre, p.U0hatTPre)
  BY DEF SetUp, Entry
<1>2. Entry(s, p.BTSlotsEncoding, p.enc, p.dec, p.U0Pre, p.U0hatTPre).slots = s
  BY DEF Entry
<1> QED
  BY <1>1, <1>2

(* Setting up leaves an entry as it should be.                             *)
LEMMA SetupEntry ==
  ASSUME DimsFit, BudgetsFit, TypeInv,
         NEW s \in SlotCounts, NEW levelBudget \in Budgets[dataType], NEW dim1 \in Dims,
         NEW precompute, NEW bts,
         EvalBootstrapSetup(s, levelBudget, dim1, precompute, bts)
  PROVE  \E p : SetUp(p, s) /\ bootPrecom' = [bootPrecom EXCEPT ![s] = p]
PROOF
<1> DEFINE B1 == Clamp(levelBudget[1], s)
           B2 == Clamp(levelBudget[2], s)
           enc == GetCollapsedFFTParams(s, B1, dim1[1])
           dec == GetCollapsedFFTParams(s, B2, dim1[2])
           p == Entry(s, bts, enc, dec, <<>>, <<>>)
           pair == JoinedInSetup(s, bts)
<1>1. levelBudget \in Nat \X Nat /\ dim1 \in Nat \X Nat /\ dim1[1] <= M4
  BY DEF DimsFit, BudgetsFit, TypeInv
<1>2. LogSlots(s) \in Nat \ {0}
  BY SlotsFacts, LogSlotsFacts
<1>3. B1 \in 1..LogSlots(s) /\ B2 \in 1..LogSlots(s)
  BY <1>1, <1>2 DEF Clamp
<1>4. bootPrecom' = [bootPrecom EXCEPT ![s] = IF precompute THEN WithPlaintexts(p, pair) ELSE p]
  BY DEF EvalBootstrapSetup, Entry
<1>5. /\ enc = FullOf(enc, s) /\ ParamsFor(enc, s) /\ (enc.lvlb = 1 => enc.g <= M4)
      /\ dec = FullOf(dec, s) /\ ParamsFor(dec, s)
  <2>1. dim1[1] \in Nat /\ dim1[2] \in Nat
    BY <1>1
  <2> HIDE DEF B1, B2
  <2> QED
    BY <1>1, <1>3, <2>1, FoundAgain
<1> HIDE DEF enc, dec, B1, B2, pair
<1>6. Laid(enc, s) /\ Laid(dec, s)
  BY <1>5 DEF ParamsFor
<1>7. SetUp(p, s)
  <2>1. Len(<<>>) \in {0, dec.lvlb} /\ Len(<<>>) \in {0, enc.lvlb}
    OBVIOUS
  <2> QED
    BY <1>5, <2>1, EntryIsSetUp
<1>8. SetUp(WithPlaintexts(p, pair), s)
  <2>1. PICK x, y : /\ WithPlaintexts(p, pair) = Entry(s, bts, enc, dec, x, y)
                    /\ Len(x) = dec.lvlb /\ Len(y) = enc.lvlb
    <3>1. Filled(WithPlaintexts(p, pair), s, bts, enc, dec)
      BY <1>6, PlaintextsMatch
    <3> QED
      BY <3>1 DEF Filled
  <2>2. SetUp(Entry(s, bts, enc, dec, x, y), s)
    BY <1>5, <2>1, EntryIsSetUp
  <2> QED
    BY <2>1, <2>2
<1> HIDE DEF p
<1>9. CASE precompute
  BY <1>4, <1>8, <1>9
<1>10. CASE ~precompute
  BY <1>4, <1>7, <1>10
<1> QED
  BY <1>9, <1>10

(* Computing plaintexts finds the parameters again.                        *)
LEMMA PrecomputeEntry ==
  ASSUME TypeInv, NEW s \in SlotCounts, EvalBootstrapPrecompute(s)
  PROVE  /\ SetUp(bootPrecom[s], s)
         /\ \E p : /\ SetUp(p, s) /\ bootPrecom' = [bootPrecom EXCEPT ![s] = p]
                   /\ p.enc = FullOf(bootPrecom[s].enc, s) /\ p.dec = FullOf(bootPrecom[s].dec, s)
PROOF
<1> DEFINE old == bootPrecom[s]
           enc == FullOf(old.enc, s)
           dec == FullOf(old.dec, s)
           full == [old EXCEPT !.enc = enc, !.dec = dec]
           pair == JoinedInPrecompute(s)
           bts == old.BTSlotsEncoding
           new == WithPlaintexts(full, pair)
<1>1. SetUp(old, s)
  BY DEF EvalBootstrapPrecompute, TypeInv, EntriesInv
<1>2. bootPrecom' = [bootPrecom EXCEPT ![s] = new]
  BY DEF EvalBootstrapPrecompute, FullOf
<1>3. full = Entry(s, bts, enc, dec, old.U0Pre, old.U0hatTPre)
  <2>1. old = Entry(s, bts, old.enc, old.dec, old.U0Pre, old.U0hatTPre)
    BY <1>1, SetUpIsEntry
  <2>2. full = Found(old, enc, dec)
    BY DEF Found
  <2>3. Found(Entry(s, bts, old.enc, old.dec, old.U0Pre, old.U0hatTPre), enc, dec)
          = Entry(s, bts, enc, dec, old.U0Pre, old.U0hatTPre)
    BY FoundIs
  <2> HIDE DEF old, enc, dec, full
  <2> QED
    BY <2>1, <2>2, <2>3
<1>4. /\ ParamsFor(old.enc, s) /\ ParamsFor(old.dec, s) /\ (old.enc.lvlb = 1 => old.enc.g <= M4)
  BY <1>1 DEF SetUp
<1>5. /\ Laid(enc, s) /\ FullOf(enc, s) = enc /\ ParamsFor(enc, s)
      /\ Laid(dec, s) /\ FullOf(dec, s) = dec /\ ParamsFor(dec, s)
      /\ enc.lvlb = 1 => enc.g <= M4
  BY <1>4, FullFacts
<1> HIDE DEF enc, dec, full, pair, bts
<1>6. PICK x, y : /\ new = Entry(s, bts, enc, dec, x, y)
                  /\ Len(x) = dec.lvlb /\ Len(y) = enc.lvlb
  <2>1. Filled(new, s, bts, enc, dec)
    BY <1>3, <1>5, PlaintextsMatch
  <2> HIDE DEF new
  <2> QED
    BY <2>1 DEF Filled
<1>7. SetUp(new, s)
  <2> HIDE DEF new
  <2> QED
    BY <1>5, <1>6, EntryIsSetUp
<1>8. new.enc = enc /\ new.dec = dec
  <2> HIDE DEF new
  <2> QED
    BY <1>6 DEF Entry
<1> HIDE DEF new
<1> QED
  BY <1>1, <1>2, <1>7, <1>8 DEF enc, dec

(* An archive keeps what the parameters are found again from.              *)
LEMMA ArchivedEntry ==
  ASSUME NEW s \in SlotCounts, NEW p, SetUp(p, s)
  PROVE  /\ SetUp(Archived(p), s)
         /\ Archived(p).enc = Bare(p.enc) /\ Archived(p).dec = Bare(p.dec)
PROOF
<1> DEFINE enc == Bare(p.enc)
           dec == Bare(p.dec)
           bts == p.BTSlotsEncoding
<1>1. Archived(p) = Entry(s, bts, enc, dec, <<>>, <<>>)
  <2>1. p = Entry(s, bts, p.enc, p.dec, p.U0Pre, p.U0hatTPre)
    BY SetUpIsEntry
  <2>2. Archived(p) = [p EXCEPT !.enc = enc, !.dec = dec, !.U0Pre = <<>>, !.U0hatTPre = <<>>]
    BY DEF Archived, Bare
  <2> DEFINE q == Entry(s, bts, p.enc, p.dec, p.U0Pre, p.U0hatTPre)
  <2> HIDE DEF enc, dec, bts
  <2>3. [q EXCEPT !.enc = enc, !.dec = dec, !.U0Pre = <<>>, !.U0hatTPre = <<>>]
          \in EntryOf(s, bts, enc, dec, <<>>, <<>>)
    BY DEF Entry, EntryOf
  <2> HIDE DEF q
  <2>4. Archived(p) \in EntryOf(s, bts, enc, dec, <<>>, <<>>)
    BY <2>1, <2>2, <2>3 DEF q
  <2> QED
    BY <2>4, EntryFrom
<1>2. ParamsFor(enc, s) /\ ParamsFor(dec, s) /\ (enc.lvlb = 1 => enc.g <= M4)
  BY BareParams, BareFacts DEF SetUp
<1>3. enc.layersCollapse = 0
  BY BareFacts
<1> HIDE DEF enc, dec, bts
<1>4. SetUp(Entry(s, bts, enc, dec, <<>>, <<>>), s)
  <2>1. Len(<<>>) \in {0, dec.lvlb} /\ Len(<<>>) \in {0, enc.lvlb}
    OBVIOUS
  <2>2. <<>> # <<>> \/ enc.layersCollapse > 0 => enc = FullOf(enc, s) /\ dec = FullOf(dec, s)
    BY <1>3
  <2> QED
    BY <1>2, <2>1, <2>2, EntryIsSetUp
<1>5. Archived(p).enc = enc /\ Archived(p).dec = dec
  BY <1>1 DEF Entry
<1> QED
  BY <1>1, <1>4, <1>5 DEF enc, dec

LEMMA EntriesUpdated ==
  ASSUME EntriesInv, NEW s \in SlotCounts, NEW p, SetUp(p, s),
         bootPrecom' = [bootPrecom EXCEPT ![s] = p]
  PROVE  EntriesInv'
BY DEF EntriesInv

LEMMA TypeInvNext ==
  ASSUME DimsFit, BudgetsFit, TypeInv, [Next]_vars
  PROVE  TypeInv'
PROOF
<1>1. /\ dataType \in DOMAIN Budgets /\ EntriesInv /\ KeysInv
      /\ evalKeys \subseteq 1..Conjugation /\ keyed \subseteq SlotCounts
      /\ keyed # {} => Conjugation \in evalKeys
  BY DEF TypeInv, KeysInv
<1>2. ASSUME NEW s \in SlotCounts, NEW levelBudget \in Budgets[dataType], NEW dim1 \in Dims,
             NEW precompute \in BOOLEAN, NEW bts \in BOOLEAN,
             EvalBootstrapSetup(s, levelBudget, dim1, precompute, bts)
      PROVE  TypeInv'
  <2>1. dataType' = dataType /\ evalKeys' = evalKeys /\ keyed' = keyed \ {s}
    BY <1>2 DEF EvalBootstrapSetup
  <2>2. EntriesInv'
    <3>1. PICK p : SetUp(p, s) /\ bootPrecom' = [bootPrecom EXCEPT ![s] = p]
      BY <1>2, SetupEntry
    <3> QED
      BY <1>1, <3>1, EntriesUpdated
  <2>3. KeysInv'
    BY <1>1, <2>1 DEF KeysInv
  <2> QED
    BY <1>1, <2>1, <2>2, <2>3 DEF TypeInv
<1>3. ASSUME NEW s \in SlotCounts, EvalBootstrapKeyGen(s)
      PROVE  TypeInv'
  <2> DEFINE p == bootPrecom[s]
             all == FindBootstrapRotationIndices(s, p.enc, p.dec)
  <2>1. /\ dataType' = dataType /\ bootPrecom' = bootPrecom /\ keyed' = keyed \cup {s}
        /\ evalKeys' = evalKeys \cup {Conjugation} \cup {AutomorphismIndex[i] : i \in all}
        /\ p # None
    BY <1>3 DEF EvalBootstrapKeyGen
  <2>2. SetUp(p, s)
    BY <1>1, <2>1 DEF EntriesInv
  <2>3. all \subseteq 1..M4 - 1
    BY <2>2, BootstrapIndicesIn DEF SetUp
  <2> HIDE DEF all
  <2>4. {AutomorphismIndex[i] : i \in all} \subseteq 1..Conjugation
    <3>1. \A i \in 1..M4 - 1 : i \in 0..M4 - 1
      OBVIOUS
    <3> QED
      BY <2>3, <3>1, AutomorphismsAre
  <2>5. Conjugation \in 1..Conjugation
    BY M4Assumption DEF Conjugation, CyclotomicOrder
  <2>6. EntriesInv'
    BY <1>1, <2>1 DEF EntriesInv
  <2>7. KeysInv'
    BY <1>1, <2>1, <2>4, <2>5 DEF KeysInv
  <2> QED
    BY <1>1, <2>1, <2>6, <2>7 DEF TypeInv
<1>4. ASSUME NEW s \in SlotCounts, EvalBootstrapPrecompute(s)
      PROVE  TypeInv'
  <2>1. dataType' = dataType /\ evalKeys' = evalKeys /\ keyed' = keyed
    BY <1>4 DEF EvalBootstrapPrecompute
  <2>2. EntriesInv'
    <3>1. PICK p : SetUp(p, s) /\ bootPrecom' = [bootPrecom EXCEPT ![s] = p]
      BY <1>4, PrecomputeEntry
    <3> QED
      BY <1>1, <3>1, EntriesUpdated
  <2>3. KeysInv'
    BY <1>1, <2>1 DEF KeysInv
  <2> QED
    BY <1>1, <2>1, <2>2, <2>3 DEF TypeInv
<1>5. CASE SaveAndLoad
  <2>1. /\ dataType' = dataType /\ evalKeys' = evalKeys /\ keyed' = keyed
        /\ bootPrecom' = [s \in SlotCounts |-> IF bootPrecom[s] = None THEN None ELSE Archived(bootPrecom[s])]
    BY <1>5 DEF SaveAndLoad
  <2>2. \A s \in SlotCounts : bootPrecom[s] # None => SetUp(Archived(bootPrecom[s]), s)
    BY <1>1, ArchivedEntry DEF EntriesInv
  <2>3. EntriesInv'
    BY <2>1, <2>2 DEF EntriesInv
  <2>4. KeysInv'
    BY <1>1, <2>1 DEF KeysInv
  <2> QED
    BY <1>1, <2>1, <2>3, <2>4 DEF TypeInv
<1>6. ASSUME NEW s \in SlotCounts, EvalBootstrap(s)
      PROVE  TypeInv'
  BY <1>1, <1>6 DEF EvalBootstrap, TypeInv, EntriesInv, KeysInv
<1>7. CASE UNCHANGED vars
  BY <1>1, <1>7 DEF vars, TypeInv, EntriesInv, KeysInv
<1> QED
  BY <1>2, <1>3, <1>4, <1>5, <1>6, <1>7 DEF Next

LEMMA TypeInvImplies == TypeInv => TypeOK
PROOF
<1> SUFFICES ASSUME TypeInv PROVE TypeOK
  OBVIOUS
<1>1. ASSUME NEW s \in SlotCounts, bootPrecom[s] # None
      PROVE  /\ bootPrecom[s].slots = s
             /\ Len(bootPrecom[s].U0Pre) \in {0, bootPrecom[s].dec.lvlb}
             /\ Len(bootPrecom[s].U0hatTPre) \in {0, bootPrecom[s].enc.lvlb}
  <2>1. SetUp(bootPrecom[s], s)
    BY <1>1 DEF TypeInv, EntriesInv
  <2>2. bootPrecom[s].slots = s
    BY <2>1, SetUpIsEntry
  <2> QED
    BY <2>1, <2>2 DEF SetUp
<1> QED
  BY <1>1 DEF TypeInv, KeysInv, TypeOK

(* The second invariant: what keys were generated for is what a refresh    *)
(* uses once the plaintexts are computed, here or after loading.           *)
LEMMA KeysKeptNext ==
  ASSUME DimsFit, BudgetsFit, ~LateKeys, TypeInv, KeysKept, [Next]_vars
  PROVE  KeysKept'
PROOF
<1>1. /\ EntriesInv /\ keyed \subseteq SlotCounts /\ DOMAIN bootPrecom = SlotCounts
      /\ \A s \in SlotCounts : bootPrecom[s] = None \/ SetUp(bootPrecom[s], s)
      /\ \A s \in keyed : bootPrecom[s] # None /\ KeysOf(bootPrecom[s], s) \subseteq evalKeys
  BY DEF TypeInv, KeysInv, EntriesInv, KeysKept
<1>2. ASSUME NEW s \in SlotCounts, NEW levelBudget \in Budgets[dataType], NEW dim1 \in Dims,
             NEW precompute \in BOOLEAN, NEW bts \in BOOLEAN,
             EvalBootstrapSetup(s, levelBudget, dim1, precompute, bts)
      PROVE  KeysKept'
  <2>1. evalKeys' = evalKeys /\ keyed' = keyed \ {s}
    BY <1>2 DEF EvalBootstrapSetup
  <2>2. \A t \in keyed' : bootPrecom'[t] = bootPrecom[t] /\ t \in keyed
    <3>1. PICK p : bootPrecom' = [bootPrecom EXCEPT ![s] = p]
      BY <1>2, SetupEntry
    <3> QED
      BY <1>1, <2>1, <3>1
  <2> QED
    BY <1>1, <2>1, <2>2 DEF KeysKept
<1>3. ASSUME NEW s \in SlotCounts, EvalBootstrapKeyGen(s)
      PROVE  KeysKept'
  <2> DEFINE p == bootPrecom[s]
             all == FindBootstrapRotationIndices(s, p.enc, p.dec)
  <2>1. /\ bootPrecom' = bootPrecom /\ keyed' = keyed \cup {s}
        /\ evalKeys' = evalKeys \cup {Conjugation} \cup {AutomorphismIndex[i] : i \in all}
        /\ p # None /\ p.enc.layersCollapse > 0
    BY <1>3 DEF EvalBootstrapKeyGen
  <2>2. p.enc = FullOf(p.enc, s) /\ p.dec = FullOf(p.dec, s)
    BY <1>1, <2>1 DEF SetUp
  <2>3. KeysOf(p, s) = {AutomorphismIndex[i] : i \in all} \cup {Conjugation}
    BY <2>2 DEF KeysOf
  <2> HIDE DEF all, p
  <2>4. KeysOf(p, s) \subseteq evalKeys'
    BY <2>1, <2>3
  <2>5. evalKeys \subseteq evalKeys'
    BY <2>1
  <2> QED
    BY <1>1, <2>1, <2>4, <2>5 DEF KeysKept, p
<1>4. ASSUME NEW s \in SlotCounts, EvalBootstrapPrecompute(s)
      PROVE  KeysKept'
  <2>1. evalKeys' = evalKeys /\ keyed' = keyed
    BY <1>4 DEF EvalBootstrapPrecompute
  <2>2. PICK p : /\ SetUp(p, s) /\ bootPrecom' = [bootPrecom EXCEPT ![s] = p]
                 /\ p.enc = FullOf(bootPrecom[s].enc, s) /\ p.dec = FullOf(bootPrecom[s].dec, s)
    BY <1>4, PrecomputeEntry
  <2>3. SetUp(bootPrecom[s], s)
    BY <1>4, PrecomputeEntry
  <2>4. KeysOf(p, s) = KeysOf(bootPrecom[s], s)
    <3>1. FullOf(p.enc, s) = FullOf(bootPrecom[s].enc, s) /\ FullOf(p.dec, s) = FullOf(bootPrecom[s].dec, s)
      BY <2>2, <2>3, FullFacts DEF SetUp
    <3> QED
      BY <3>1 DEF KeysOf
  <2>5. p # None
    BY <2>2, NoneIsNot
  <2>6. ASSUME NEW t \in keyed
        PROVE  bootPrecom'[t] # None /\ KeysOf(bootPrecom'[t], t) \subseteq evalKeys
    <3>1. CASE t = s
      BY <1>1, <2>2, <2>4, <2>5, <2>6, <3>1
    <3>2. CASE t # s
      BY <1>1, <2>2, <2>6, <3>2
    <3> QED
      BY <3>1, <3>2
  <2> QED
    BY <2>1, <2>6 DEF KeysKept
<1>5. CASE SaveAndLoad
  <2>1. /\ evalKeys' = evalKeys /\ keyed' = keyed
        /\ bootPrecom' = [s \in SlotCounts |-> IF bootPrecom[s] = None THEN None ELSE Archived(bootPrecom[s])]
    BY <1>5 DEF SaveAndLoad
  <2>2. ASSUME NEW t \in keyed
        PROVE  bootPrecom'[t] # None /\ KeysOf(bootPrecom'[t], t) \subseteq evalKeys
    <3> DEFINE p == bootPrecom[t]
    <3>1. t \in SlotCounts /\ p # None /\ SetUp(p, t) /\ KeysOf(p, t) \subseteq evalKeys
      BY <1>1, <2>2
    <3>2. bootPrecom'[t] = Archived(p)
      BY <2>1, <3>1
    <3> HIDE DEF p
    <3>3. SetUp(Archived(p), t) /\ Archived(p).enc = Bare(p.enc) /\ Archived(p).dec = Bare(p.dec)
      BY <3>1, ArchivedEntry
    <3>4. Archived(p) # None
      BY <3>1, <3>3, NoneIsNot
    <3>5. FullOf(Archived(p).enc, t) = FullOf(p.enc, t) /\ FullOf(Archived(p).dec, t) = FullOf(p.dec, t)
      BY <3>3, BareFacts
    <3>6. KeysOf(Archived(p), t) = KeysOf(p, t)
      BY <3>5 DEF KeysOf
    <3> QED
      BY <3>1, <3>2, <3>4, <3>6
  <2> QED
    BY <2>1, <2>2 DEF KeysKept
<1>6. ASSUME NEW s \in SlotCounts, EvalBootstrap(s)
      PROVE  KeysKept'
  BY <1>1, <1>6 DEF EvalBootstrap, KeysKept
<1>7. CASE UNCHANGED vars
  BY <1>1, <1>7 DEF vars, KeysKept
<1> QED
  BY <1>2, <1>3, <1>4, <1>5, <1>6, <1>7 DEF Next

(* A refresh finds the keys it asks for.                                   *)
LEMMA RefreshFindsKeys ==
  ASSUME TypeInv, KeysKept, NEW s \in SlotCounts, EvalBootstrap(s)
  PROVE  AutomorphismsUsed(bootPrecom[s]) \subseteq evalKeys
PROOF
<1> DEFINE p == bootPrecom[s]
<1>1. s \in keyed /\ p.U0Pre # <<>> /\ p # None
  BY DEF EvalBootstrap
<1>2. SetUp(p, s) /\ KeysOf(p, s) \subseteq evalKeys
  BY <1>1 DEF TypeInv, EntriesInv, KeysKept
<1>3. p.enc = FullOf(p.enc, s) /\ p.dec = FullOf(p.dec, s)
  BY <1>1, <1>2 DEF SetUp
<1>4. KeysOf(p, s) = {AutomorphismIndex[i] : i \in FindBootstrapRotationIndices(s, p.enc, p.dec)}
                     \cup {Conjugation}
  BY <1>3 DEF KeysOf
<1>5. p.slots = s
  BY <1>2, SetUpIsEntry
<1>6. Laid(p.enc, s) /\ Laid(p.dec, s) /\ (p.enc.lvlb = 1 => p.enc.g <= M4)
  BY <1>2, <1>3 DEF SetUp, ParamsFor
<1> HIDE DEF p
<1>7. RotationsUsed(p) \subseteq FindBootstrapRotationIndices(s, p.enc, p.dec)
  BY <1>5, <1>6, UsedHaveKeys
<1>8. AutomorphismsUsed(p) \subseteq KeysOf(p, s)
  BY <1>4, <1>7 DEF AutomorphismsUsed
<1> QED
  BY <1>2, <1>8 DEF p

LEMMA RotationKeysCoverNext ==
  ASSUME TypeInv, KeysKept, RotationKeysCover, [Next]_vars
  PROVE  RotationKeysCover'
PROOF
<1>1. ASSUME NEW s \in SlotCounts, EvalBootstrap(s)
      PROVE  RotationKeysCover'
  <2>1. AutomorphismsUsed(bootPrecom[s]) \subseteq evalKeys
    BY <1>1, RefreshFindsKeys
  <2>2. PICK outcome \in {"refreshed", "message lost"} : result' = [slots |-> s, outcome |-> outcome]
    BY <1>1, <2>1 DEF EvalBootstrap
  <2> QED
    BY <2>2 DEF RotationKeysCover
<1>2. ASSUME UNCHANGED result
      PROVE  RotationKeysCover'
  BY <1>2 DEF RotationKeysCover
<1>3. ASSUME Next, ~(\E s \in SlotCounts : EvalBootstrap(s))
      PROVE  UNCHANGED result
  BY <1>3 DEF Next, EvalBootstrapSetup, EvalBootstrapKeyGen, EvalBootstrapPrecompute, SaveAndLoad
<1> QED
  BY <1>1, <1>2, <1>3 DEF vars

-----------------------------------------------------------------------------
(* m_bootPrecomMap holds set-ups under their number of slots, with         *)
(* plaintexts for each level of both transforms or for none, and keys are  *)
(* of automorphisms of the ring and come with one for conjugation          *)
(* (EvalBootstrapSetup, EvalBootstrapPrecompute, EvalBootstrapKeyGen).     *)
THEOREM TypeCorrect ==
  ASSUME DimsFit, BudgetsFit
  PROVE  Spec => []TypeOK
PROOF
<1>1. Init => TypeInv
  BY TypeInvInit
<1>2. TypeInv /\ [Next]_vars => TypeInv'
  BY TypeInvNext
<1>3. TypeInv => TypeOK
  BY TypeInvImplies
<1> QED
  BY <1>1, <1>2, <1>3, PTL DEF Spec

(* Every rotation a refresh asks for has a key: what                       *)
(* FindBootstrapRotationIndices lists at key generation covers what the    *)
(* transforms and the sums over copies use, for every number of slots,     *)
(* level budgets and baby steps, set up here or loaded and precomputed     *)
(* again, provided that no keys are generated between loading and          *)
(* precomputation.                                                         *)
THEOREM KeysCover ==
  ASSUME DimsFit, BudgetsFit, ~LateKeys
  PROVE  Spec => []RotationKeysCover
PROOF
<1> DEFINE Inv == TypeInv /\ KeysKept /\ RotationKeysCover
<1>1. Init => Inv
  BY TypeInvInit DEF Init, RotationKeysCover
<1>2. Inv /\ [Next]_vars => Inv'
  BY TypeInvNext, KeysKeptNext, RotationKeysCoverNext
<1>3. Inv => RotationKeysCover
  OBVIOUS
<1> QED
  BY <1>1, <1>2, <1>3, PTL DEF Spec

=============================================================================
