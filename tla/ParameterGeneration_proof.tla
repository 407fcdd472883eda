--------------------- MODULE ParameterGeneration_proof ---------------------
(***************************************************************************)
(* Proofs about ParameterGeneration, for any requests of any sizes: the    *)
(* ring dimension of the estimate also holds the moduli that are selected, *)
(* a call is compared with an estimate of its own, and where every modulus *)
(* is searched downward the estimate of P is exact.                        *)
(***************************************************************************)
EXTENDS ParameterGeneration, FiniteSetTheorems, WellFoundedInduction, SequenceTheorems, TLAPS

-----------------------------------------------------------------------------
(* Induction over the natural numbers, for sets.                           *)

(* A non-empty set of natural numbers has a least element.                  *)
LEMMA LeastExists ==
  ASSUME NEW S \in SUBSET Nat, S # {}
  PROVE  \E x \in S : \A y \in S : x <= y
PROOF
<1> DEFINE T == {0 .. n : n \in S}
<1>1. \A n \in Nat : 0 .. n \in SUBSET Nat /\ IsFiniteSet(0 .. n)
  BY FS_Interval
<1>2. T \subseteq FiniteSubsetsOf(Nat) /\ T # {}
  BY <1>1 DEF FiniteSubsetsOf
<1>3. PICK X \in T : \A Y \in T : <<Y, X>> \notin StrictSubsetOrdering(Nat)
  <2> HIDE DEF T
  <2> QED
    BY <1>2, FS_StrictSubsetOrderingWellFounded, WFMin
<1>4. PICK x \in S : X = 0 .. x
  BY <1>3
<1>5. ASSUME NEW y \in S, y < x
      PROVE  FALSE
  <2>1. x \in 0 .. x /\ x \notin 0 .. y /\ 0 .. y \subseteq 0 .. x
    BY <1>5
  <2>2. <<0 .. y, 0 .. x>> \in (SUBSET Nat) \X (SUBSET Nat)
    BY <1>1
  <2>3. <<0 .. y, 0 .. x>> \in StrictSubsetOrdering(Nat)
    BY <2>1, <2>2 DEF StrictSubsetOrdering
  <2> QED
    BY <1>3, <1>4, <2>3
<1> QED
  BY <1>5

(* A set that holds 0, and with a number its successor, up to a bound.      *)
LEMMA BoundedInduction ==
  ASSUME NEW Members, NEW top \in Nat, 0 \in Members, \A n \in 0 .. top - 1 : n \in Members => n + 1 \in Members
  PROVE  \A n \in 0 .. top : n \in Members
PROOF
<1> DEFINE Missing == {n \in 0 .. top : n \notin Members}
<1>1. SUFFICES ASSUME Missing # {} PROVE FALSE
  OBVIOUS
<1>2. Missing \in SUBSET Nat
  OBVIOUS
<1>3. PICK x \in Missing : \A y \in Missing : x <= y
  <2> HIDE DEF Missing
  <2> QED
    BY <1>1, <1>2, LeastExists
<1>4. x - 1 \in 0 .. top - 1 /\ x - 1 \in Members /\ x - 1 + 1 = x
  BY <1>3
<1> QED
  BY <1>3, <1>4

(* Recursion up to a bound: F[k] makes the k-th value, in S, of the one    *)
(* before, and there is a function of these values.                        *)
RecursionSteps(S, top) == [1 .. top -> [S -> S]]
IsRecursion(f, S, a, F, top) ==
  /\ f \in [0 .. top -> S]
  /\ f[0] = a
  /\ \A k \in 1 .. top : f[k] = F[k][f[k - 1]]

LEMMA RecursionExists ==
  ASSUME NEW S, NEW a \in S, NEW top \in Nat, NEW F \in RecursionSteps(S, top)
  PROVE  \E f : IsRecursion(f, S, a, F, top)
PROOF
<1> USE DEF RecursionSteps
<1> DEFINE Is(f, n) == f = [k \in 0 .. n |-> IF k = 0 THEN a ELSE F[k][f[k - 1]]]
           Members == {n \in 0 .. top : \E f \in [0 .. n -> S] : Is(f, n)}
<1>1. 0 \in Members
  <2> DEFINE f == [k \in 0 .. 0 |-> a]
  <2>1. f \in [0 .. 0 -> S]
    OBVIOUS
  <2>2. Is(f, 0)
    OBVIOUS
  <2>3. 0 \in 0 .. top
    OBVIOUS
  <2> HIDE DEF f
  <2> QED
    BY <2>1, <2>2, <2>3
<1>2. ASSUME NEW n \in 0 .. top - 1, n \in Members
      PROVE  n + 1 \in Members
  <2>1. PICK f \in [0 .. n -> S] : Is(f, n)
    BY <1>2
  <2> DEFINE h == [k \in 0 .. n + 1 |-> IF k = 0 THEN a ELSE F[k][f[k - 1]]]
  <2>2. \A k \in 0 .. n : h[k] = f[k]
    <3>1. \A k \in 0 .. n : f[k] = IF k = 0 THEN a ELSE F[k][f[k - 1]]
      BY <2>1
    <3>2. \A k \in 0 .. n : k \in 0 .. n + 1
      OBVIOUS
    <3> HIDE DEF Is, Members
    <3> QED
      BY <3>1, <3>2
  <2>3. \A k \in 0 .. n + 1 : h[k] \in S
    <3>1. \A k \in 0 .. n + 1 : k # 0 => k - 1 \in 0 .. n /\ k \in 1 .. top
      OBVIOUS
    <3>2. \A k \in 1 .. top, v \in S : F[k][v] \in S
      OBVIOUS
    <3> HIDE DEF Is, Members
    <3> QED
      BY <3>1, <3>2
  <2> HIDE DEF h
  <2>4. \A k \in 0 .. n + 1 : k # 0 => f[k - 1] = h[k - 1]
    BY <2>2
  <2>5. Is(h, n + 1)
    BY <2>4 DEF h
  <2>6. h \in [0 .. n + 1 -> S]
    BY <2>3, <2>5
  <2>7. n + 1 \in 0 .. top
    OBVIOUS
  <2> QED
    BY <2>5, <2>6, <2>7
<1>3. \A n \in 0 .. top : n \in Members
  <2> HIDE DEF Members
  <2> QED
    BY <1>1, <1>2, BoundedInduction, Zenon
<1>4. PICK f \in [0 .. top -> S] : Is(f, top)
  BY <1>3
<1>5. f[0] = a /\ \A k \in 1 .. top : f[k] = F[k][f[k - 1]]
  BY <1>4
<1> QED
  BY <1>5 DEF IsRecursion

(* Quotient and remainder.                                                 *)
LEMMA Division ==
  ASSUME NEW a \in Int, NEW b \in Nat \ {0}
  PROVE  \E k \in Int, r \in 0 .. b - 1 : a = b * k + r /\ k = a \div b /\ r = a % b
OBVIOUS

-----------------------------------------------------------------------------
(* Sums.  Sums(b, n) holds the running totals Sum is defined by.           *)
Sums(b, n) ==
  CHOOSE f : f = [k \in 0 .. n |-> IF k = 0 THEN 0 ELSE f[k - 1] + b[k]]

LEMMA SumsFacts ==
  ASSUME NEW n \in Nat, NEW b \in [1 .. n -> Nat]
  PROVE  /\ Sums(b, n) \in [0 .. n -> Nat]
         /\ Sums(b, n)[0] = 0
         /\ \A k \in 1 .. n : Sums(b, n)[k] = Sums(b, n)[k - 1] + b[k]
PROOF
<1> DEFINE Is(f) == f = [k \in 0 .. n |-> IF k = 0 THEN 0 ELSE f[k - 1] + b[k]]
           F == [k \in 1 .. n |-> [v \in Nat |-> v + b[k]]]
<1>1. 0 \in Nat /\ F \in RecursionSteps(Nat, n)
  BY DEF RecursionSteps
<1>2. PICK f : IsRecursion(f, Nat, 0, F, n)
  <2> HIDE DEF F
  <2> QED
    BY <1>1, RecursionExists, Zenon
<1>3. f \in [0 .. n -> Nat] /\ f[0] = 0 /\ \A k \in 1 .. n : f[k] = f[k - 1] + b[k]
  <2>1. f \in [0 .. n -> Nat] /\ f[0] = 0 /\ \A k \in 1 .. n : f[k] = F[k][f[k - 1]]
    <3> HIDE DEF F, Is
    <3> QED
      BY <1>2 DEF IsRecursion
  <2>2. \A k \in 1 .. n : f[k - 1] \in Nat
    BY <2>1
  <2> QED
    BY <2>1, <2>2
<1>4. Is(f)
  <2>1. f = [k \in 0 .. n |-> f[k]]
    BY <1>3
  <2>2. \A k \in 0 .. n : f[k] = IF k = 0 THEN 0 ELSE f[k - 1] + b[k]
    <3> HIDE DEF F, Is
    <3> QED
      BY <1>3
  <2> QED
    BY <2>1, <2>2
<1> DEFINE p == Sums(b, n)
<1>5. Is(p)
  BY <1>4 DEF Sums
<1>6. p[0] = 0 /\ \A k \in 1 .. n : p[k] = p[k - 1] + b[k]
  <2> HIDE DEF p
  <2> QED
    BY <1>5
<1>7. \A k \in 0 .. n : p[k] \in Nat
  <2> DEFINE P == {k \in 0 .. n : p[k] \in Nat}
  <2> HIDE DEF p, Is, F
  <2>1. 0 \in P
    BY <1>6
  <2>2. ASSUME NEW k \in 0 .. n - 1, k \in P
        PROVE  k + 1 \in P
    <3>1. k + 1 \in 1 .. n /\ k + 1 - 1 = k /\ k + 1 \in 0 .. n /\ p[k] \in Nat
      BY <2>2
    <3>2. p[k + 1] = p[k] + b[k + 1] /\ b[k + 1] \in Nat
      BY <1>6, <3>1
    <3> QED
      BY <3>1, <3>2
  <2> HIDE DEF P
  <2>3. \A k \in 0 .. n : k \in P
    BY <2>1, <2>2, BoundedInduction, Zenon
  <2> QED
    BY <2>3 DEF P
<1>8. p = [k \in 0 .. n |-> p[k]]
  <2> HIDE DEF p
  <2> QED
    BY <1>5
<1> QED
  BY <1>6, <1>7, <1>8

LEMMA SumSums ==
  ASSUME NEW n \in Nat, NEW b \in [1 .. n -> Nat]
  PROVE  Len(b) = n /\ Sum(b) = Sums(b, n)[n] /\ Sum(b) \in Nat
PROOF
<1>1. Len(b) = n
  OBVIOUS
<1>2. Sum(b) = Sums(b, Len(b))[Len(b)]
  BY DEF Sum, Sums
<1> QED
  BY <1>1, <1>2, SumsFacts

LEMMA SumIn ==
  ASSUME NEW n \in Nat, NEW b \in [1 .. n -> Nat]
  PROVE  Sum(b) \in Nat
BY SumSums

(* A running total that starts at 0 is the sum.                            *)
LEMMA SumIs ==
  ASSUME NEW n \in Nat, NEW b \in [1 .. n -> Nat], NEW g,
         g[0] = 0, \A k \in 1 .. n : g[k] = g[k - 1] + b[k]
  PROVE  Sum(b) = g[n]
PROOF
<1> DEFINE p == Sums(b, n)
           P == {k \in 0 .. n : p[k] = g[k]}
<1>1. p \in [0 .. n -> Nat] /\ p[0] = 0 /\ \A k \in 1 .. n : p[k] = p[k - 1] + b[k]
  BY SumsFacts
<1>2. Sum(b) = p[n]
  BY SumSums
<1> HIDE DEF p
<1>3. 0 \in P
  BY <1>1
<1>4. ASSUME NEW k \in 0 .. n - 1, k \in P
      PROVE  k + 1 \in P
  <2>1. k + 1 \in 1 .. n /\ k + 1 - 1 = k /\ k + 1 \in 0 .. n /\ p[k] = g[k]
    BY <1>4
  <2>2. p[k + 1] = p[k] + b[k + 1] /\ g[k + 1] = g[k] + b[k + 1]
    BY <1>1, <2>1
  <2> QED
    BY <2>1, <2>2
<1> HIDE DEF P
<1>5. \A k \in 0 .. n : k \in P
  BY <1>3, <1>4, BoundedInduction, Zenon
<1> QED
  BY <1>2, <1>5 DEF P

LEMMA SumFirstRest ==
  ASSUME NEW n \in Nat \ {0}, NEW a \in Nat, NEW c \in Nat
  PROVE  Sum([i \in 1 .. n |-> IF i = 1 THEN a ELSE c]) = a + c * (n - 1)
PROOF
<1> DEFINE b == [i \in 1 .. n |-> IF i = 1 THEN a ELSE c]
           g == [k \in 0 .. n |-> IF k = 0 THEN 0 ELSE a + c * (k - 1)]
<1>1. n \in Nat /\ b \in [1 .. n -> Nat]
  OBVIOUS
<1>2. \A k \in 1 .. n : b[k] = IF k = 1 THEN a ELSE c
  OBVIOUS
<1>3. \A k \in 0 .. n : g[k] = IF k = 0 THEN 0 ELSE a + c * (k - 1)
  OBVIOUS
<1>4. \A k \in 1 .. n : g[k] = g[k - 1] + b[k]
  <2> SUFFICES ASSUME NEW k \in 1 .. n PROVE g[k] = g[k - 1] + b[k]
    OBVIOUS
  <2>1. k \in 0 .. n /\ k - 1 \in 0 .. n /\ k # 0
    OBVIOUS
  <2>2. g[k] = a + c * (k - 1) /\ b[k] = (IF k = 1 THEN a ELSE c)
        /\ g[k - 1] = IF k = 1 THEN 0 ELSE a + c * (k - 2)
    <3> HIDE DEF g, b
    <3> QED
      BY <1>2, <1>3, <2>1
  <2> HIDE DEF g, b
  <2>3. c * (k - 1) = c * (k - 2) + c /\ (k = 1 => c * (k - 1) = 0) /\ c * (k - 1) \in Int /\ c * (k - 2) \in Int
    OBVIOUS
  <2> QED
    BY <2>2, <2>3
<1>5. g[0] = 0 /\ g[n] = a + c * (n - 1)
  OBVIOUS
<1> HIDE DEF b, g
<1>6. Sum(b) = g[n]
  BY <1>1, <1>4, <1>5, SumIs
<1> QED
  BY <1>5, <1>6 DEF b

(* Functions with the same values; r is s followed by t.                    *)
LEMMA FunEqual ==
  ASSUME NEW D, NEW S, NEW f \in [D -> S], NEW g \in [D -> S], \A x \in D : f[x] = g[x]
  PROVE  f = g
OBVIOUS

IsJoin(r, s, t, n, m, S) ==
  /\ r \in [1 .. n + m -> S]
  /\ \A i \in 1 .. n + m : r[i] = IF i <= n THEN s[i] ELSE t[i - n]

LEMMA Joins ==
  ASSUME NEW S, NEW n \in Nat, NEW m \in Nat, NEW s \in [1 .. n -> S], NEW t \in [1 .. m -> S]
  PROVE  IsJoin(s \o t, s, t, n, m, S)
PROOF
<1>1. s \in Seq(S) /\ t \in Seq(S) /\ Len(s) = n /\ Len(t) = m
  OBVIOUS
<1>2. /\ s \o t \in Seq(S) /\ Len(s \o t) = n + m
      /\ \A i \in 1 .. n + m : (s \o t)[i] = IF i <= n THEN s[i] ELSE t[i - n]
  BY <1>1, ConcatProperties
<1>3. s \o t \in [1 .. n + m -> S]
  BY <1>2, LenProperties
<1> QED
  BY <1>2, <1>3 DEF IsJoin

LEMMA SumConcat ==
  ASSUME NEW n \in Nat, NEW m \in Nat, NEW b \in [1 .. n -> Nat], NEW c \in [1 .. m -> Nat]
  PROVE  Sum(b \o c) = Sum(b) + Sum(c)
PROOF
<1>1. /\ b \o c \in [1 .. n + m -> Nat]
      /\ \A i \in 1 .. n + m : (b \o c)[i] = IF i <= n THEN b[i] ELSE c[i - n]
  <2>1. IsJoin(b \o c, b, c, n, m, Nat)
    BY Joins
  <2> QED
    BY <2>1 DEF IsJoin
<1> DEFINE d == b \o c
           f == Sums(b, n)
           h == Sums(c, m)
           g == [k \in 0 .. n + m |-> IF k <= n THEN f[k] ELSE f[n] + h[k - n]]
<1>2. f \in [0 .. n -> Nat] /\ f[0] = 0 /\ \A k \in 1 .. n : f[k] = f[k - 1] + b[k]
  BY SumsFacts
<1>3. h \in [0 .. m -> Nat] /\ h[0] = 0 /\ \A k \in 1 .. m : h[k] = h[k - 1] + c[k]
  BY SumsFacts
<1>4. Sum(b) = f[n] /\ Sum(c) = h[m]
  BY SumSums
<1>5. d \in [1 .. n + m -> Nat] /\ \A i \in 1 .. n + m : d[i] = IF i <= n THEN b[i] ELSE c[i - n]
  BY <1>1
<1> HIDE DEF d, f, h
<1>6. \A k \in 0 .. n + m : g[k] = IF k <= n THEN f[k] ELSE f[n] + h[k - n]
  OBVIOUS
<1> HIDE DEF g
<1>7. g[0] = 0 /\ g[n + m] = f[n] + h[m]
  <2>1. 0 \in 0 .. n + m /\ n + m \in 0 .. n + m
    OBVIOUS
  <2>2. CASE m = 0
    <3>1. n + m <= n /\ n + m = n /\ h[m] = 0 /\ f[n] \in Nat /\ 0 <= n
      BY <1>2, <1>3, <2>2
    <3> QED
      BY <1>2, <1>6, <2>1, <3>1
  <2>3. CASE m # 0
    <3>1. ~ (n + m <= n) /\ n + m - n = m /\ 0 <= n
      BY <2>3
    <3> QED
      BY <1>2, <1>6, <2>1, <3>1
  <2> QED
    BY <2>2, <2>3
<1>8. ASSUME NEW k \in 1 .. n + m PROVE g[k] = g[k - 1] + d[k]
  <2>1. k \in 0 .. n + m /\ k - 1 \in 0 .. n + m
    OBVIOUS
  <2>2. CASE k <= n
    <3>1. k \in 1 .. n /\ k - 1 <= n
      BY <2>2
    <3> QED
      BY <1>2, <1>5, <1>6, <2>1, <3>1
  <2>3. CASE k > n
    <3>1. k - n \in 1 .. m /\ ~ (k <= n) /\ (k - n) - 1 \in 0 .. m /\ k - n \in 0 .. m
      BY <2>3
    <3>2. h[k - n] = h[(k - n) - 1] + c[k - n] /\ h[(k - n) - 1] \in Nat /\ f[n] \in Nat /\ c[k - n] \in Nat
      BY <1>2, <1>3, <3>1
    <3>3. g[k - 1] = f[n] + h[(k - n) - 1]
      <4>1. CASE k - 1 <= n
        <5>1. k - 1 = n /\ (k - n) - 1 = 0
          BY <2>3, <4>1
        <5> QED
          BY <1>2, <1>3, <1>6, <2>1, <5>1
      <4>2. CASE ~ (k - 1 <= n)
        <5>1. (k - 1) - n = (k - n) - 1
          OBVIOUS
        <5> QED
          BY <1>6, <2>1, <4>2, <5>1
      <4> QED
        BY <4>1, <4>2
    <3>4. g[k] = f[n] + h[k - n] /\ d[k] = c[k - n]
      BY <1>5, <1>6, <2>1, <3>1
    <3> QED
      BY <3>2, <3>3, <3>4
  <2> QED
    BY <2>2, <2>3
<1>9. n + m \in Nat
  OBVIOUS
<1>10. Sum(d) = g[n + m]
  <2> DEFINE s == n + m
  <2>1. s \in Nat /\ d \in [1 .. s -> Nat] /\ g[0] = 0 /\ \A k \in 1 .. s : g[k] = g[k - 1] + d[k]
    BY <1>5, <1>7, <1>8, <1>9
  <2> HIDE DEF s
  <2>2. Sum(d) = g[s]
    BY <2>1, SumIs
  <2> QED
    BY <2>2 DEF s
<1> QED
  BY <1>1, <1>4, <1>7, <1>10 DEF d

(* A sum of sizes is at least the first.                                   *)
LEMMA SumAtLeast ==
  ASSUME NEW n \in Nat \ {0}, NEW b \in [1 .. n -> Nat]
  PROVE  Sum(b) >= b[1]
PROOF
<1> DEFINE p == Sums(b, n)
           P == {k \in 0 .. n : k = 0 \/ p[k] >= b[1]}
<1>1. p \in [0 .. n -> Nat] /\ p[0] = 0 /\ \A k \in 1 .. n : p[k] = p[k - 1] + b[k]
  BY SumsFacts
<1>2. Sum(b) = p[n]
  BY SumSums
<1> HIDE DEF p
<1>3. 0 \in P
  OBVIOUS
<1>4. ASSUME NEW k \in 0 .. n - 1, k \in P
      PROVE  k + 1 \in P
  <2>1. k + 1 \in 1 .. n /\ k + 1 - 1 = k /\ k + 1 \in 0 .. n /\ k \in 0 .. n /\ 1 \in 1 .. n
    OBVIOUS
  <2>4. k = 0 \/ p[k] >= b[1]
    BY <1>4
  <2>2. p[k + 1] = p[k] + b[k + 1] /\ p[k] \in Nat /\ b[k + 1] \in Nat /\ b[1] \in Nat
    BY <1>1, <2>1
  <2>3. k = 0 => p[k] = 0 /\ b[k + 1] = b[1]
    BY <1>1
  <2> QED
    BY <2>1, <2>2, <2>3, <2>4
<1> HIDE DEF P
<1>5. \A k \in 0 .. n : k \in P
  <2>1. n \in Nat
    OBVIOUS
  <2> QED
    BY <1>3, <1>4, <2>1, BoundedInduction, Zenon
<1> QED
  BY <1>2, <1>5 DEF P

-----------------------------------------------------------------------------
(* Sequences of moduli. *)
ModulusType == [bits : Nat, side : {"below", "above", "either"}]
Bits(m) == [i \in DOMAIN m |-> m[i].bits]

LEMMA BitsFacts ==
  ASSUME NEW n \in Nat, NEW m \in [1 .. n -> ModulusType]
  PROVE  /\ Bits(m) \in [1 .. n -> Nat] /\ Len(m) = n
         /\ \A i \in 1 .. n : Bits(m)[i] = m[i].bits
BY DEF Bits, ModulusType

LEMMA BitsConcat ==
  ASSUME NEW n \in Nat, NEW k \in Nat, NEW m \in [1 .. n -> ModulusType], NEW e \in [1 .. k -> ModulusType]
  PROVE  Bits(m \o e) = Bits(m) \o Bits(e)
PROOF
<1> DEFINE l == n + k
           me == m \o e
           bm == Bits(m)
           bf == Bits(e)
           bme == Bits(me)
           be == bm \o bf
<1>1. l \in Nat /\ IsJoin(me, m, e, n, k, ModulusType)
  BY Joins
<1>2. bm \in [1 .. n -> Nat] /\ \A i \in 1 .. n : bm[i] = m[i].bits
  BY BitsFacts
<1>3. bf \in [1 .. k -> Nat] /\ \A i \in 1 .. k : bf[i] = e[i].bits
  BY BitsFacts
<1> HIDE DEF bm, bf, me
<1>4. IsJoin(be, bm, bf, n, k, Nat)
  BY <1>2, <1>3, Joins
<1> HIDE DEF be
<1>5. me \in [1 .. l -> ModulusType] /\ be \in [1 .. l -> Nat]
  BY <1>1, <1>4 DEF IsJoin
<1>6. bme \in [1 .. l -> Nat] /\ \A i \in 1 .. l : bme[i] = me[i].bits
  <2> HIDE DEF l
  <2> QED
    BY <1>1, <1>5, BitsFacts
<1> HIDE DEF bme
<1>7. ASSUME NEW i \in 1 .. l PROVE bme[i] = be[i]
  <2>1. me[i] = (IF i <= n THEN m[i] ELSE e[i - n]) /\ be[i] = IF i <= n THEN bm[i] ELSE bf[i - n]
    BY <1>1, <1>4 DEF IsJoin
  <2>2. (i <= n => i \in 1 .. n) /\ (~ (i <= n) => i - n \in 1 .. k)
    OBVIOUS
  <2> HIDE DEF l
  <2> QED
    BY <1>2, <1>3, <1>6, <2>1, <2>2
<1>8. bme = be
  <2> HIDE DEF l
  <2>1. bme = [i \in 1 .. l |-> bme[i]] /\ be = [i \in 1 .. l |-> be[i]]
    BY <1>5, <1>6
  <2>2. \A i \in 1 .. l : bme[i] = be[i]
    BY <1>7
  <2> QED
    BY <2>1, <2>2
<1> QED
  BY <1>8 DEF bme, be, bm, bf, me

LEMMA RepeatFacts ==
  ASSUME NEW k \in Nat, NEW S, NEW x \in S
  PROVE  /\ Repeat(x, k) \in [1 .. k -> S] /\ Len(Repeat(x, k)) = k
         /\ \A i \in 1 .. k : Repeat(x, k)[i] = x
BY DEF Repeat

LEMMA RepeatSum ==
  ASSUME NEW k \in Nat, NEW c \in Nat
  PROVE  Repeat(c, k) \in [1 .. k -> Nat] /\ Sum(Repeat(c, k)) = c * k
PROOF
<1> DEFINE b == Repeat(c, k)
           g == [i \in 0 .. k |-> c * i]
<1>1. b \in [1 .. k -> Nat] /\ \A i \in 1 .. k : b[i] = c
  BY RepeatFacts
<1>2. \A i \in 0 .. k : g[i] = c * i
  OBVIOUS
<1>3. 0 \in 0 .. k /\ k \in 0 .. k /\ c * 0 = 0
  OBVIOUS
<1> HIDE DEF b, g
<1>4. ASSUME NEW i \in 1 .. k PROVE g[i] = g[i - 1] + b[i]
  <2>1. i \in 0 .. k /\ i - 1 \in 0 .. k /\ c * i = c * (i - 1) + c
    OBVIOUS
  <2> QED
    BY <1>1, <1>2, <2>1
<1>5. Sum(b) = g[k]
  <2>1. g[0] = 0 /\ \A i \in 1 .. k : g[i] = g[i - 1] + b[i]
    BY <1>2, <1>3, <1>4
  <2> QED
    BY <1>1, <2>1, SumIs
<1> QED
  BY <1>1, <1>2, <1>3, <1>5 DEF b

LEMMA RepeatBits ==
  ASSUME NEW k \in Nat, NEW b \in Nat, NEW side \in {"below", "above", "either"}
  PROVE  /\ Repeat(Modulus(b, side), k) \in [1 .. k -> ModulusType]
         /\ Bits(Repeat(Modulus(b, side), k)) = Repeat(b, k)
BY DEF Repeat, Modulus, Bits, ModulusType

IsAfterFirst(r, s, e, n, k, S) ==
  /\ r \in [1 .. n + k -> S]
  /\ \A i \in 1 .. n + k : r[i] = IF i = 1 THEN s[1] ELSE IF i <= k + 1 THEN e[i - 1] ELSE s[i - k]

HasParts(s, n, S) ==
  /\ Head(s) = s[1] /\ s[1] \in S
  /\ Tail(s) \in [1 .. n - 1 -> S] /\ \A i \in 1 .. n - 1 : Tail(s)[i] = s[i + 1]

LEMMA AfterFirstParts ==
  ASSUME NEW S, NEW n \in Nat \ {0}, NEW s \in [1 .. n -> S]
  PROVE  HasParts(s, n, S)
PROOF
<1>1. s \in Seq(S) /\ Len(s) = n /\ s # <<>> /\ Head(s) = s[1] /\ s[1] \in S
  OBVIOUS
<1>2. Tail(s) \in Seq(S) /\ Len(Tail(s)) = n - 1 /\ \A i \in 1 .. Len(Tail(s)) : Tail(s)[i] = s[i + 1]
  BY <1>1, HeadTailProperties
<1>3. Tail(s) \in [1 .. n - 1 -> S]
  BY <1>2, LenProperties
<1> QED
  BY <1>1, <1>2, <1>3 DEF HasParts

LEMMA AfterFirstFacts ==
  ASSUME NEW S, NEW n \in Nat \ {0}, NEW k \in Nat, NEW s \in [1 .. n -> S], NEW e \in [1 .. k -> S]
  PROVE  IsAfterFirst(AfterFirst(s, e), s, e, n, k, S)
PROOF
<1> DEFINE h == Head(s)
           t == Tail(s)
           o == <<h>>
           he == o \o e
           r == he \o t
           j == 1 + k
           l == n - 1
<1>1. h = s[1] /\ h \in S /\ t \in [1 .. l -> S] /\ \A i \in 1 .. l : t[i] = s[i + 1]
  BY AfterFirstParts DEF HasParts
<1>2. AfterFirst(s, e) = r
  BY DEF AfterFirst
<1> HIDE DEF h, t
<1>3. o \in [1 .. 1 -> S] /\ o[1] = h /\ 1 \in Nat /\ j \in Nat /\ l \in Nat
  BY <1>1
<1> HIDE DEF o
<1>4. IsJoin(he, o, e, 1, k, S)
  BY <1>3, Joins
<1>5. he \in [1 .. j -> S]
  BY <1>4 DEF IsJoin
<1>6. IsJoin(r, he, t, j, l, S)
  <2> HIDE DEF j, l, he
  <2> QED
    BY <1>1, <1>3, <1>5, Joins
<1> HIDE DEF he, r
<1>7. j + l = n + k
  OBVIOUS
<1>8. r \in [1 .. n + k -> S]
  <2> HIDE DEF j, l
  <2> QED
    BY <1>6, <1>7 DEF IsJoin
<1>9. ASSUME NEW i \in 1 .. n + k
      PROVE  r[i] = IF i = 1 THEN s[1] ELSE IF i <= k + 1 THEN e[i - 1] ELSE s[i - k]
  <2>1. r[i] = IF i <= j THEN he[i] ELSE t[i - j]
    <3> HIDE DEF j, l
    <3> QED
      BY <1>6, <1>7 DEF IsJoin
  <2>2. CASE i <= j
    <3>1. i \in 1 .. 1 + k /\ (i <= 1 <=> i = 1)
      BY <2>2
    <3>2. he[i] = IF i <= 1 THEN o[i] ELSE e[i - 1]
      BY <1>4, <3>1 DEF IsJoin
    <3> QED
      BY <1>1, <1>3, <2>1, <2>2, <3>1, <3>2
  <2>3. CASE ~ (i <= j)
    <3>1. i - j \in 1 .. l /\ (i - j) + 1 = i - k /\ i # 1 /\ ~ (i <= k + 1)
      BY <2>3
    <3>2. t[i - j] = s[(i - j) + 1]
      BY <1>1, <3>1
    <3> QED
      BY <2>1, <2>3, <3>1, <3>2
  <2> QED
    BY <2>2, <2>3
<1> QED
  BY <1>2, <1>8, <1>9 DEF IsAfterFirst

LEMMA AfterFirstSum ==
  ASSUME NEW n \in Nat \ {0}, NEW k \in Nat, NEW b \in [1 .. n -> Nat], NEW e \in [1 .. k -> Nat]
  PROVE  Sum(AfterFirst(b, e)) = Sum(b) + Sum(e)
PROOF
<1> DEFINE h == Head(b)
           t == Tail(b)
           o == <<h>>
           oe == o \o e
           ot == o \o t
           l == n - 1
           j == 1 + k
<1>1. h = b[1] /\ h \in Nat /\ t \in [1 .. l -> Nat] /\ \A i \in 1 .. l : t[i] = b[i + 1]
  <2>1. HasParts(b, n, Nat)
    BY AfterFirstParts
  <2> QED
    BY <2>1 DEF HasParts
<1>2. AfterFirst(b, e) = oe \o t
  BY DEF AfterFirst
<1> HIDE DEF h, t
<1>3. o \in [1 .. 1 -> Nat] /\ o[1] = h /\ 1 \in Nat /\ j \in Nat /\ l \in Nat
  BY <1>1
<1> HIDE DEF o
<1>4. IsJoin(oe, o, e, 1, k, Nat)
  BY <1>3, Joins
<1>5. IsJoin(ot, o, t, 1, l, Nat)
  <2> HIDE DEF l
  <2> QED
    BY <1>1, <1>3, Joins
<1>6. Sum(oe) = Sum(o) + Sum(e)
  <2>1. 1 \in Nat /\ o \in [1 .. 1 -> Nat]
    BY <1>3
  <2> QED
    BY <2>1, SumConcat, Zenon
<1>7. Sum(ot) = Sum(o) + Sum(t)
  <2>1. 1 \in Nat /\ l \in Nat /\ o \in [1 .. 1 -> Nat] /\ t \in [1 .. l -> Nat]
    BY <1>1, <1>3
  <2> HIDE DEF l
  <2> QED
    BY <2>1, SumConcat, Zenon
<1> HIDE DEF oe, ot
<1>8. oe \in [1 .. j -> Nat]
  BY <1>4 DEF IsJoin
<1>9. Sum(oe \o t) = Sum(oe) + Sum(t)
  <2> HIDE DEF j, l
  <2>1. j \in Nat /\ l \in Nat /\ oe \in [1 .. j -> Nat] /\ t \in [1 .. l -> Nat]
    BY <1>1, <1>3, <1>8
  <2>2. \A u \in Nat, v \in Nat : \A x \in [1 .. u -> Nat], y \in [1 .. v -> Nat] : Sum(x \o y) = Sum(x) + Sum(y)
    BY SumConcat
  <2>3. \A x \in [1 .. j -> Nat], y \in [1 .. l -> Nat] : Sum(x \o y) = Sum(x) + Sum(y)
    BY <2>1, <2>2, Zenon
  <2>4. oe \in [1 .. j -> Nat]
    BY <2>1
  <2>5. t \in [1 .. l -> Nat]
    BY <2>1
  <2> QED
    BY <2>3, <2>4, <2>5, Zenon
<1>10. b = ot
  <2>1. ot \in [1 .. n -> Nat]
    BY <1>5 DEF IsJoin
  <2>2. ASSUME NEW i \in 1 .. n PROVE b[i] = ot[i]
    <3>1. ot[i] = IF i <= 1 THEN o[i] ELSE t[i - 1]
      BY <1>5 DEF IsJoin
    <3>2. (i <= 1 => i = 1) /\ (~ (i <= 1) => i - 1 \in 1 .. l /\ (i - 1) + 1 = i)
      OBVIOUS
    <3> HIDE DEF l
    <3> QED
      BY <1>1, <1>3, <3>1, <3>2
  <2> QED
    BY <2>1, <2>2, FunEqual
<1>11. Sum(o) \in Nat
  BY <1>3, SumIn
<1>12. Sum(e) \in Nat
  BY SumIn
<1>13. Sum(t) \in Nat
  <2> HIDE DEF l
  <2> QED
    BY <1>1, <1>3, SumIn
<1>14. Sum(b) = Sum(o) + Sum(t) /\ Sum(AfterFirst(b, e)) = (Sum(o) + Sum(e)) + Sum(t)
  BY <1>2, <1>6, <1>7, <1>9, <1>10
<1> QED
  BY <1>11, <1>12, <1>13, <1>14

LEMMA AfterFirstBits ==
  ASSUME NEW n \in Nat \ {0}, NEW k \in Nat, NEW m \in [1 .. n -> ModulusType], NEW e \in [1 .. k -> ModulusType]
  PROVE  Bits(AfterFirst(m, e)) = AfterFirst(Bits(m), Bits(e))
PROOF
<1> DEFINE l == n + k
           x == AfterFirst(m, e)
           u == Bits(m)
           v == Bits(e)
           y == AfterFirst(u, v)
           bx == Bits(x)
<1>1. u \in [1 .. n -> Nat] /\ \A i \in 1 .. n : u[i] = m[i].bits
  BY BitsFacts
<1>2. v \in [1 .. k -> Nat] /\ \A i \in 1 .. k : v[i] = e[i].bits
  BY BitsFacts
<1>3. l \in Nat /\ IsAfterFirst(x, m, e, n, k, ModulusType)
  BY AfterFirstFacts
<1> HIDE DEF x, u, v
<1>4. IsAfterFirst(y, u, v, n, k, Nat)
  BY <1>1, <1>2, AfterFirstFacts
<1> HIDE DEF y
<1>5. x \in [1 .. l -> ModulusType] /\ y \in [1 .. l -> Nat]
  BY <1>3, <1>4 DEF IsAfterFirst
<1>6. bx \in [1 .. l -> Nat] /\ \A i \in 1 .. l : bx[i] = x[i].bits
  <2> HIDE DEF l
  <2> QED
    BY <1>3, <1>5, BitsFacts
<1> HIDE DEF bx
<1>7. ASSUME NEW i \in 1 .. l PROVE bx[i] = y[i]
  <2>1. 1 \in 1 .. n /\ (i # 1 /\ i <= k + 1 => i - 1 \in 1 .. k) /\ (~ (i <= k + 1) => i # 1 /\ i - k \in 1 .. n)
    OBVIOUS
  <2>2. x[i] = IF i = 1 THEN m[1] ELSE IF i <= k + 1 THEN e[i - 1] ELSE m[i - k]
    BY <1>3 DEF IsAfterFirst
  <2>3. y[i] = IF i = 1 THEN u[1] ELSE IF i <= k + 1 THEN v[i - 1] ELSE u[i - k]
    BY <1>4 DEF IsAfterFirst
  <2> HIDE DEF l
  <2>4. bx[i] = x[i].bits
    BY <1>6
  <2> QED
    BY <1>1, <1>2, <2>1, <2>2, <2>3, <2>4
<1>8. bx = y
  <2> HIDE DEF l
  <2>1. bx = [i \in 1 .. l |-> bx[i]] /\ y = [i \in 1 .. l |-> y[i]]
    BY <1>5, <1>6
  <2>2. \A i \in 1 .. l : bx[i] = y[i]
    BY <1>7
  <2> QED
    BY <2>1, <2>2
<1> QED
  BY <1>8 DEF bx, y, x, u, v

(* The length of a product is the sum of the exponents, or one more; the   *)
(* sum where all moduli lie below, and one more where all lie above.       *)
LEMMA LengthsFacts ==
  ASSUME NEW n \in Nat, NEW m \in [1 .. n -> ModulusType]
  PROVE  /\ Sum(Bits(m)) \in Nat
         /\ Lengths(m) \subseteq {Sum(Bits(m)), Sum(Bits(m)) + 1}
         /\ n > 0 /\ (\A i \in 1 .. n : m[i].side = "below") => Lengths(m) = {Sum(Bits(m))}
         /\ n > 0 /\ (\A i \in 1 .. n : m[i].side = "above") => Lengths(m) = {Sum(Bits(m)) + 1}
PROOF
<1> DEFINE sum == Sum(Bits(m))
           sides == {m[i].side : i \in DOMAIN m}
<1>1. sum \in Nat
  BY BitsFacts, SumSums
<1>2. Lengths(m) = CASE sides = {"below"} -> {sum} [] sides = {"above"} -> {sum + 1} [] OTHER -> {sum, sum + 1}
  BY DEF Lengths, Bits
<1>3. n > 0 /\ (\A i \in 1 .. n : m[i].side = "below") => sides = {"below"}
  <2>1. n > 0 => 1 \in 1 .. n
    OBVIOUS
  <2>2. DOMAIN m = 1 .. n
    OBVIOUS
  <2> QED
    BY <2>1, <2>2
<1>4. n > 0 /\ (\A i \in 1 .. n : m[i].side = "above") => sides = {"above"}
  <2>1. n > 0 => 1 \in 1 .. n
    OBVIOUS
  <2>2. DOMAIN m = 1 .. n
    OBVIOUS
  <2> QED
    BY <2>1, <2>2
<1>5. ~ ({"below"} = {"above"})
  OBVIOUS
<1> HIDE DEF sum, sides
<1>6. /\ sum \in Nat /\ Lengths(m) \subseteq {sum, sum + 1}
      /\ sides = {"below"} => Lengths(m) = {sum}
      /\ sides = {"above"} => Lengths(m) = {sum + 1}
  BY <1>1, <1>2, <1>5
<1> QED
  BY <1>3, <1>4, <1>6 DEF sum

-----------------------------------------------------------------------------
(* The table of the standard.                                              *)
LEMMA RowSizes ==
  /\ RingDimOfRow(1) = 1024 /\ RingDimOfRow(2) = 2048 /\ RingDimOfRow(3) = 4096
  /\ RingDimOfRow(4) = 8192 /\ RingDimOfRow(5) = 16384 /\ RingDimOfRow(6) = 32768
  /\ RingDimOfRow(7) = 65536 /\ RingDimOfRow(8) = 131072 /\ RingDimOfRow(9) = 262144
BY DEF RingDimOfRow

LEMMA RowsGrow ==
  ASSUME NEW i \in 1 .. 9, NEW j \in i .. 9
  PROVE  RingDimOfRow(i) \in Nat \ {0} /\ RingDimOfRow(i) <= RingDimOfRow(j)
PROOF
<1> DEFINE R(k) == RingDimOfRow(k)
<1>1. /\ R(1) = 1024 /\ R(2) = 2048 /\ R(3) = 4096 /\ R(4) = 8192 /\ R(5) = 16384
      /\ R(6) = 32768 /\ R(7) = 65536 /\ R(8) = 131072 /\ R(9) = 262144
  BY RowSizes
<1>2. /\ i = 1 \/ i = 2 \/ i = 3 \/ i = 4 \/ i = 5 \/ i = 6 \/ i = 7 \/ i = 8 \/ i = 9
      /\ j = 1 \/ j = 2 \/ j = 3 \/ j = 4 \/ j = 5 \/ j = 6 \/ j = 7 \/ j = 8 \/ j = 9
      /\ i <= j
  OBVIOUS
<1> HIDE DEF R
<1>3. R(i) \in Nat \ {0} /\ R(i) <= R(j)
  BY <1>1, <1>2
<1> QED
  BY <1>3 DEF R

Levels == DOMAIN MaxLogQ
Fits(level, logQ) == {i \in 1 .. 8 : logQ \in 1 .. MaxLogQ[level][i]}
RowOf(level, logQ) == IF Fits(level, logQ) # {} THEN Min(Fits(level, logQ)) ELSE 9

LEMMA TableRows ==
  ASSUME NEW level \in Levels
  PROVE  MaxLogQ[level] \in [1 .. 8 -> Nat] /\ Len(MaxLogQ[level]) = 8
PROOF
<1>1. level = "HEStd_128_classic" \/ level = "HEStd_256_classic"
  BY DEF Levels, MaxLogQ
<1>2. /\ MaxLogQ["HEStd_128_classic"] = <<27, 54, 109, 218, 438, 881, 1747, 3523>>
      /\ MaxLogQ["HEStd_256_classic"] = <<14, 29, 58, 118, 237, 476, 929, 1866>>
  BY DEF MaxLogQ
<1>3. <<27, 54, 109, 218, 438, 881, 1747, 3523>> \in [1 .. 8 -> Nat]
  OBVIOUS
<1>4. <<14, 29, 58, 118, 237, 476, 929, 1866>> \in [1 .. 8 -> Nat]
  OBVIOUS
<1> QED
  BY <1>1, <1>2, <1>3, <1>4

LEMMA RingIsRow ==
  ASSUME NEW level \in Levels, NEW logQ
  PROVE  FindRingDim(level, logQ) = RingDimOfRow(RowOf(level, logQ))
PROOF
<1>1. MaxLogQ[level] \in [1 .. 8 -> Nat] /\ Len(MaxLogQ[level]) = 8
  BY TableRows
<1>2. DOMAIN MaxLogQ[level] = 1 .. 8 /\ Len(MaxLogQ[level]) + 1 = 9
  BY <1>1
<1> QED
  BY <1>2 DEF FindRingDim, RowOf, Fits

LEMMA RowFacts ==
  ASSUME NEW level \in Levels, NEW logQ
  PROVE  /\ RowOf(level, logQ) \in 1 .. 9
         /\ \A i \in Fits(level, logQ) : RowOf(level, logQ) \in Fits(level, logQ) /\ RowOf(level, logQ) <= i
PROOF
<1> DEFINE S == Fits(level, logQ)
<1>1. S \subseteq 1 .. 8
  BY DEF Fits
<1>2. CASE S = {}
  BY <1>2 DEF RowOf
<1>3. CASE S # {}
  <2>1. \E x \in S : \A y \in S : x <= y
    <3>1. S \in SUBSET Nat
      BY <1>1
    <3> HIDE DEF S
    <3> QED
      BY <1>3, <3>1, LeastExists
  <2>2. Min(S) \in S /\ \A y \in S : Min(S) <= y
    BY <2>1 DEF Min
  <2> QED
    BY <1>1, <1>3, <2>2 DEF RowOf
<1> QED
  BY <1>2, <1>3

(* A longer modulus needs no smaller ring.                                 *)
LEMMA FindRingDimGrows ==
  ASSUME NEW level \in Levels, NEW x \in Nat \ {0}, NEW y \in Nat, x <= y
  PROVE  /\ FindRingDim(level, x) \in Nat /\ FindRingDim(level, y) \in Nat
         /\ FindRingDim(level, x) <= FindRingDim(level, y)
PROOF
<1>1. RowOf(level, x) \in 1 .. 9 /\ RowOf(level, y) \in 1 .. 9
  BY RowFacts
<1>2. \A i \in 1 .. 8 : MaxLogQ[level][i] \in Nat
  BY TableRows
<1>3. Fits(level, y) \subseteq Fits(level, x)
  BY <1>2 DEF Fits
<1>4. RowOf(level, x) <= RowOf(level, y)
  <2>1. CASE Fits(level, y) = {}
    <3>1. RowOf(level, y) = 9
      BY <2>1 DEF RowOf
    <3> QED
      BY <1>1, <3>1
  <2>2. CASE Fits(level, y) # {}
    BY <1>3, <2>2, RowFacts
  <2> QED
    BY <2>1, <2>2
<1>5. RowOf(level, y) \in RowOf(level, x) .. 9
  BY <1>1, <1>4
<1>6. /\ RingDimOfRow(RowOf(level, x)) \in Nat /\ RingDimOfRow(RowOf(level, y)) \in Nat
      /\ RingDimOfRow(RowOf(level, x)) <= RingDimOfRow(RowOf(level, y))
  <2>1. RowOf(level, y) \in RowOf(level, y) .. 9
    BY <1>1
  <2> QED
    BY <1>1, <1>5, <2>1, RowsGrow
<1> QED
  BY <1>6, RingIsRow

(* No limit of the table is a multiple of the size of a word, so that one  *)
(* more bit than whole words have makes no difference.                     *)
LEMMA WholeWords ==
  ASSUME NEW level \in Levels, NEW k \in Nat \ {0}
  PROVE  FindRingDim(level, AuxBits * k + 1) = FindRingDim(level, AuxBits * k)
PROOF
<1> DEFINE x == 60 * k
<1>1. x \in Nat \ {0} /\ AuxBits * k = x
  BY DEF AuxBits
<1>2. \A i \in 1 .. 8 : x <= MaxLogQ[level][i] <=> x + 1 <= MaxLogQ[level][i]
  <2>1. level = "HEStd_128_classic" \/ level = "HEStd_256_classic"
    BY DEF Levels, MaxLogQ
  <2>2. CASE level = "HEStd_128_classic"
    <3>1. MaxLogQ[level] = <<27, 54, 109, 218, 438, 881, 1747, 3523>>
      BY <2>2 DEF MaxLogQ
    <3> QED
      BY <3>1
  <2>3. CASE level = "HEStd_256_classic"
    <3>1. MaxLogQ[level] = <<14, 29, 58, 118, 237, 476, 929, 1866>>
      BY <2>3 DEF MaxLogQ
    <3> QED
      BY <3>1
  <2> QED
    BY <2>1, <2>2, <2>3
<1> HIDE DEF x
<1>3. Fits(level, x + 1) = Fits(level, x)
  <2>1. \A i \in 1 .. 8 : MaxLogQ[level][i] \in Nat
    BY TableRows
  <2>2. \A i \in 1 .. 8 : x \in 1 .. MaxLogQ[level][i] <=> x + 1 \in 1 .. MaxLogQ[level][i]
    BY <1>1, <1>2, <2>1
  <2> QED
    BY <2>2 DEF Fits
<1>4. RowOf(level, x + 1) = RowOf(level, x)
  BY <1>3 DEF RowOf
<1>5. x \in Nat /\ x + 1 \in Nat
  BY <1>1
<1> QED
  BY <1>1, <1>4, <1>5, RingIsRow

-----------------------------------------------------------------------------
(* The longest product that moduli of given sizes may have.                *)
Below(m) == \A i \in DOMAIN m : m[i].side = "below"
Longest(m) == Sum(Bits(m)) + (IF Below(m) THEN 0 ELSE 1)
IsModuli(m) == \E n \in Nat \ {0} : m \in [1 .. n -> ModulusType]

LEMMA LongestIs ==
  ASSUME NEW m, IsModuli(m)
  PROVE  /\ Sum(Bits(m)) \in Nat /\ Longest(m) \in Nat
         /\ Max(Lengths(m)) = Longest(m)
         /\ \A l \in Lengths(m) : l \in Nat /\ Sum(Bits(m)) <= l /\ l <= Longest(m)
PROOF
<1> PICK n \in Nat \ {0} : m \in [1 .. n -> ModulusType]
  BY DEF IsModuli
<1> DEFINE sum == Sum(Bits(m))
           sides == {m[i].side : i \in DOMAIN m}
<1>1. sum \in Nat
  <2>1. Bits(m) \in [1 .. n -> Nat]
    BY BitsFacts
  <2> QED
    BY <2>1, SumIn
<1>2. Lengths(m) = CASE sides = {"below"} -> {sum} [] sides = {"above"} -> {sum + 1} [] OTHER -> {sum, sum + 1}
  BY DEF Lengths, Bits
<1>3. Below(m) <=> sides = {"below"}
  <2>1. DOMAIN m = 1 .. n /\ 1 \in 1 .. n
    OBVIOUS
  <2>2. ASSUME Below(m) PROVE sides = {"below"}
    BY <2>1, <2>2 DEF Below
  <2>3. ASSUME sides = {"below"} PROVE Below(m)
    <3>1. \A i \in DOMAIN m : m[i].side \in sides
      OBVIOUS
    <3> HIDE DEF sides
    <3> QED
      BY <2>3, <3>1 DEF Below
  <2> QED
    BY <2>2, <2>3
<1>4. ~ ({"below"} = {"above"})
  OBVIOUS
<1> HIDE DEF sum, sides
<1>5. Lengths(m) = IF Below(m) THEN {sum} ELSE IF sides = {"above"} THEN {sum + 1} ELSE {sum, sum + 1}
  BY <1>2, <1>3, <1>4
<1>6. Longest(m) = IF Below(m) THEN sum ELSE sum + 1
  BY <1>1 DEF Longest, sum
<1>7. /\ Longest(m) \in Lengths(m)
      /\ \A l \in Lengths(m) : l \in Nat /\ sum <= l /\ l <= Longest(m)
      /\ Longest(m) \in Nat
  BY <1>1, <1>5, <1>6
<1>8. Max(Lengths(m)) = Longest(m)
  <2>1. \A x \in Lengths(m) : (\A y \in Lengths(m) : x >= y) <=> x = Longest(m)
    BY <1>7
  <2> QED
    BY <1>7, <2>1 DEF Max
<1> QED
  BY <1>1, <1>7, <1>8 DEF sum

(* Words of P, or flooding moduli, that lie below add their bits.          *)
LEMMA WithWords ==
  ASSUME NEW m, IsModuli(m), NEW k \in Nat
  PROVE  LET e == Repeat(Modulus(AuxBits, "below"), k)
         IN  /\ IsModuli(m \o e) /\ Longest(m \o e) = Longest(m) + AuxBits * k
             /\ Sum(Bits(m \o e)) = Sum(Bits(m)) + AuxBits * k
PROOF
<1> PICK n \in Nat \ {0} : m \in [1 .. n -> ModulusType]
  BY DEF IsModuli
<1> DEFINE e == Repeat(Modulus(AuxBits, "below"), k)
           l == n + k
           me == m \o e
<1>1. /\ e \in [1 .. k -> ModulusType] /\ Bits(e) = Repeat(AuxBits, k)
      /\ \A i \in 1 .. k : e[i].side = "below"
  <2>1. AuxBits \in Nat
    BY DEF AuxBits
  <2>2. \A i \in 1 .. k : e[i] = Modulus(AuxBits, "below")
    BY DEF Repeat
  <2>3. "below" \in {"below", "above", "either"}
    OBVIOUS
  <2>4. /\ Repeat(Modulus(AuxBits, "below"), k) \in [1 .. k -> ModulusType]
        /\ Bits(Repeat(Modulus(AuxBits, "below"), k)) = Repeat(AuxBits, k)
    BY <2>1, <2>3, RepeatBits, Zenon
  <2>5. Modulus(AuxBits, "below").side = "below"
    BY DEF Modulus
  <2> QED
    BY <2>2, <2>4, <2>5
<1>2. Bits(me) = Bits(m) \o Bits(e)
  BY <1>1, BitsConcat
<1>3. Bits(m) \in [1 .. n -> Nat]
  BY BitsFacts
<1>4. Repeat(AuxBits, k) \in [1 .. k -> Nat] /\ Sum(Repeat(AuxBits, k)) = AuxBits * k
  BY RepeatSum DEF AuxBits
<1>5. Sum(Bits(me)) = Sum(Bits(m)) + AuxBits * k
  <2> DEFINE u == Bits(m)
             v == Repeat(AuxBits, k)
  <2>1. Bits(me) = u \o v /\ u \in [1 .. n -> Nat] /\ v \in [1 .. k -> Nat] /\ Sum(v) = AuxBits * k
    BY <1>1, <1>2, <1>3, <1>4
  <2> HIDE DEF u, v, e, me
  <2>2. n \in Nat
    OBVIOUS
  <2>3. Sum(u \o v) = Sum(u) + Sum(v)
    BY <2>1, <2>2, SumConcat, Zenon
  <2> QED
    BY <2>1, <2>3 DEF u
<1>6. IsJoin(me, m, e, n, k, ModulusType)
  <2> HIDE DEF e
  <2> QED
    BY <1>1, Joins
<1> HIDE DEF e, me
<1>7. me \in [1 .. l -> ModulusType] /\ l \in Nat \ {0}
  BY <1>6 DEF IsJoin
<1>8. IsModuli(me)
  BY <1>7 DEF IsModuli
<1>9. Below(me) <=> Below(m)
  <2>1. DOMAIN me = 1 .. l /\ DOMAIN m = 1 .. n
    BY <1>7
  <2>2. \A i \in 1 .. n : i \in 1 .. l /\ me[i] = m[i]
    BY <1>6 DEF IsJoin
  <2>3. \A i \in 1 .. l : ~ (i \in 1 .. n) => i - n \in 1 .. k /\ me[i] = e[i - n]
    BY <1>6 DEF IsJoin
  <2> QED
    BY <1>1, <2>1, <2>2, <2>3 DEF Below
<1>10. Sum(Bits(m)) \in Nat /\ AuxBits * k \in Nat
  BY <1>3, SumIn DEF AuxBits
<1>11. Longest(me) = Longest(m) + AuxBits * k
  BY <1>5, <1>9, <1>10 DEF Longest
<1> QED
  BY <1>5, <1>8, <1>11 DEF me, e

FloodingCount(r) == IF r.multiparty THEN NUM_MODULI_MULTIPARTY ELSE 0

LEMMA FloodingFacts ==
  ASSUME NEW r
  PROVE  /\ FloodingCount(r) \in Nat
         /\ FloodingLogQ(r) = AuxBits * FloodingCount(r) /\ FloodingLogQ(r) \in Nat
         /\ FloodingLogQ(r) \div MULTIPARTY_MOD_SIZE = FloodingCount(r)
         /\ Flooding(r) = Repeat(Modulus(AuxBits, "below"), FloodingCount(r))
BY DEF FloodingCount, FloodingLogQ, Flooding, MULTIPARTY_MOD_SIZE, NUM_MODULI_MULTIPARTY, AuxBits

LEMMA Flooded ==
  ASSUME NEW r, NEW m, IsModuli(m)
  PROVE  LET x == AfterFirst(m, Flooding(r))
         IN  /\ IsModuli(x) /\ Longest(x) = Longest(m) + FloodingLogQ(r)
             /\ Bits(x) = AfterFirst(Bits(m), Repeat(AuxBits, FloodingCount(r)))
             /\ Sum(Bits(x)) = Sum(Bits(m)) + FloodingLogQ(r)
             /\ Below(m) => Below(x)
PROOF
<1> PICK n \in Nat \ {0} : m \in [1 .. n -> ModulusType]
  BY DEF IsModuli
<1> DEFINE k == FloodingCount(r)
           e == Flooding(r)
           l == n + k
           x == AfterFirst(m, e)
<1>1. k \in Nat /\ e = Repeat(Modulus(AuxBits, "below"), k) /\ FloodingLogQ(r) = AuxBits * k
  BY FloodingFacts
<1> HIDE DEF k, e
<1>2. /\ e \in [1 .. k -> ModulusType] /\ Bits(e) = Repeat(AuxBits, k)
      /\ \A i \in 1 .. k : e[i].side = "below"
  <2>1. AuxBits \in Nat
    BY DEF AuxBits
  <2>2. \A i \in 1 .. k : e[i] = Modulus(AuxBits, "below")
    BY <1>1 DEF Repeat
  <2>3. "below" \in {"below", "above", "either"}
    OBVIOUS
  <2>4. /\ Repeat(Modulus(AuxBits, "below"), k) \in [1 .. k -> ModulusType]
        /\ Bits(Repeat(Modulus(AuxBits, "below"), k)) = Repeat(AuxBits, k)
    BY <1>1, <2>1, <2>3, RepeatBits, Zenon
  <2>5. Modulus(AuxBits, "below").side = "below"
    BY DEF Modulus
  <2> QED
    BY <1>1, <2>2, <2>4, <2>5
<1>3. Bits(x) = AfterFirst(Bits(m), Bits(e))
  BY <1>1, <1>2, AfterFirstBits
<1>4. Bits(m) \in [1 .. n -> Nat]
  BY BitsFacts
<1>5. Repeat(AuxBits, k) \in [1 .. k -> Nat] /\ Sum(Repeat(AuxBits, k)) = AuxBits * k
  BY <1>1, RepeatSum DEF AuxBits
<1>6. IsAfterFirst(x, m, e, n, k, ModulusType)
  BY <1>1, <1>2, AfterFirstFacts
<1> HIDE DEF x
<1>7. Sum(Bits(x)) = Sum(Bits(m)) + AuxBits * k
  <2> DEFINE u == Bits(m)
             v == Repeat(AuxBits, k)
  <2>1. Bits(x) = AfterFirst(u, v)
    BY <1>2, <1>3
  <2>2. u \in [1 .. n -> Nat] /\ v \in [1 .. k -> Nat] /\ Sum(v) = AuxBits * k
    BY <1>4, <1>5
  <2> HIDE DEF u, v, x
  <2>3. n \in Nat \ {0} /\ k \in Nat
    BY <1>1
  <2>4. Sum(AfterFirst(u, v)) = Sum(u) + Sum(v)
    BY <2>2, <2>3, AfterFirstSum, Zenon
  <2>5. Sum(Bits(x)) = Sum(u) + AuxBits * k
    BY <2>1, <2>2, <2>4
  <2> QED
    BY <2>5 DEF u
<1>8. x \in [1 .. l -> ModulusType] /\ l \in Nat \ {0}
  BY <1>1, <1>6 DEF IsAfterFirst
<1>9. IsModuli(x)
  BY <1>8 DEF IsModuli
<1>10. Below(x) <=> Below(m)
  <2>1. DOMAIN x = 1 .. l /\ DOMAIN m = 1 .. n /\ 1 \in 1 .. n /\ 1 \in 1 .. l
    BY <1>1, <1>8
  <2>2. x[1] = m[1]
    BY <1>6, <2>1 DEF IsAfterFirst
  <2>3. \A i \in 1 .. l : i # 1 /\ i <= k + 1 => i - 1 \in 1 .. k /\ x[i] = e[i - 1]
    BY <1>1, <1>6 DEF IsAfterFirst
  <2>4. \A i \in 1 .. l : ~ (i <= k + 1) => i - k \in 1 .. n /\ x[i] = m[i - k]
    BY <1>1, <1>6 DEF IsAfterFirst
  <2>5. \A i \in 1 .. n : i # 1 => i + k \in 1 .. l /\ ~ (i + k <= k + 1) /\ (i + k) - k = i
    BY <1>1
  <2>6. \A i \in 1 .. n : i # 1 => i + k \in 1 .. l /\ x[i + k] = m[i]
    BY <2>4, <2>5
  <2>7. \A i \in 1 .. l : i = 1 \/ (i # 1 /\ i <= k + 1) \/ ~ (i <= k + 1)
    OBVIOUS
  <2>8. (\A i \in 1 .. n : m[i].side = "below") => \A i \in 1 .. l : x[i].side = "below"
    BY <1>2, <2>1, <2>2, <2>3, <2>4, <2>7
  <2>9. (\A i \in 1 .. l : x[i].side = "below") => \A i \in 1 .. n : m[i].side = "below"
    BY <2>1, <2>2, <2>6
  <2> QED
    BY <2>1, <2>8, <2>9 DEF Below
<1>11. Sum(Bits(m)) \in Nat /\ AuxBits * k \in Nat
  BY <1>1, <1>4, SumIn DEF AuxBits
<1>12. Longest(x) = Longest(m) + AuxBits * k
  BY <1>7, <1>10, <1>11 DEF Longest
<1> QED
  BY <1>1, <1>2, <1>3, <1>7, <1>9, <1>10, <1>12 DEF x, e, k

-----------------------------------------------------------------------------
(* The sizes a request asks for, and what it is given.                     *)
LEMMA CeilDivFacts ==
  ASSUME NEW a \in Nat \ {0}, NEW b \in Nat \ {0}
  PROVE  CeilDiv(a, b) \in Nat \ {0}
PROOF
<1> DEFINE x == a + b - 1
<1>1. x \in Int /\ x >= b
  OBVIOUS
<1>2. PICK k \in Int, r \in 0 .. b - 1 : x = b * k + r /\ k = x \div b /\ r = x % b
  <2> HIDE DEF x
  <2> QED
    BY <1>1, Division
<1>3. k >= 1
  <2>1. SUFFICES ASSUME k <= 0 PROVE FALSE
    OBVIOUS
  <2>2. b * k <= 0
    BY <2>1
  <2> HIDE DEF x
  <2> QED
    BY <1>1, <1>2, <2>2
<1> QED
  BY <1>2, <1>3 DEF CeilDiv

\* A first size, the others, as many as there are primes.
Regular(n, a, c) == [i \in 1 .. n |-> IF i = 1 THEN a ELSE c]

RegularIs(n, a, c) ==
  /\ Regular(n, a, c) \in [1 .. n -> Nat] /\ Regular(n, a, c)[1] = a
  /\ Sum(Regular(n, a, c)) = a + c * (n - 1)

LEMMA RegularFacts ==
  ASSUME NEW n \in Nat \ {0}, NEW a \in Nat, NEW c \in Nat
  PROVE  RegularIs(n, a, c)
PROOF
<1>1. Regular(n, a, c) \in [1 .. n -> Nat]
  BY DEF Regular
<1>2. Regular(n, a, c)[1] = a
  BY DEF Regular
<1>3. Sum(Regular(n, a, c)) = a + c * (n - 1)
  BY SumFirstRest DEF Regular
<1> QED
  BY <1>1, <1>2, <1>3 DEF RegularIs

LEMMA FirstRest ==
  ASSUME NEW n \in Nat \ {0}, NEW a \in Nat, NEW c \in Nat
  PROVE  <<a>> \o Repeat(c, n - 1) = Regular(n, a, c)
PROOF
<1> DEFINE o == <<a>>
           l == n - 1
           p == Repeat(c, l)
           op == o \o p
<1>1. l \in Nat /\ o \in [1 .. 1 -> Nat] /\ o[1] = a /\ 1 \in Nat /\ 1 + l = n
  OBVIOUS
<1> HIDE DEF l, o
<1>2. p \in [1 .. l -> Nat] /\ \A i \in 1 .. l : p[i] = c
  BY <1>1, RepeatFacts
<1> HIDE DEF p
<1>3. IsJoin(op, o, p, 1, l, Nat)
  BY <1>1, <1>2, Joins
<1> HIDE DEF op
<1>4. op \in [1 .. n -> Nat]
  BY <1>1, <1>3 DEF IsJoin
<1>5. ASSUME NEW i \in 1 .. n PROVE op[i] = IF i = 1 THEN a ELSE c
  <2>1. op[i] = IF i <= 1 THEN o[i] ELSE p[i - 1]
    BY <1>1, <1>3 DEF IsJoin
  <2>2. (i <= 1 => i = 1) /\ (~ (i <= 1) => i - 1 \in 1 .. l /\ i # 1)
    BY <1>1
  <2> QED
    BY <1>1, <1>2, <2>1, <2>2
<1>6. op = [i \in 1 .. n |-> op[i]]
  BY <1>4
<1>7. op = Regular(n, a, c)
  BY <1>5, <1>6 DEF Regular
<1> QED
  BY <1>7 DEF op, o, p, l

LEMMA NothingAdded ==
  ASSUME NEW S, NEW n \in Nat, NEW s \in [1 .. n -> S], NEW x \in S
  PROVE  s \o Repeat(x, 0) = s
PROOF
<1> DEFINE e == Repeat(x, 0)
           se == s \o e
<1>1. e \in [1 .. 0 -> S]
  BY RepeatFacts
<1> HIDE DEF e
<1>2. IsJoin(se, s, e, n, 0, S)
  BY <1>1, Joins
<1> HIDE DEF se
<1>3. se \in [1 .. n -> S] /\ \A i \in 1 .. n : se[i] = s[i]
  BY <1>2 DEF IsJoin
<1>4. se = [i \in 1 .. n |-> se[i]] /\ s = [i \in 1 .. n |-> s[i]]
  BY <1>3
<1>5. se = s
  BY <1>3, <1>4
<1> QED
  BY <1>5 DEF se, e

Extended(r) == IF r.technique = "FLEXIBLEAUTOEXT" THEN 1 ELSE 0
Asked(r) == Regular(r.numPrimes, r.firstModSize, r.dcrtBits)
AskedSum(r) == r.firstModSize + r.dcrtBits * (r.numPrimes - 1)

LEMMA AskedFacts ==
  ASSUME NEW r \in Requests, ~ SizesFromNoise(r)
  PROVE  /\ Asked(r) \in [1 .. r.numPrimes -> Nat] /\ Asked(r)[1] = r.firstModSize
         /\ Sum(Asked(r)) = AskedSum(r) /\ AskedSum(r) \in Nat \ {0}
         /\ r.numPrimes \in Nat \ {0} /\ r.firstModSize \in Nat \ {0} /\ r.dcrtBits \in Nat \ {0}
PROOF
<1>1. r.numPrimes \in Nat \ {0} /\ r.firstModSize \in Nat \ {0} /\ r.dcrtBits \in Nat \ {0}
  BY RequestsAssumption DEF Size
<1>2. r.dcrtBits * (r.numPrimes - 1) \in Nat
  BY <1>1
<1>3. AskedSum(r) \in Nat \ {0}
  BY <1>1, <1>2 DEF AskedSum
<1>4. RegularIs(r.numPrimes, r.firstModSize, r.dcrtBits)
  BY <1>1, RegularFacts
<1> QED
  BY <1>1, <1>3, <1>4 DEF Asked, AskedSum, RegularIs

(* CKKS and FIXEDMANUAL: the sizes estimated.                              *)
LEMMA EstimateAsked ==
  ASSUME NEW r \in Requests, ~ SizesFromNoise(r), r.scheme # "BFV"
  PROVE  LET k == FloodingCount(r)
             s == EstimatedSizes(r)
         IN  /\ s = AfterFirst(Asked(r), Repeat(AuxBits, k)) \o Repeat(DEFAULT_EXTRA_MOD_SIZE, Extended(r))
             /\ s \in [1 .. r.numPrimes + k + Extended(r) -> Nat] /\ s[1] = r.firstModSize
             /\ Sum(s) = AskedSum(r) + FloodingLogQ(r) + 20 * Extended(r)
PROOF
<1> DEFINE n == r.numPrimes
           k == FloodingCount(r)
           b == Asked(r)
           e == Repeat(AuxBits, k)
           x == Extended(r)
           f == Repeat(DEFAULT_EXTRA_MOD_SIZE, x)
           u == AfterFirst(b, e)
           l == n + k
           s == u \o f
<1>1. /\ b \in [1 .. n -> Nat] /\ b[1] = r.firstModSize /\ Sum(b) = AskedSum(r)
      /\ n \in Nat \ {0} /\ r.firstModSize \in Nat /\ r.dcrtBits \in Nat
  BY AskedFacts
<1>2. <<r.firstModSize>> \o Repeat(r.dcrtBits, n - 1) = b
  <2> HIDE DEF n
  <2>1. <<r.firstModSize>> \o Repeat(r.dcrtBits, n - 1) = Regular(n, r.firstModSize, r.dcrtBits)
    BY <1>1, FirstRest
  <2> QED
    BY <2>1 DEF Asked, n
<1>3. k \in Nat /\ FloodingLogQ(r) = AuxBits * k /\ FloodingLogQ(r) \div MULTIPARTY_MOD_SIZE = k
  BY FloodingFacts
<1>4. EstimatedSizes(r) = s
  <2>1. EstimatedSizes(r) = AfterFirst(<<r.firstModSize>> \o Repeat(r.dcrtBits, n - 1),
                                       Repeat(MULTIPARTY_MOD_SIZE, FloodingLogQ(r) \div MULTIPARTY_MOD_SIZE))
                            \o Repeat(DEFAULT_EXTRA_MOD_SIZE, x)
    BY DEF EstimatedSizes, Extended
  <2>2. MULTIPARTY_MOD_SIZE = AuxBits
    BY DEF MULTIPARTY_MOD_SIZE, AuxBits
  <2> QED
    BY <1>2, <1>3, <2>1, <2>2
<1>5. x \in Nat /\ DEFAULT_EXTRA_MOD_SIZE = 20 /\ AuxBits \in Nat
  BY DEF Extended, DEFAULT_EXTRA_MOD_SIZE, AuxBits
<1> HIDE DEF k, b, x
<1>6. e \in [1 .. k -> Nat] /\ Sum(e) = AuxBits * k
  BY <1>3, <1>5, RepeatSum
<1>7. f \in [1 .. x -> Nat] /\ Sum(f) = 20 * x
  <2>1. 20 \in Nat
    OBVIOUS
  <2> QED
    BY <1>5, <2>1, RepeatSum
<1> HIDE DEF e, f, n
<1>8. IsAfterFirst(u, b, e, n, k, Nat)
  BY <1>1, <1>3, <1>6, AfterFirstFacts
<1>9. Sum(u) = Sum(b) + Sum(e)
  BY <1>1, <1>3, <1>6, AfterFirstSum
<1> HIDE DEF u
<1>10. /\ u \in [1 .. l -> Nat] /\ u[1] = b[1] /\ l \in Nat /\ l > 0
  BY <1>1, <1>3, <1>8 DEF IsAfterFirst
<1> HIDE DEF l
<1>11. IsJoin(s, u, f, l, x, Nat)
  BY <1>5, <1>7, <1>10, Joins
<1>12. Sum(s) = Sum(u) + Sum(f)
  BY <1>5, <1>7, <1>10, SumConcat, Zenon
<1> HIDE DEF s
<1>13. s \in [1 .. l + x -> Nat] /\ s[1] = u[1]
  BY <1>5, <1>10, <1>11 DEF IsJoin
<1>14. Sum(s) = AskedSum(r) + FloodingLogQ(r) + 20 * x
  BY <1>1, <1>3, <1>6, <1>7, <1>9, <1>12
<1> QED
  BY <1>1, <1>4, <1>10, <1>13, <1>14 DEF s, u, e, f, b, k, x, l, n

(* FIXEDMANUAL of BGV: the moduli have the sizes that were estimated.      *)
LEMMA ManualModuli ==
  ASSUME NEW r \in Requests, r.scheme = "BGV", r.technique = "FIXEDMANUAL", NEW n
  PROVE  /\ IsModuli(Moduli(r, n)) /\ Below(Moduli(r, n))
         /\ Bits(Moduli(r, n)) = EstimatedSizes(r)
PROOF
<1> DEFINE k == r.numPrimes
           m == [i \in 1 .. k |-> Modulus(IF i = 1 THEN r.firstModSize ELSE r.dcrtBits, "below")]
           fc == FloodingCount(r)
           e == Repeat(AuxBits, fc)
           u == AfterFirst(Asked(r), e)
<1>1. ~ SizesFromNoise(r) /\ r.scheme # "BFV" /\ r.scheme # "CKKS"
  BY DEF SizesFromNoise
<1>2. Moduli(r, n) = AfterFirst(m, Flooding(r))
  BY <1>1 DEF Moduli
<1>3. k \in Nat \ {0} /\ r.firstModSize \in Nat /\ r.dcrtBits \in Nat
  BY <1>1, AskedFacts
<1>4. m \in [1 .. k -> ModulusType] /\ Below(m)
  BY <1>3 DEF ModulusType, Modulus, Below
<1>5. Bits(m) = Asked(r)
  BY DEF Bits, Modulus, Asked, Regular
<1> HIDE DEF m
<1>6. IsModuli(m)
  BY <1>3, <1>4 DEF IsModuli
<1>7. /\ IsModuli(Moduli(r, n)) /\ Below(Moduli(r, n))
      /\ Bits(Moduli(r, n)) = u
  BY <1>2, <1>4, <1>5, <1>6, Flooded
<1>8. EstimatedSizes(r) = u \o Repeat(DEFAULT_EXTRA_MOD_SIZE, 0)
  <2>1. Extended(r) = 0
    BY DEF Extended
  <2> QED
    BY <1>1, <2>1, EstimateAsked
<1>9. u \in [1 .. k + fc -> Nat] /\ k + fc \in Nat
  <2>1. fc \in Nat
    BY FloodingFacts
  <2>2. e \in [1 .. fc -> Nat]
    BY <2>1, RepeatSum DEF AuxBits
  <2>3. Asked(r) \in [1 .. k -> Nat]
    BY <1>1, AskedFacts
  <2> HIDE DEF k, fc, e
  <2>4. IsAfterFirst(u, Asked(r), e, k, fc, Nat)
    BY <1>3, <2>1, <2>2, <2>3, AfterFirstFacts
  <2> QED
    BY <1>3, <2>1, <2>4 DEF IsAfterFirst
<1>10. u \o Repeat(DEFAULT_EXTRA_MOD_SIZE, 0) = u
  <2> DEFINE l == k + fc
  <2>1. u \in [1 .. l -> Nat] /\ l \in Nat /\ DEFAULT_EXTRA_MOD_SIZE \in Nat
    BY <1>9 DEF DEFAULT_EXTRA_MOD_SIZE
  <2> HIDE DEF l, u
  <2> QED
    BY <2>1, NothingAdded, Zenon
<1> QED
  BY <1>7, <1>8, <1>10

LEMMA CkksModuli ==
  ASSUME NEW r \in Requests, r.scheme = "CKKS", NEW n
  PROVE  /\ IsModuli(Moduli(r, n))
         /\ Sum(Bits(Moduli(r, n))) = AskedSum(r) + 19 * Extended(r)
PROOF
<1> DEFINE k == r.numPrimes
           SideOf(i) == IF i = k \/ (k - i) % 2 = 0 THEN "above" ELSE "below"
           Scaling(i) == Modulus(r.dcrtBits, IF r.technique \in Flexible /\ i < k - 2 THEN "either" ELSE SideOf(i))
           First == Modulus(r.firstModSize, IF r.firstModSize = r.dcrtBits THEN "above" ELSE "below")
           m == [i \in 1 .. k |-> IF i = 1 THEN First ELSE Scaling(i)]
           x == Extended(r)
           e == Repeat(Modulus(19, "above"), x)
           me == m \o e
           l == k + x
<1>1. ~ SizesFromNoise(r) /\ x \in Nat
  BY DEF SizesFromNoise, Extended
<1>2. Moduli(r, n) = me
  <2>1. DEFAULT_EXTRA_MOD_SIZE - 1 = 19
    BY DEF DEFAULT_EXTRA_MOD_SIZE
  <2>2. Moduli(r, n) = SinglePrimeModuliGen(r)
    BY <1>1 DEF Moduli
  <2>3. SinglePrimeModuliGen(r) = m \o Repeat(Modulus(DEFAULT_EXTRA_MOD_SIZE - 1, "above"), x)
    BY DEF SinglePrimeModuliGen, Extended
  <2> HIDE DEF m, x
  <2> QED
    BY <2>1, <2>2, <2>3
<1>3. k \in Nat \ {0} /\ r.firstModSize \in Nat /\ r.dcrtBits \in Nat
  BY <1>1, AskedFacts
<1>4. m \in [1 .. k -> ModulusType]
  BY <1>3 DEF ModulusType, Modulus
<1>5. Bits(m) = Asked(r)
  <2>1. \A i \in 1 .. k : m[i].bits = IF i = 1 THEN r.firstModSize ELSE r.dcrtBits
    BY DEF Modulus
  <2>2. DOMAIN m = 1 .. k
    OBVIOUS
  <2> HIDE DEF m
  <2> QED
    BY <2>1, <2>2 DEF Bits, Asked, Regular
<1> HIDE DEF m
<1>6. e \in [1 .. x -> ModulusType] /\ Bits(e) = Repeat(19, x)
  <2>1. "above" \in {"below", "above", "either"} /\ 19 \in Nat
    OBVIOUS
  <2> QED
    BY <1>1, <2>1, RepeatBits, Zenon
<1> HIDE DEF e, x, k
<1>7. Bits(me) = Bits(m) \o Bits(e)
  <2>1. k \in Nat
    BY <1>3
  <2> QED
    BY <1>1, <1>4, <1>6, <2>1, BitsConcat, Zenon
<1>8. Sum(Bits(me)) = AskedSum(r) + 19 * x
  <2> DEFINE u == Asked(r)
             v == Repeat(19, x)
  <2>1. v \in [1 .. x -> Nat] /\ Sum(v) = 19 * x
    BY <1>1, RepeatSum
  <2>2. u \in [1 .. k -> Nat] /\ Sum(u) = AskedSum(r) /\ k \in Nat
    BY <1>1, AskedFacts DEF k
  <2>3. Bits(me) = u \o v
    BY <1>5, <1>6, <1>7
  <2> HIDE DEF u, v
  <2>4. Sum(u \o v) = Sum(u) + Sum(v)
    BY <1>1, <2>1, <2>2, SumConcat, Zenon
  <2> QED
    BY <2>1, <2>2, <2>3, <2>4
<1>9. IsModuli(me)
  <2>1. IsJoin(me, m, e, k, x, ModulusType)
    BY <1>1, <1>3, <1>4, <1>6, Joins
  <2>2. me \in [1 .. l -> ModulusType] /\ l \in Nat \ {0}
    BY <1>1, <1>3, <2>1 DEF IsJoin
  <2> QED
    BY <2>2 DEF IsModuli
<1> QED
  BY <1>2, <1>8, <1>9 DEF x

Limbs(r) == BFVLimbs(r, r.logq)

LEMMA LimbsFacts ==
  ASSUME NEW r \in Requests, r.scheme = "BFV"
  PROVE  Limbs(r) \in Nat \ {0} /\ r.dcrtBits \in Nat \ {0} /\ Limbs(r) * r.dcrtBits \in Nat \ {0}
PROOF
<1>1. r.logq \in Nat \ {0} /\ r.dcrtBits \in Nat \ {0}
  BY RequestsAssumption DEF Size, SizesFromNoise
<1>2. Limbs(r) \in Nat \ {0}
  BY <1>1, CeilDivFacts DEF Limbs, BFVLimbs
<1> QED
  BY <1>1, <1>2

LEMMA BfvModuli ==
  ASSUME NEW r \in Requests, r.scheme = "BFV", NEW n
  PROVE  /\ IsModuli(Moduli(r, n)) /\ Below(Moduli(r, n))
         /\ Sum(Bits(Moduli(r, n))) = QEstimate(r) /\ QEstimate(r) \in Nat \ {0}
         /\ Bits(Moduli(r, n)) = AfterFirst(Repeat(r.dcrtBits, Limbs(r)), Repeat(AuxBits, FloodingCount(r)))
PROOF
<1> DEFINE k == Limbs(r)
           m == Repeat(Modulus(r.dcrtBits, "below"), k)
<1>1. /\ k \in Nat \ {0} /\ k \in Nat /\ r.dcrtBits \in Nat \ {0} /\ r.dcrtBits \in Nat
      /\ k * r.dcrtBits \in Nat \ {0}
  BY LimbsFacts
<1>2. FloodingLogQ(r) \in Nat
  BY FloodingFacts
<1>3. Moduli(r, n) = AfterFirst(m, Flooding(r))
  <2>1. m = Repeat(Modulus(r.dcrtBits, "below"), BFVLimbs(r, r.logq)) /\ r.scheme # "CKKS"
    BY DEF Limbs
  <2> HIDE DEF m
  <2>2. Moduli(r, n) = AfterFirst(Repeat(Modulus(r.dcrtBits, "below"), BFVLimbs(r, r.logq)), Flooding(r))
    BY <2>1 DEF Moduli, SizesFromNoise
  <2> QED
    BY <2>1, <2>2
<1>4. QEstimate(r) = k * r.dcrtBits + FloodingLogQ(r)
  BY DEF QEstimate, Limbs
<1> HIDE DEF k
<1>5. m \in [1 .. k -> ModulusType] /\ Bits(m) = Repeat(r.dcrtBits, k)
  <2>1. "below" \in {"below", "above", "either"}
    OBVIOUS
  <2> QED
    BY <1>1, <2>1, RepeatBits, Zenon
<1>6. Below(m)
  BY DEF Below, Repeat, Modulus
<1>7. Sum(Repeat(r.dcrtBits, k)) = r.dcrtBits * k
  BY <1>1, RepeatSum
<1> HIDE DEF m
<1>8. IsModuli(m)
  BY <1>1, <1>5 DEF IsModuli
<1>9. /\ IsModuli(Moduli(r, n)) /\ Below(Moduli(r, n))
      /\ Bits(Moduli(r, n)) = AfterFirst(Bits(m), Repeat(AuxBits, FloodingCount(r)))
      /\ Sum(Bits(Moduli(r, n))) = Sum(Bits(m)) + FloodingLogQ(r)
  BY <1>3, <1>6, <1>8, Flooded
<1>10. r.dcrtBits * k = k * r.dcrtBits
  BY <1>1
<1>11. Sum(Bits(Moduli(r, n))) = QEstimate(r) /\ QEstimate(r) \in Nat \ {0}
  BY <1>1, <1>2, <1>4, <1>5, <1>7, <1>9, <1>10
<1> QED
  BY <1>5, <1>9, <1>11 DEF k

(* Unless the sizes come from the noise, the estimate, with its extra bit, *)
(* holds every product the moduli may have; or all there is is one word.   *)
LEMMA EstimateHolds ==
  ASSUME NEW r \in Requests, ~ SizesFromNoise(r), NEW n
  PROVE  LET bound == QEstimate(r) + ExtraBit(r)
             longest == Longest(Moduli(r, n))
         IN  /\ IsModuli(Moduli(r, n)) /\ bound \in Nat \ {0}
             /\ longest <= bound \/ (bound = AuxBits /\ longest = bound + 1)
PROOF
<1> DEFINE m == Moduli(r, n)
           bound == QEstimate(r) + ExtraBit(r)
           longest == Longest(m)
<1>1. CASE r.scheme = "CKKS"
  <2> DEFINE asked == AskedSum(r)
             x == Extended(r)
             f == FloodingLogQ(r)
             q == QEstimate(r)
  <2>1. asked \in Nat \ {0} /\ x \in {0, 1} /\ f \in Nat
    BY AskedFacts, FloodingFacts DEF Extended
  <2>2. IsModuli(m) /\ Sum(Bits(m)) = asked + 19 * x
    BY <1>1, CkksModuli
  <2>3. q = asked + f + 20 * x
    <3>1. r.scheme # "BFV" /\ q = Sum(EstimatedSizes(r))
      BY <1>1 DEF QEstimate
    <3> QED
      BY <3>1, EstimateAsked
  <2>4. ExtraBit(r) = IF q # 60 THEN 1 ELSE 0
    BY <1>1 DEF ExtraBit, AddOne, AuxBits
  <2>5. longest = Sum(Bits(m)) \/ longest = Sum(Bits(m)) + 1
    <3>1. Sum(Bits(m)) \in Nat
      BY <2>2, LongestIs
    <3> QED
      BY <3>1 DEF Longest
  <2> HIDE DEF m, longest, asked, x, f, q
  <2>6. bound = q + (IF q # 60 THEN 1 ELSE 0)
    BY <2>4 DEF q
  <2> HIDE DEF bound
  <2>7. /\ bound \in Nat \ {0}
        /\ longest <= bound \/ (bound = 60 /\ longest = bound + 1)
    <3> DEFINE s == Sum(Bits(m))
    <3>1. s = asked + 19 * x /\ (longest = s \/ longest = s + 1)
      BY <2>2, <2>5
    <3> HIDE DEF s
    <3>2. x = 0 \/ x = 1
      BY <2>1
    <3>3. CASE x = 0
      BY <2>1, <2>3, <2>6, <3>1, <3>3
    <3>4. CASE x = 1
      BY <2>1, <2>3, <2>6, <3>1, <3>4
    <3> QED
      BY <3>2, <3>3, <3>4
  <2> QED
    BY <2>2, <2>7 DEF m, longest, bound, AuxBits
<1>2. CASE r.scheme = "BGV"
  <2>1. r.technique = "FIXEDMANUAL" /\ r.scheme # "BFV"
    BY <1>2 DEF SizesFromNoise
  <2>2. IsModuli(m) /\ Below(m) /\ Bits(m) = EstimatedSizes(r)
    BY <1>2, <2>1, ManualModuli
  <2>3. QEstimate(r) = AskedSum(r) + FloodingLogQ(r) + 20 * Extended(r) /\ QEstimate(r) = Sum(EstimatedSizes(r))
    BY <2>1, EstimateAsked DEF QEstimate
  <2>4. AskedSum(r) \in Nat \ {0} /\ FloodingLogQ(r) \in Nat /\ Extended(r) \in Nat
    BY AskedFacts, FloodingFacts DEF Extended
  <2>5. ExtraBit(r) = 0
    BY <1>2 DEF ExtraBit, AddOne
  <2>6. longest = QEstimate(r) + 0
    BY <2>2, <2>3 DEF Longest
  <2>7. QEstimate(r) \in Nat \ {0}
    BY <2>3, <2>4
  <2>8. bound = QEstimate(r) /\ longest = QEstimate(r)
    BY <2>5, <2>6, <2>7
  <2> HIDE DEF m, bound, longest
  <2>9. bound \in Nat \ {0} /\ longest <= bound
    BY <2>7, <2>8
  <2> QED
    BY <2>2, <2>9 DEF m, bound, longest
<1>3. CASE r.scheme = "BFV"
  <2>1. IsModuli(m) /\ Below(m) /\ Sum(Bits(m)) = QEstimate(r) /\ QEstimate(r) \in Nat \ {0}
    BY <1>3, BfvModuli
  <2>2. ExtraBit(r) = 0
    BY <1>3 DEF ExtraBit, AddOne
  <2>3. longest = QEstimate(r) + 0
    BY <2>1 DEF Longest
  <2>4. bound = QEstimate(r) /\ longest = QEstimate(r)
    BY <2>1, <2>2, <2>3
  <2> HIDE DEF m, bound, longest
  <2>5. bound \in Nat \ {0} /\ longest <= bound
    BY <2>1, <2>4
  <2> QED
    BY <2>1, <2>5 DEF m, bound, longest
<1> QED
  BY <1>1, <1>2, <1>3, RequestsAssumption

(* BGV with sizes from its noise analysis: the moduli of a pass are those  *)
(* that are selected, without the flooding ones.                           *)
HasSize(s) == \E n \in Nat \ {0} : s \in [1 .. n -> Nat] /\ s[1] > 0

LEMMA NoiseModuli ==
  ASSUME NEW r \in Requests, SizesFromNoise(r), NEW n \in RingDims(r)
  PROVE  LET m == ComputeModuli(r, n)
         IN  /\ IsModuli(m) /\ IsModuli(Moduli(r, n))
             /\ Longest(Moduli(r, n)) = Longest(m) + FloodingLogQ(r)
             /\ Sum(Bits(Moduli(r, n))) \in Nat \ {0}
             /\ HasSize(PassSizes(r, m))
PROOF
<1> DEFINE k == r.numPrimes
           x == Extended(r)
           l == k + x
           sizes == r.modSizes[n]
           m1 == [i \in 1 .. k |-> Modulus(sizes[IF i = 1 THEN 1 ELSE 2], "above")]
           e == Repeat(Modulus(sizes[3], "above"), x)
           m == m1 \o e
           b == [i \in DOMAIN m |-> m[IF i \in 3 .. k THEN 2 ELSE i].bits]
           fc == FloodingCount(r)
           u == AfterFirst(b, Repeat(AuxBits, fc))
<1>1. /\ k \in Nat \ {0} /\ x \in Nat
      /\ sizes[1] \in Nat \ {0} /\ sizes[2] \in Nat /\ sizes[3] \in Nat
  <2>1. sizes \in Size \X Size \X Size
    BY RequestsAssumption
  <2> QED
    BY <2>1, RequestsAssumption DEF Size, Extended
<1>2. ComputeModuli(r, n) = m
  BY DEF ComputeModuli, Extended
<1>3. Moduli(r, n) = AfterFirst(m, Flooding(r))
  <2>1. r.scheme # "CKKS" /\ r.scheme # "BFV"
    BY DEF SizesFromNoise
  <2>2. Moduli(r, n) = AfterFirst(ComputeModuli(r, n), Flooding(r))
    BY <2>1 DEF Moduli
  <2> QED
    BY <1>2, <2>2
<1> HIDE DEF sizes
<1>4. m1 \in [1 .. k -> ModulusType] /\ m1[1].bits = sizes[1]
  BY <1>1 DEF ModulusType, Modulus
<1>5. e \in [1 .. x -> ModulusType]
  <2>1. Modulus(sizes[3], "above") \in ModulusType
    BY <1>1 DEF ModulusType, Modulus
  <2> QED
    BY <1>1, <2>1, RepeatFacts
<1> HIDE DEF k, x, m1, e
<1>6. IsJoin(m, m1, e, k, x, ModulusType)
  BY <1>1, <1>4, <1>5, Joins
<1> HIDE DEF m
<1>7. m \in [1 .. l -> ModulusType] /\ l \in Nat \ {0} /\ m[1] = m1[1]
  BY <1>1, <1>6 DEF IsJoin
<1>8. IsModuli(m)
  BY <1>7 DEF IsModuli
<1>9. /\ IsModuli(Moduli(r, n)) /\ Longest(Moduli(r, n)) = Longest(m) + FloodingLogQ(r)
      /\ Sum(Bits(Moduli(r, n))) \in Nat \ {0}
  <2> DEFINE s == Sum(Bits(m))
             t == Sum(Bits(Moduli(r, n)))
  <2>1. /\ IsModuli(Moduli(r, n)) /\ Longest(Moduli(r, n)) = Longest(m) + FloodingLogQ(r)
        /\ t = s + FloodingLogQ(r)
    BY <1>3, <1>8, Flooded
  <2>2. s \in Nat /\ s >= Bits(m)[1] /\ Bits(m)[1] = m[1].bits
    <3> HIDE DEF l
    <3>1. l \in Nat /\ 1 \in 1 .. l
      BY <1>7
    <3>2. Bits(m) \in [1 .. l -> Nat] /\ Bits(m)[1] = m[1].bits
      BY <1>7, <3>1, BitsFacts
    <3> QED
      BY <1>7, <3>2, SumAtLeast, SumIn
  <2>3. m[1].bits \in Nat \ {0} /\ FloodingLogQ(r) \in Nat
    BY <1>1, <1>4, <1>7, FloodingFacts
  <2> HIDE DEF s, t
  <2>4. t \in Nat \ {0}
    BY <2>1, <2>2, <2>3
  <2> QED
    BY <2>1, <2>4 DEF t
<1>10. b \in [1 .. l -> Nat] /\ b[1] = sizes[1]
  <2>1. DOMAIN m = 1 .. l /\ 1 \in 1 .. l /\ ~ (1 \in 3 .. k)
    BY <1>7
  <2>2. \A i \in 1 .. l : (IF i \in 3 .. k THEN 2 ELSE i) \in 1 .. l
    BY <1>1
  <2>3. \A i \in 1 .. l : m[i].bits \in Nat
    BY <1>7 DEF ModulusType
  <2>4. \A i \in 1 .. l : m[IF i \in 3 .. k THEN 2 ELSE i].bits \in Nat
    <3> HIDE DEF l
    <3> QED
      BY <2>2, <2>3
  <2> HIDE DEF l
  <2>5. b \in [1 .. l -> Nat]
    BY <2>1, <2>4
  <2>6. b[1] = m[1].bits
    BY <2>1
  <2> QED
    BY <1>4, <1>7, <2>5, <2>6
<1>11. PassSizes(r, m) = u
  <2>1. FloodingLogQ(r) \div MULTIPARTY_MOD_SIZE = fc
    BY FloodingFacts
  <2>2. MULTIPARTY_MOD_SIZE = AuxBits
    BY DEF MULTIPARTY_MOD_SIZE, AuxBits
  <2> QED
    BY <2>1, <2>2 DEF PassSizes, k
<1> HIDE DEF b, l
<1>12. fc \in Nat
  BY FloodingFacts
<1> HIDE DEF fc
<1>13. Repeat(AuxBits, fc) \in [1 .. fc -> Nat]
  BY <1>12, RepeatSum DEF AuxBits
<1>14. IsAfterFirst(u, b, Repeat(AuxBits, fc), l, fc, Nat)
  BY <1>7, <1>10, <1>12, <1>13, AfterFirstFacts
<1> HIDE DEF u
<1>15. HasSize(u)
  <2> DEFINE j == l + fc
  <2>1. j \in Nat \ {0} /\ u \in [1 .. j -> Nat] /\ u[1] = b[1]
    BY <1>7, <1>12, <1>14 DEF IsAfterFirst
  <2> HIDE DEF j
  <2>2. u[1] > 0
    BY <1>1, <1>10, <2>1
  <2> QED
    BY <2>1, <2>2 DEF HasSize
<1> QED
  BY <1>2, <1>8, <1>9, <1>11, <1>15

LEMMA EstimatedHaveSize ==
  ASSUME NEW r \in Requests, ~ SizesFromNoise(r)
  PROVE  HasSize(EstimatedSizes(r))
PROOF
<1> DEFINE s == EstimatedSizes(r)
<1>1. CASE r.scheme # "BFV"
  <2> DEFINE l == r.numPrimes + FloodingCount(r) + Extended(r)
  <2>1. s \in [1 .. l -> Nat] /\ s[1] = r.firstModSize
    BY <1>1, EstimateAsked
  <2>2. r.firstModSize \in Nat \ {0} /\ r.numPrimes \in Nat \ {0}
    BY AskedFacts
  <2>3. l \in Nat \ {0}
    BY <2>2, FloodingFacts DEF Extended
  <2> HIDE DEF l, s
  <2>4. HasSize(s)
    BY <2>1, <2>2, <2>3 DEF HasSize
  <2> QED
    BY <2>4 DEF s
<1>2. CASE r.scheme = "BFV"
  <2> DEFINE l == BFVLimbs(r, Limbs(r) * r.dcrtBits + FloodingLogQ(r))
  <2>1. r.dcrtBits \in Nat \ {0} /\ Limbs(r) * r.dcrtBits \in Nat \ {0} /\ FloodingLogQ(r) \in Nat
    BY <1>2, LimbsFacts, FloodingFacts
  <2>2. Limbs(r) * r.dcrtBits + FloodingLogQ(r) \in Nat \ {0}
    BY <2>1
  <2>3. l \in Nat \ {0}
    BY <2>1, <2>2, CeilDivFacts DEF BFVLimbs
  <2>4. s = Repeat(r.dcrtBits, l)
    BY <1>2 DEF EstimatedSizes, Limbs
  <2> HIDE DEF l
  <2>5. s \in [1 .. l -> Nat] /\ s[1] = r.dcrtBits
    BY <2>1, <2>3, <2>4 DEF Repeat
  <2> HIDE DEF s
  <2>6. HasSize(s)
    BY <2>1, <2>3, <2>5 DEF HasSize
  <2> QED
    BY <2>6 DEF s
<1> QED
  BY <1>1, <1>2

-----------------------------------------------------------------------------
(* The estimate of P.                                                      *)
LEMMA MaxExists ==
  ASSUME NEW n \in Nat, NEW g \in [0 .. n -> Nat]
  PROVE  \E i \in 0 .. n : \A j \in 0 .. n : g[i] >= g[j]
PROOF
<1> DEFINE P == {k \in 0 .. n : \E i \in 0 .. k : \A j \in 0 .. k : g[i] >= g[j]}
<1>1. 0 \in P
  <2>1. 0 \in 0 .. n /\ g[0] \in Nat /\ \A j \in 0 .. 0 : j = 0
    OBVIOUS
  <2>2. \A j \in 0 .. 0 : g[0] >= g[j]
    BY <2>1
  <2> QED
    BY <2>1, <2>2
<1>2. ASSUME NEW k \in 0 .. n - 1, k \in P
      PROVE  k + 1 \in P
  <2>1. PICK i \in 0 .. k : \A j \in 0 .. k : g[i] >= g[j]
    BY <1>2
  <2>2. k + 1 \in 0 .. n /\ g[k + 1] \in Nat /\ g[i] \in Nat /\ i \in 0 .. k + 1
    OBVIOUS
  <2>3. \A j \in 0 .. k + 1 : (j \in 0 .. k \/ j = k + 1) /\ g[j] \in Nat
    OBVIOUS
  <2>4. CASE g[i] >= g[k + 1]
    <3>1. \A j \in 0 .. k + 1 : g[i] >= g[j]
      BY <2>1, <2>3, <2>4
    <3> QED
      BY <2>2, <3>1
  <2>5. CASE g[k + 1] > g[i]
    <3>1. \A j \in 0 .. k + 1 : g[k + 1] >= g[j]
      BY <2>1, <2>2, <2>3, <2>5
    <3>2. k + 1 \in 0 .. k + 1
      OBVIOUS
    <3> QED
      BY <2>2, <3>1, <3>2
  <2> QED
    BY <2>2, <2>4, <2>5
<1> HIDE DEF P
<1>3. \A k \in 0 .. n : k \in P
  BY <1>1, <1>2, BoundedInduction, Zenon
<1>4. n \in 0 .. n
  OBVIOUS
<1> QED
  BY <1>3, <1>4 DEF P

\* The j-th digit of a sequence of n elements, in digits of a elements.
First(j, a) == j * a + 1
Last(j, a, n) == Min({(j + 1) * a, n})
Digit(s, j, a, n) == SubSeq(s, First(j, a), Last(j, a, n))

LEMMA DigitBounds ==
  ASSUME NEW j \in Nat, NEW a \in Nat, NEW n \in Nat
  PROVE  /\ First(j, a) \in Nat \ {0} /\ Last(j, a, n) \in Nat
         /\ Last(j, a, n) <= n /\ Last(j, a, n) = IF (j + 1) * a <= n THEN (j + 1) * a ELSE n
PROOF
<1> DEFINE x == (j + 1) * a
<1>1. x \in Nat /\ j * a \in Nat
  OBVIOUS
<1> HIDE DEF x
<1>2. Min({x, n}) = IF x <= n THEN x ELSE n
  <2>1. \A y \in {x, n} : (\A z \in {x, n} : y <= z) <=> y = (IF x <= n THEN x ELSE n)
    BY <1>1
  <2> QED
    BY <2>1 DEF Min
<1>3. Last(j, a, n) = IF x <= n THEN x ELSE n
  BY <1>2 DEF Last, x
<1>4. First(j, a) \in Nat \ {0}
  BY <1>1 DEF First
<1> QED
  BY <1>1, <1>3, <1>4 DEF x

LEMMA SubSeqIs ==
  ASSUME NEW S, NEW n \in Nat, NEW s \in [1 .. n -> S], NEW lo \in Nat \ {0}, NEW hi \in Nat, hi <= n
  PROVE  \E k \in Nat : /\ k = (IF lo <= hi THEN hi - lo + 1 ELSE 0)
                        /\ SubSeq(s, lo, hi) \in [1 .. k -> S]
                        /\ \A i \in 1 .. k : SubSeq(s, lo, hi)[i] = s[lo + i - 1]
PROOF
<1> DEFINE k == IF lo <= hi THEN hi - lo + 1 ELSE 0
           t == SubSeq(s, lo, hi)
<1>1. \A i \in lo .. hi : s[i] \in S
  OBVIOUS
<1>2. lo \in Int /\ hi \in Int
  OBVIOUS
<1>3. /\ t \in Seq(S) /\ Len(t) = k
      /\ \A i \in 1 .. hi - lo + 1 : t[i] = s[lo + i - 1]
  BY <1>1, <1>2, SubSeqProperties
<1>4. k \in Nat /\ \A i \in 1 .. k : i \in 1 .. hi - lo + 1
  OBVIOUS
<1> HIDE DEF t
<1>5. t \in [1 .. k -> S]
  BY <1>3, LenProperties
<1> QED
  BY <1>3, <1>4, <1>5 DEF t

LEMMA DigitSums ==
  ASSUME NEW n \in Nat, NEW s \in [1 .. n -> Nat], NEW j \in Nat, NEW a \in Nat
  PROVE  Sum(Digit(s, j, a, n)) \in Nat
PROOF
<1>1. First(j, a) \in Nat \ {0} /\ Last(j, a, n) \in Nat /\ Last(j, a, n) <= n
  BY DigitBounds
<1>2. PICK k \in Nat : Digit(s, j, a, n) \in [1 .. k -> Nat]
  <2> DEFINE lo == First(j, a)
             hi == Last(j, a, n)
  <2>1. lo \in Nat \ {0} /\ hi \in Nat /\ hi <= n
    BY <1>1
  <2> HIDE DEF lo, hi
  <2>2. \E k \in Nat : SubSeq(s, lo, hi) \in [1 .. k -> Nat]
    BY <2>1, SubSeqIs
  <2> QED
    BY <2>2 DEF lo, hi, Digit
<1> QED
  BY <1>2, SumIn

\* The sums of the digits: d of them, of a elements each but the last.
SumsOfDigits(s, d) == {Sum(digit) : digit \in Digits(s, d)}

LEMMA MaxOfDigits ==
  ASSUME NEW n \in Nat, NEW s \in [1 .. n -> Nat], NEW d \in Nat \ {0}, CeilDiv(n, d) \in Nat
  PROVE  /\ SumsOfDigits(s, d) = {Sum(Digit(s, j, CeilDiv(n, d), n)) : j \in 0 .. d - 1}
         /\ Max(SumsOfDigits(s, d)) \in SumsOfDigits(s, d)
         /\ \A x \in SumsOfDigits(s, d) : x \in Nat /\ Max(SumsOfDigits(s, d)) >= x
PROOF
<1> DEFINE a == CeilDiv(n, d)
           S == SumsOfDigits(s, d)
           l == d - 1
           g == [j \in 0 .. l |-> Sum(Digit(s, j, a, n))]
<1>1. Len(s) = n
  OBVIOUS
<1>2. S = {Sum(Digit(s, j, a, n)) : j \in 0 .. d - 1}
  BY <1>1 DEF SumsOfDigits, Digits, Digit, First, Last
<1>3. l \in Nat /\ \A j \in 0 .. l : j \in Nat
  OBVIOUS
<1>4. \A j \in 0 .. l : Sum(Digit(s, j, a, n)) \in Nat
  BY <1>3, DigitSums
<1>5. g \in [0 .. l -> Nat]
  BY <1>4
<1>6. S = {g[j] : j \in 0 .. l}
  BY <1>2
<1> HIDE DEF g, S, a
<1>7. PICK i \in 0 .. l : \A j \in 0 .. l : g[i] >= g[j]
  <2> HIDE DEF l
  <2> QED
    BY <1>3, <1>5, MaxExists
<1> HIDE DEF l
<1>8. g[i] \in S /\ (\A x \in S : g[i] >= x) /\ \A x \in S : x \in Nat
  BY <1>5, <1>6, <1>7
<1>9. Max(S) \in S /\ \A x \in S : Max(S) >= x
  BY <1>8 DEF Max
<1> QED
  BY <1>2, <1>8, <1>9 DEF S, a

LEMMA EstimatePositive ==
  ASSUME NEW s, HasSize(s), NEW numPartQ \in Nat \ {0}, NEW addOne \in BOOLEAN
  PROVE  EstimateLogP(numPartQ, s, addOne) \in Nat \ {0}
PROOF
<1> PICK n \in Nat \ {0} : s \in [1 .. n -> Nat] /\ s[1] > 0
  BY DEF HasSize
<1> DEFINE d == Min({numPartQ, Len(s)})
           a == CeilDiv(n, d)
           S == SumsOfDigits(s, d)
           dig == Digit(s, 0, a, n)
<1>1. Len(s) = n
  OBVIOUS
<1>2. d \in Nat \ {0}
  <2>1. \A y \in {numPartQ, n} : (\A z \in {numPartQ, n} : y <= z) <=> y = (IF numPartQ <= n THEN numPartQ ELSE n)
    OBVIOUS
  <2>2. Min({numPartQ, n}) = IF numPartQ <= n THEN numPartQ ELSE n
    BY <2>1 DEF Min
  <2> QED
    BY <1>1, <2>2
<1> HIDE DEF d
<1>3. a \in Nat \ {0}
  BY <1>2, CeilDivFacts
<1> HIDE DEF a
<1>4. /\ S = {Sum(Digit(s, j, a, n)) : j \in 0 .. d - 1}
      /\ Max(S) \in S /\ \A x \in S : x \in Nat /\ Max(S) >= x
  BY <1>2, <1>3, MaxOfDigits DEF a
<1> HIDE DEF S
<1>5. Sum(dig) > 0
  <2> DEFINE lo == First(0, a)
             hi == Last(0, a, n)
  <2>1. lo = 1 /\ hi \in Nat /\ hi <= n /\ hi >= 1
    <3>1. 0 * a + 1 = 1 /\ (0 + 1) * a = a
      BY <1>3
    <3>2. hi \in Nat /\ hi <= n /\ hi = IF (0 + 1) * a <= n THEN (0 + 1) * a ELSE n
      BY <1>3, DigitBounds
    <3> QED
      BY <1>3, <3>1, <3>2 DEF First
  <2>2. dig = SubSeq(s, lo, hi)
    BY DEF Digit
  <2> HIDE DEF lo, hi
  <2>3. PICK k \in Nat : /\ k = (IF lo <= hi THEN hi - lo + 1 ELSE 0)
                         /\ dig \in [1 .. k -> Nat]
                         /\ \A i \in 1 .. k : dig[i] = s[lo + i - 1]
    <3>1. lo \in Nat \ {0}
      BY <2>1
    <3> QED
      BY <2>1, <2>2, <3>1, SubSeqIs
  <2> HIDE DEF dig
  <2>4. k \in Nat \ {0} /\ dig[1] = s[1]
    BY <2>1, <2>3
  <2>5. Sum(dig) >= dig[1] /\ Sum(dig) \in Nat
    BY <2>3, <2>4, SumAtLeast, SumIn
  <2> QED
    BY <2>4, <2>5
<1>6. Sum(dig) \in S
  BY <1>2, <1>4
<1> DEFINE most == Max(S)
           bits == most + (IF addOne /\ most # AuxBits THEN 1 ELSE 0)
<1>7. most \in Nat \ {0}
  <2>1. most \in Nat /\ most >= Sum(dig) /\ Sum(dig) \in Nat
    BY <1>4, <1>6
  <2> HIDE DEF most, dig
  <2> QED
    BY <1>5, <2>1
<1>8. EstimateLogP(numPartQ, s, addOne) = CeilDiv(bits, AuxBits)
  BY DEF EstimateLogP, S, SumsOfDigits, d
<1> HIDE DEF most
<1>9. bits \in Nat \ {0}
  BY <1>7
<1> HIDE DEF bits
<1>10. AuxBits \in Nat \ {0}
  BY DEF AuxBits
<1> QED
  BY <1>8, <1>9, <1>10, CeilDivFacts

-----------------------------------------------------------------------------
(* The ring dimension.  RingFits: n holds the moduli of r and w words.     *)
RingFits(r, n, w) == StandardRing(r, Longest(Moduli(r, n)) + AuxBits * w) <= n

LEMMA LevelAsked ==
  ASSUME NEW r \in Requests, NEW logQ
  PROVE  /\ StandardRing(r, logQ) \in Nat
         /\ r.level # "HEStd_NotSet" => /\ StandardRing(r, logQ) = FindRingDim(r.level, logQ)
                                        /\ r.level \in Levels
                                        /\ StandardRing(r, logQ) \in {RingDimOfRow(i) : i \in 1 .. 9}
PROOF
<1>1. r.level # "HEStd_NotSet" => r.level \in Levels
  BY RequestsAssumption DEF Levels
<1>2. CASE r.level = "HEStd_NotSet"
  BY <1>2 DEF StandardRing
<1>3. CASE r.level # "HEStd_NotSet"
  <2> DEFINE row == RowOf(r.level, logQ)
  <2>1. StandardRing(r, logQ) = RingDimOfRow(row) /\ StandardRing(r, logQ) = FindRingDim(r.level, logQ)
    BY <1>1, <1>3, RingIsRow DEF StandardRing
  <2>2. row \in 1 .. 9
    BY <1>1, <1>3, RowFacts
  <2> HIDE DEF row
  <2>3. RingDimOfRow(row) \in Nat
    BY <2>2, RowsGrow
  <2> QED
    BY <1>1, <1>3, <2>1, <2>2, <2>3
<1> QED
  BY <1>2, <1>3

(* A ring that complies is at least what the standard asks for.            *)
LEMMA ChosenRing ==
  ASSUME NEW r \in Requests, NEW q, Complies(r, q)
  PROVE  /\ ComputeRingDimension(r, q) \in Nat
         /\ StandardRing(r, q) <= ComputeRingDimension(r, q)
         /\ SizesFromNoise(r) => ComputeRingDimension(r, q) \in RingDims(r)
PROOF
<1> DEFINE std == StandardRing(r, q)
<1>1. std \in Nat /\ r.ring \in Nat
  BY LevelAsked, RequestsAssumption
<1>2. CASE r.ring # 0
  BY <1>1, <1>2 DEF Complies, ComputeRingDimension, RingDims
<1>3. CASE r.ring = 0 /\ r.scheme = "BFV"
  <2> HIDE DEF std
  <2>1. ComputeRingDimension(r, q) = Max({512, std})
    BY <1>3 DEF ComputeRingDimension, std
  <2>2. \A y \in {512, std} : (\A z \in {512, std} : y >= z) <=> y = (IF 512 >= std THEN 512 ELSE std)
    BY <1>1
  <2>3. Max({512, std}) = IF 512 >= std THEN 512 ELSE std
    BY <2>2 DEF Max
  <2>4. ~ SizesFromNoise(r)
    BY <1>3 DEF SizesFromNoise
  <2>5. ComputeRingDimension(r, q) \in Nat /\ std <= ComputeRingDimension(r, q)
    BY <1>1, <2>1, <2>3
  <2> QED
    BY <2>4, <2>5 DEF std
<1>4. CASE r.ring = 0 /\ r.scheme # "BFV"
  <2>1. ComputeRingDimension(r, q) = std /\ r.level # "HEStd_NotSet"
    BY <1>4 DEF ComputeRingDimension, Complies
  <2>2. std \in RingDims(r)
    BY <1>4, <2>1, LevelAsked DEF RingDims
  <2> QED
    BY <1>1, <2>1, <2>2
<1> QED
  BY <1>2, <1>3, <1>4

LEMMA DigitsAsked ==
  ASSUME NEW r \in Requests, NEW m
  PROVE  NumPartQ(r, m) \in Nat \ {0}
PROOF
<1>1. r.digits \in Nat
  BY RequestsAssumption
<1>2. \A x : ComputeNumLargeDigits(r.digits, x) \in Nat \ {0}
  BY <1>1 DEF ComputeNumLargeDigits
<1> QED
  BY <1>2 DEF NumPartQ

LEMMA ModuliAre ==
  ASSUME NEW r \in Requests, NEW n, SizesFromNoise(r) => n \in RingDims(r)
  PROVE  IsModuli(Moduli(r, n)) /\ Sum(Bits(Moduli(r, n))) \in Nat \ {0}
PROOF
<1>1. CASE SizesFromNoise(r)
  BY <1>1, NoiseModuli
<1>2. CASE r.scheme = "CKKS"
  <2>1. ~ SizesFromNoise(r)
    BY <1>2 DEF SizesFromNoise
  <2>2. AskedSum(r) \in Nat \ {0} /\ Extended(r) \in Nat
    BY <2>1, AskedFacts DEF Extended
  <2>3. IsModuli(Moduli(r, n)) /\ Sum(Bits(Moduli(r, n))) = AskedSum(r) + 19 * Extended(r)
    BY <1>2, CkksModuli
  <2> QED
    BY <2>2, <2>3
<1>3. CASE r.scheme = "BFV"
  BY <1>3, BfvModuli
<1>4. CASE r.scheme = "BGV" /\ ~ SizesFromNoise(r)
  <2>1. r.technique = "FIXEDMANUAL" /\ r.scheme # "BFV"
    BY <1>4 DEF SizesFromNoise
  <2>2. AskedSum(r) \in Nat \ {0} /\ FloodingLogQ(r) \in Nat /\ Extended(r) \in Nat
    BY <1>4, AskedFacts, FloodingFacts DEF Extended
  <2>3. IsModuli(Moduli(r, n)) /\ Bits(Moduli(r, n)) = EstimatedSizes(r)
    BY <1>4, <2>1, ManualModuli
  <2>4. Sum(EstimatedSizes(r)) = AskedSum(r) + FloodingLogQ(r) + 20 * Extended(r)
    BY <1>4, <2>1, EstimateAsked
  <2>5. AskedSum(r) + FloodingLogQ(r) + 20 * Extended(r) \in Nat \ {0}
    BY <2>2
  <2> QED
    BY <2>3, <2>4, <2>5
<1> QED
  BY <1>1, <1>2, <1>3, <1>4, RequestsAssumption

LEMMA RingFitsEstimate ==
  ASSUME NEW r \in Requests, ~ SizesFromNoise(r), r.level # "HEStd_NotSet", NEW n \in Nat, NEW w \in Nat,
         StandardRing(r, QBound(r, w)) <= n
  PROVE  RingFits(r, n, w)
PROOF
<1> DEFINE bound == QEstimate(r) + ExtraBit(r)
           longest == Longest(Moduli(r, n))
           words == AuxBits * w
           level == r.level
<1>1. /\ bound \in Nat \ {0}
      /\ longest <= bound \/ (bound = AuxBits /\ longest = bound + 1)
  BY EstimateHolds
<1>2. IsModuli(Moduli(r, n)) /\ Sum(Bits(Moduli(r, n))) \in Nat \ {0}
  BY ModuliAre
<1>3. longest \in Nat \ {0}
  BY <1>2 DEF Longest
<1>4. words \in Nat /\ words = w * AuxBits /\ AuxBits = 60
  BY DEF AuxBits
<1>5. QBound(r, w) = bound + words
  <2> HIDE DEF words
  <2> QED
    BY <1>4 DEF QBound
<1>6. level \in Levels /\ \A q : StandardRing(r, q) = FindRingDim(level, q)
  BY LevelAsked
<1> HIDE DEF level, longest, bound
<1>7. FindRingDim(level, bound + words) <= n
  BY <1>5, <1>6
<1>8. CASE longest <= bound
  <2> DEFINE x == longest + words
             y == bound + words
  <2>1. x \in Nat \ {0} /\ y \in Nat /\ x <= y
    BY <1>1, <1>3, <1>4, <1>8
  <2> HIDE DEF x, y
  <2>2. /\ FindRingDim(level, x) \in Nat /\ FindRingDim(level, y) \in Nat
        /\ FindRingDim(level, x) <= FindRingDim(level, y)
    BY <1>6, <2>1, FindRingDimGrows
  <2>3. FindRingDim(level, x) <= n
    BY <1>7, <2>2 DEF y
  <2> QED
    BY <1>6, <2>3 DEF RingFits, x, longest
<1>9. CASE bound = AuxBits /\ longest = bound + 1
  <2> DEFINE k == 1 + w
  <2>1. k \in Nat \ {0} /\ longest + words = AuxBits * k + 1 /\ bound + words = AuxBits * k
    BY <1>4, <1>9
  <2> HIDE DEF k
  <2>2. FindRingDim(level, AuxBits * k + 1) = FindRingDim(level, AuxBits * k)
    BY <1>6, <2>1, WholeWords
  <2>3. FindRingDim(level, longest + words) <= n
    BY <1>7, <2>1, <2>2
  <2> QED
    BY <1>6, <2>3 DEF RingFits, longest
<1> QED
  BY <1>1, <1>8, <1>9

LEMMA RingFitsNoise ==
  ASSUME NEW r \in Requests, SizesFromNoise(r), r.level # "HEStd_NotSet", NEW n \in RingDims(r), NEW w \in Nat,
         n \in Nat, NEW q \in Nat, StandardRing(r, q) <= n, q >= NewQBound(r, ComputeModuli(r, n), w)
  PROVE  RingFits(r, n, w)
PROOF
<1> DEFINE m == ComputeModuli(r, n)
           x == Longest(Moduli(r, n)) + AuxBits * w
           level == r.level
<1>1. /\ IsModuli(m) /\ Longest(Moduli(r, n)) = Longest(m) + FloodingLogQ(r)
      /\ IsModuli(Moduli(r, n)) /\ Sum(Bits(Moduli(r, n))) \in Nat \ {0}
  BY NoiseModuli
<1>2. Max(Lengths(m)) = Longest(m) /\ Longest(m) \in Nat /\ FloodingLogQ(r) \in Nat
  BY <1>1, LongestIs, FloodingFacts
<1>3. Longest(Moduli(r, n)) \in Nat \ {0}
  BY <1>1 DEF Longest
<1>4. AuxBits = 60 /\ AuxBits * w = w * AuxBits /\ AuxBits * w \in Nat
  BY DEF AuxBits
<1>5. NewQBound(r, m, w) = x
  BY <1>1, <1>2, <1>4 DEF NewQBound
<1>6. x \in Nat \ {0}
  BY <1>3, <1>4
<1>7. level \in Levels /\ \A y : StandardRing(r, y) = FindRingDim(level, y)
  BY LevelAsked
<1> HIDE DEF x, level, m
<1>8. x <= q
  BY <1>5, <1>6 DEF m
<1>9. FindRingDim(level, x) \in Nat /\ FindRingDim(level, q) \in Nat /\ FindRingDim(level, x) <= FindRingDim(level, q)
  BY <1>6, <1>7, <1>8, FindRingDimGrows
<1>10. FindRingDim(level, x) <= n
  BY <1>7, <1>9
<1> QED
  BY <1>7, <1>10 DEF RingFits, x

(* A ring that fits passes the validation, however the selection turned.   *)
LEMMA ValidRing ==
  ASSUME NEW r \in Requests, NEW n \in Nat, SizesFromNoise(r) => n \in RingDims(r), NEW w \in Nat,
         r.level # "HEStd_NotSet" => RingFits(r, n, w),
         NEW l \in Lengths(Moduli(r, n) \o Repeat(Modulus(AuxBits, "below"), w))
  PROVE  StandardRing(r, l) <= n
PROOF
<1> DEFINE m == Moduli(r, n)
           qp == m \o Repeat(Modulus(AuxBits, "below"), w)
           level == r.level
           y == Longest(m) + AuxBits * w
<1>1. CASE r.level = "HEStd_NotSet"
  BY <1>1 DEF StandardRing
<1>2. CASE r.level # "HEStd_NotSet"
  <2>1. IsModuli(m) /\ Sum(Bits(m)) \in Nat \ {0}
    BY ModuliAre
  <2>2. level \in Levels /\ \A x : StandardRing(r, x) = FindRingDim(level, x)
    BY <1>2, LevelAsked
  <2>3. RingFits(r, n, w) /\ AuxBits * w \in Nat /\ AuxBits * w >= 0
    BY <1>2 DEF AuxBits
  <2> HIDE DEF m, level
  <2>4. IsModuli(qp) /\ Longest(qp) = y /\ Sum(Bits(qp)) = Sum(Bits(m)) + AuxBits * w
    BY <2>1, WithWords
  <2>5. l \in Lengths(qp)
    BY DEF m
  <2> HIDE DEF qp, y
  <2>6. l \in Nat /\ Sum(Bits(qp)) <= l /\ l <= Longest(qp) /\ Longest(qp) \in Nat
    BY <2>4, <2>5, LongestIs
  <2>7. l \in Nat \ {0} /\ y \in Nat /\ l <= y
    BY <2>1, <2>3, <2>4, <2>6
  <2>8. FindRingDim(level, l) \in Nat /\ FindRingDim(level, y) \in Nat /\ FindRingDim(level, l) <= FindRingDim(level, y)
    BY <2>2, <2>7, FindRingDimGrows
  <2>9. FindRingDim(level, y) <= n
    BY <2>2, <2>3 DEF RingFits, m, y
  <2> QED
    BY <2>2, <2>8, <2>9
<1> QED
  BY <1>1, <1>2

-----------------------------------------------------------------------------
(* The call in progress.                                                   *)
Words(r) == IF r.ks = "HYBRID" THEN sizeP_estimate_global ELSE 0

Limited(r) == r.level # "HEStd_NotSet"

\* Hybrid key switching of the call compares with an estimate of its own.
WordsEstimated(r) == r.ks = "HYBRID" => sizeP_estimate_global \in Nat \ {0}

IsCall(c) ==
  c = [pc |-> c.pc, request |-> c.request, estimated |-> c.estimated, n |-> c.n,
       qBound |-> c.qBound, moduli |-> c.moduli, sizeP |-> c.sizeP]

Generating == {"ring", "sizes", "moduli", "tables", "validate"}

\* What the estimate bounds, before the ring dimension is chosen.
BoundInv(c) ==
  LET r == c.request
  IN  /\ c.pc = "ring" /\ ~ SizesFromNoise(r) /\ Limited(r)
           => c.qBound = QBound(r, Words(r)) /\ WordsEstimated(r)
      /\ SizesFromNoise(r) /\ c.pc \in {"ring", "sizes"} /\ c.moduli # <<>> => c.qBound \in Nat

\* The ring dimension, from its choice on.
RingInv(c) ==
  LET r == c.request
  IN  /\ c.pc = "sizes" => SizesFromNoise(r) /\ StandardRing(r, c.qBound) <= c.n
      /\ c.pc \in Generating \ {"ring"} => c.n \in Nat /\ (SizesFromNoise(r) => c.n \in RingDims(r))

\* The moduli, and the words of P the ring dimension holds besides them.
FitsInv(c) ==
  LET r == c.request
  IN  /\ c.pc \in {"moduli", "tables"} /\ Limited(r) => RingFits(r, c.n, Words(r)) /\ WordsEstimated(r)
      /\ c.pc \in {"tables", "validate"} => c.moduli = Moduli(r, c.n)
      /\ c.pc = "validate" => c.sizeP \in Nat /\ (Limited(r) => RingFits(r, c.n, c.sizeP))

CallInv(c) ==
  /\ IsCall(c)
  /\ c.pc \in Generating /\ c.request \in Requests /\ c.estimated = EstimatesP(c.request)
  /\ BoundInv(c) /\ RingInv(c) /\ FitsInv(c)

LoadInv(c) == IsCall(c) /\ c.pc = "loaded" /\ c.request \in Archived /\ c.estimated = FALSE

Inv == call = None \/ LoadInv(call) \/ CallInv(call)

LEMMA Idle == None.pc = "idle"
BY DEF None

(* A guard on where the call is excludes every other shape of it.          *)
LEMMA Shapes ==
  ASSUME Inv
  PROVE  /\ call.pc \in Generating => CallInv(call)
         /\ call.pc = "loaded" => LoadInv(call)
PROOF
<1>1. call = None => call.pc = "idle"
  BY Idle
<1> QED
  BY <1>1 DEF Inv, LoadInv, CallInv, Generating

LEMMA InitInv ==
  ASSUME Init
  PROVE  Inv
BY DEF Init, Inv

(* GenCryptoContext: the bound counts the words of the estimate it leaves. *)
LEMMA GenerateInv ==
  ASSUME NEW r \in Requests, GenCryptoContext(r)
  PROVE  Inv'
PROOF
<1> DEFINE sizes == EstimatedSizes(r)
           d == NumPartQ(r, sizes)
           sizeP == IF EstimatesP(r) THEN EstimateLogP(d, sizes, AddOne(r)) ELSE 0
           next == [pc |-> "ring", request |-> r, estimated |-> EstimatesP(r), n |-> 0,
                    qBound |-> QBound(r, sizeP), moduli |-> <<>>, sizeP |-> 0]
<1>1. \/ call' = None
      \/ /\ sizeP_estimate_global' = IF EstimatesP(r) THEN sizeP ELSE sizeP_estimate_global
         /\ call' = next
  <2> HIDE DEF sizeP
  <2> QED
    BY DEF GenCryptoContext, sizeP, d, sizes
<1>2. CASE call' = None
  BY <1>2 DEF Inv
<1>3. CASE /\ sizeP_estimate_global' = IF EstimatesP(r) THEN sizeP ELSE sizeP_estimate_global
           /\ call' = next
  <2>1. ~ SizesFromNoise(r) /\ Limited(r) /\ r.ks = "HYBRID" => sizeP \in Nat \ {0}
    <3>1. SUFFICES ASSUME ~ SizesFromNoise(r), Limited(r), r.ks = "HYBRID"
                   PROVE  sizeP \in Nat \ {0}
      OBVIOUS
    <3>2. EstimatesP(r)
      BY <3>1 DEF EstimatesP, Limited
    <3>3. HasSize(sizes) /\ d \in Nat \ {0} /\ AddOne(r) \in BOOLEAN
      BY <3>1, EstimatedHaveSize, DigitsAsked DEF AddOne
    <3> HIDE DEF sizes, d
    <3>4. EstimateLogP(d, sizes, AddOne(r)) \in Nat \ {0}
      BY <3>3, EstimatePositive
    <3> QED
      BY <3>2, <3>4
  <2>2. r.ks = "HYBRID" /\ Limited(r) => sizeP_estimate_global' = sizeP
    BY <1>3 DEF EstimatesP, Limited
  <2>3. ~ (r.ks = "HYBRID") => sizeP = 0
    BY DEF EstimatesP
  <2> HIDE DEF sizeP
  <2>4. /\ call'.pc = "ring" /\ call'.request = r /\ call'.estimated = EstimatesP(r)
        /\ call'.qBound = QBound(r, sizeP) /\ call'.moduli = <<>> /\ IsCall(call')
    BY <1>3 DEF IsCall
  <2>5. ~ SizesFromNoise(r) /\ Limited(r) => Words(r)' = sizeP /\ WordsEstimated(r)'
    BY <2>1, <2>2, <2>3 DEF Words, WordsEstimated
  <2> HIDE DEF next
  <2>6. BoundInv(call)'
    BY <2>4, <2>5 DEF BoundInv
  <2>7. RingInv(call)' /\ FitsInv(call)'
    BY <2>4 DEF RingInv, FitsInv, Generating
  <2> QED
    BY <2>4, <2>6, <2>7 DEF Inv, CallInv, Generating
<1> QED
  BY <1>1, <1>2, <1>3

LEMMA LoadedInv ==
  ASSUME NEW r \in Archived, Load(r)
  PROVE  Inv'
PROOF
<1>1. call'.pc = "loaded" /\ call'.request = r /\ call'.estimated = FALSE /\ IsCall(call')
  BY DEF Load, IsCall
<1> QED
  BY <1>1 DEF Inv, LoadInv

LEMMA ChooseRingInv ==
  ASSUME Inv, ChooseRing
  PROVE  Inv'
PROOF
<1> DEFINE r == call.request
           next == IF SizesFromNoise(r) THEN "sizes" ELSE "moduli"
           n == ComputeRingDimension(r, call.qBound)
<1>1. call.pc = "ring" /\ CallInv(call)
  BY Shapes DEF ChooseRing, Generating
<1>2. CASE ~ Complies(r, call.qBound)
  BY <1>2 DEF ChooseRing, Return, Inv
<1>3. CASE Complies(r, call.qBound)
  <2>1. /\ call' = [call EXCEPT !.pc = next, !.n = n]
        /\ sizeP_estimate_global' = sizeP_estimate_global
    BY <1>3 DEF ChooseRing
  <2>2. IsCall(call) /\ r \in Requests
    BY <1>1 DEF CallInv
  <2>3. /\ n \in Nat /\ StandardRing(r, call.qBound) <= n
        /\ SizesFromNoise(r) => n \in RingDims(r)
    BY <1>3, <2>2, ChosenRing
  <2> HIDE DEF next, n
  <2>4. /\ call'.pc = next /\ call'.n = n /\ call'.request = call.request /\ call'.estimated = call.estimated
        /\ call'.qBound = call.qBound /\ call'.moduli = call.moduli /\ IsCall(call')
    BY <2>1, <2>2 DEF IsCall
  <2>5. next = (IF SizesFromNoise(r) THEN "sizes" ELSE "moduli")
    BY DEF next
  <2>6. BoundInv(call)'
    BY <1>1, <2>4, <2>5 DEF BoundInv, CallInv
  <2>7. RingInv(call)'
    BY <2>3, <2>4, <2>5 DEF RingInv
  <2>8. ~ SizesFromNoise(r) /\ Limited(r) => RingFits(r, n, Words(r)) /\ WordsEstimated(r)
    <3>1. SUFFICES ASSUME ~ SizesFromNoise(r), Limited(r)
                   PROVE  RingFits(r, n, Words(r)) /\ WordsEstimated(r)
      OBVIOUS
    <3>2. call.qBound = QBound(r, Words(r)) /\ WordsEstimated(r)
      BY <1>1, <3>1 DEF CallInv, BoundInv
    <3>3. Words(r) \in Nat
      BY <3>2 DEF Words, WordsEstimated
    <3>4. StandardRing(r, QBound(r, Words(r))) <= n
      BY <2>3, <3>2
    <3> QED
      BY <2>2, <2>3, <3>1, <3>2, <3>3, <3>4, RingFitsEstimate DEF Limited
  <2>9. Words(r)' = Words(r) /\ WordsEstimated(r)' = WordsEstimated(r)
    BY <2>1, <2>4 DEF Words, WordsEstimated
  <2>10. FitsInv(call)'
    <3>1. call'.pc \in {"sizes", "moduli"} /\ (call'.pc = "moduli" => ~ SizesFromNoise(r))
      BY <2>4, <2>5
    <3>2. Limited(r) /\ call'.pc = "moduli" => RingFits(r, n, Words(r)') /\ WordsEstimated(r)'
      BY <2>8, <2>9, <3>1
    <3> QED
      BY <2>4, <3>1, <3>2 DEF FitsInv, Limited, Words, WordsEstimated
  <2>11. call'.pc \in Generating
    BY <2>4, <2>5 DEF Generating
  <2> QED
    BY <1>1, <2>4, <2>6, <2>7, <2>10, <2>11 DEF Inv, CallInv
<1> QED
  BY <1>2, <1>3

(* One pass of the loop of BGV: when the bound settles, it holds the       *)
(* moduli of the ring dimension, with the words of the last estimate.      *)
LEMMA FitModuliInv ==
  ASSUME Inv, FitModuli
  PROVE  Inv'
PROOF
<1> DEFINE r == call.request
           first == call.moduli = <<>>
           moduli == ComputeModuli(r, call.n)
           sizeP == IF first \/ r.ks # "HYBRID" THEN 0
                    ELSE EstimateLogP(NumPartQ(r, moduli), PassSizes(r, moduli), FALSE)
           new == IF first THEN Max(Lengths(moduli)) ELSE NewQBound(r, moduli, sizeP)
           done == ~ first /\ Settled(call.qBound, new)
           next == IF done THEN "moduli" ELSE "ring"
           bound == IF done THEN call.qBound ELSE new
<1>1. call.pc = "sizes" /\ CallInv(call)
  BY Shapes DEF FitModuli, Generating
<1>2. /\ IsCall(call) /\ r \in Requests /\ SizesFromNoise(r)
      /\ StandardRing(r, call.qBound) <= call.n /\ call.n \in Nat /\ call.n \in RingDims(r)
      /\ ~ first => call.qBound \in Nat
  BY <1>1 DEF CallInv, BoundInv, RingInv, Generating
<1>3. /\ sizeP_estimate_global' = IF sizeP = 0 THEN sizeP_estimate_global ELSE sizeP
      /\ call' = [call EXCEPT !.moduli = moduli, !.pc = next, !.qBound = bound]
  <2> DEFINE Passed(m, s, q) ==
               /\ sizeP_estimate_global' = IF s = 0 THEN sizeP_estimate_global ELSE s
               /\ call' = [call EXCEPT !.moduli = m,
                                       !.pc = IF ~ first /\ Settled(call.qBound, q) THEN "moduli" ELSE "ring",
                                       !.qBound = IF ~ first /\ Settled(call.qBound, q) THEN call.qBound ELSE q]
             P(m) == IF first \/ r.ks # "HYBRID" THEN 0 ELSE EstimateLogP(NumPartQ(r, m), PassSizes(r, m), FALSE)
             Q(m, s) == IF first THEN Max(Lengths(m)) ELSE NewQBound(r, m, s)
  <2>1. \E m \in {moduli} : \E s \in {P(m)} : \E q \in {Q(m, s)} : Passed(m, s, q)
    BY DEF FitModuli
  <2>2. sizeP = P(moduli) /\ new = Q(moduli, sizeP)
    OBVIOUS
  <2> HIDE DEF Passed, P, Q, moduli, sizeP, new, first
  <2>3. Passed(moduli, sizeP, new)
    BY <2>1, <2>2
  <2> QED
    BY <2>3 DEF Passed
<1>4. /\ IsModuli(moduli) /\ HasSize(PassSizes(r, moduli))
      /\ Max(Lengths(moduli)) \in Nat /\ FloodingLogQ(r) \in Nat
  <2>1. IsModuli(moduli) /\ HasSize(PassSizes(r, moduli))
    BY <1>2, NoiseModuli
  <2> HIDE DEF moduli
  <2> QED
    BY <2>1, LongestIs, FloodingFacts
<1>5. /\ sizeP \in Nat
      /\ ~ first /\ r.ks = "HYBRID" => sizeP \in Nat \ {0}
  <2>1. NumPartQ(r, moduli) \in Nat \ {0}
    BY <1>2, DigitsAsked
  <2> HIDE DEF moduli
  <2>2. EstimateLogP(NumPartQ(r, moduli), PassSizes(r, moduli), FALSE) \in Nat \ {0}
    BY <1>4, <2>1, EstimatePositive
  <2> QED
    BY <2>2
<1>6. new \in Nat
  <2> HIDE DEF sizeP, moduli
  <2>1. sizeP * AuxBits \in Nat
    BY <1>5 DEF AuxBits
  <2> QED
    BY <1>4, <2>1 DEF NewQBound
<1>7. ~ first => new = NewQBound(r, moduli, sizeP)
  OBVIOUS
<1>8. ~ first => (sizeP = 0 <=> r.ks # "HYBRID")
  BY <1>5
<1> HIDE DEF sizeP, new
<1>9. bound \in Nat /\ (done => bound = call.qBound /\ call.qBound >= new /\ call.qBound \in Nat)
  BY <1>2, <1>6 DEF Settled
<1>10. done => ~ first
  OBVIOUS
<1>11. next \in {"moduli", "ring"} /\ (next = "moduli" => done)
  OBVIOUS
<1> HIDE DEF done, next, bound
<1>12. /\ call'.pc = next /\ call'.n = call.n /\ call'.request = r /\ call'.estimated = call.estimated
       /\ call'.qBound = bound /\ call'.moduli = moduli /\ IsCall(call')
  <2> HIDE DEF moduli
  <2> QED
    BY <1>2, <1>3 DEF IsCall
<1>13. BoundInv(call)'
  BY <1>2, <1>9, <1>12 DEF BoundInv
<1>14. RingInv(call)'
  BY <1>2, <1>11, <1>12 DEF RingInv
<1>15. done /\ Limited(r) => RingFits(r, call.n, sizeP)
  <2>1. SUFFICES ASSUME done, Limited(r)
                 PROVE  RingFits(r, call.n, sizeP)
    OBVIOUS
  <2>2. call.qBound \in Nat /\ call.qBound >= NewQBound(r, ComputeModuli(r, call.n), sizeP)
    BY <1>7, <1>9, <1>10, <2>1
  <2> HIDE DEF moduli, r
  <2>3. call.n \in RingDims(r) /\ r \in Requests /\ call.n \in Nat /\ SizesFromNoise(r) /\ StandardRing(r, call.qBound) <= call.n
    BY <1>2 DEF r
  <2> QED
    BY <1>5, <2>1, <2>2, <2>3, RingFitsNoise DEF Limited
<1>16. done => Words(r)' = sizeP /\ WordsEstimated(r)'
  <2>1. SUFFICES ASSUME done
                 PROVE  Words(r)' = sizeP /\ WordsEstimated(r)'
    OBVIOUS
  <2>2. call'.request = r /\ (sizeP = 0 <=> r.ks # "HYBRID")
    BY <1>8, <1>10, <1>12, <2>1
  <2> QED
    BY <1>3, <1>5, <2>2 DEF Words, WordsEstimated
<1>17. FitsInv(call)'
  <2>1. call'.pc \in {"moduli", "ring"} /\ (call'.pc = "moduli" => done)
    BY <1>11, <1>12
  <2>2. Limited(r) /\ call'.pc = "moduli" => RingFits(r, call.n, Words(r)') /\ WordsEstimated(r)'
    BY <1>15, <1>16, <2>1
  <2> QED
    BY <1>12, <2>1, <2>2 DEF FitsInv, Limited, Words, WordsEstimated
<1>18. call'.pc \in Generating
  BY <1>11, <1>12 DEF Generating
<1> QED
  BY <1>1, <1>12, <1>13, <1>14, <1>17, <1>18 DEF Inv, CallInv

LEMMA SelectModuliInv ==
  ASSUME Inv, SelectModuli
  PROVE  Inv'
PROOF
<1> DEFINE r == call.request
           moduli == Moduli(r, call.n)
<1>1. call.pc = "moduli" /\ CallInv(call)
  BY Shapes DEF SelectModuli, Generating
<1>2. CASE ~ BatchFits(r, call.n)
  BY <1>2 DEF SelectModuli, Return, Inv
<1>3. CASE BatchFits(r, call.n)
  <2>1. /\ call' = [call EXCEPT !.pc = "tables", !.moduli = moduli]
        /\ sizeP_estimate_global' = sizeP_estimate_global
    BY <1>3 DEF SelectModuli
  <2>2. IsCall(call)
    BY <1>1 DEF CallInv
  <2>3. moduli = Moduli(r, call.n)
    OBVIOUS
  <2> HIDE DEF moduli
  <2>4. /\ call'.pc = "tables" /\ call'.n = call.n /\ call'.request = r /\ call'.estimated = call.estimated
        /\ call'.qBound = call.qBound /\ call'.moduli = moduli /\ IsCall(call')
    BY <2>1, <2>2 DEF IsCall
  <2>5. BoundInv(call)'
    BY <2>4 DEF BoundInv
  <2>6. RingInv(call)'
    BY <1>1, <2>4 DEF RingInv, CallInv, Generating
  <2>7. FitsInv(call)'
    BY <1>1, <2>1, <2>3, <2>4 DEF FitsInv, CallInv, Words, WordsEstimated, Limited
  <2> QED
    BY <1>1, <2>4, <2>5, <2>6, <2>7 DEF Inv, CallInv, Generating
<1> QED
  BY <1>2, <1>3

(* The tables: an estimate that is met is the size of P.                   *)
LEMMA TablesDoneInv ==
  ASSUME Inv, call.pc \in {"tables", "loaded"}, NEW sizeP \in Nat, TablesDone(sizeP),
         call.pc = "tables" /\ Limited(call.request) => Words(call.request) = sizeP
  PROVE  Inv'
PROOF
<1> DEFINE r == call.request
<1>1. CASE call.pc = "loaded"
  BY <1>1 DEF TablesDone, Return, Inv
<1>2. CASE call.pc = "tables"
  <2>1. CallInv(call) /\ IsCall(call)
    BY <1>2, Shapes DEF Generating, CallInv
  <2>2. call' = [call EXCEPT !.pc = "validate", !.sizeP = sizeP]
    BY <1>2 DEF TablesDone
  <2>3. /\ call'.pc = "validate" /\ call'.n = call.n /\ call'.request = r /\ call'.estimated = call.estimated
        /\ call'.qBound = call.qBound /\ call'.moduli = call.moduli /\ call'.sizeP = sizeP /\ IsCall(call')
    BY <2>1, <2>2 DEF IsCall
  <2>4. BoundInv(call)'
    BY <2>3 DEF BoundInv
  <2>5. RingInv(call)'
    BY <1>2, <2>1, <2>3 DEF RingInv, CallInv, Generating
  <2>6. Limited(r) => RingFits(r, call.n, sizeP)
    BY <1>2, <2>1 DEF CallInv, FitsInv
  <2>7. call.moduli = Moduli(r, call.n)
    BY <1>2, <2>1 DEF CallInv, FitsInv
  <2>8. FitsInv(call)'
    BY <2>3, <2>6, <2>7 DEF FitsInv, Limited
  <2> QED
    BY <2>1, <2>3, <2>4, <2>5, <2>8 DEF Inv, CallInv, Generating
<1> QED
  BY <1>1, <1>2

LEMMA MaxBitsAre ==
  ASSUME NEW r \in Requests, NEW m, IsModuli(m), NEW d \in Nat \ {0}, NEW bits \in MaxBits(m, d)
  PROVE  CeilDiv(bits, AuxBits) \in Nat
PROOF
<1> PICK n \in Nat \ {0} : m \in [1 .. n -> ModulusType]
  BY DEF IsModuli
<1> DEFINE a == CeilDiv(n, d)
<1>1. PICK digit \in Digits(m, d) : bits \in Lengths(digit)
  BY DEF MaxBits
<1>2. PICK j \in 0 .. d - 1 : digit = Digit(m, j, a, n)
  <2>1. Len(m) = n
    OBVIOUS
  <2> QED
    BY <1>1, <2>1 DEF Digits, Digit, First, Last
<1>3. a \in Nat /\ j \in Nat
  BY CeilDivFacts
<1> HIDE DEF a
<1>4. PICK k \in Nat : digit \in [1 .. k -> ModulusType]
  <2> DEFINE lo == First(j, a)
             hi == Last(j, a, n)
  <2>1. lo \in Nat \ {0} /\ hi \in Nat /\ hi <= n
    BY <1>3, DigitBounds
  <2> HIDE DEF lo, hi
  <2>2. \E k \in Nat : SubSeq(m, lo, hi) \in [1 .. k -> ModulusType]
    BY <2>1, SubSeqIs
  <2> QED
    BY <1>2, <2>2 DEF lo, hi, Digit
<1>5. bits \in Nat
  <2>1. Lengths(digit) \subseteq {Sum(Bits(digit)), Sum(Bits(digit)) + 1} /\ Sum(Bits(digit)) \in Nat
    BY <1>4, LengthsFacts
  <2> QED
    BY <1>1, <2>1
<1> QED
  BY <1>5 DEF CeilDiv, AuxBits

LEMMA PrecomputeInv ==
  ASSUME Inv, PrecomputeCRTTables
  PROVE  Inv'
PROOF
<1> DEFINE r == call.request
           d == NumPartQ(r, call.moduli)
<1>1. call.pc \in {"tables", "loaded"}
  BY DEF PrecomputeCRTTables
<1>2. CASE call.pc = "loaded"
  <2>1. call' = None
    BY <1>2 DEF PrecomputeCRTTables, TablesDone, Return
  <2> QED
    BY <2>1 DEF Inv
<1>3. CASE call.pc = "tables"
  <2>1. CallInv(call) /\ r \in Requests
    BY <1>3, Shapes DEF Generating, CallInv
  <2>2. IsModuli(call.moduli)
    <3>1. call.moduli = Moduli(r, call.n) /\ (SizesFromNoise(r) => call.n \in RingDims(r))
      BY <1>3, <2>1 DEF CallInv, FitsInv, RingInv, Generating
    <3> QED
      BY <2>1, <3>1, ModuliAre
  <2>3. Limited(r) => WordsEstimated(r)
    BY <1>3, <2>1 DEF CallInv, FitsInv
  <2>4. CASE r.ks # "HYBRID" /\ TablesDone(0)
    <3>1. Words(r) = 0
      BY <2>4 DEF Words
    <3> QED
      BY <1>1, <2>4, <3>1, TablesDoneInv
  <2>5. CASE Return("digits") \/ Return("estimate")
    BY <2>5 DEF Return, Inv
  <2>6. CASE /\ r.ks = "HYBRID"
             /\ \E bits \in MaxBits(call.moduli, d) :
                  EstimateMet(CeilDiv(bits, AuxBits)) /\ TablesDone(CeilDiv(bits, AuxBits))
    <3>1. PICK bits \in MaxBits(call.moduli, d) :
            EstimateMet(CeilDiv(bits, AuxBits)) /\ TablesDone(CeilDiv(bits, AuxBits))
      BY <2>6
    <3> DEFINE sizeP == CeilDiv(bits, AuxBits)
    <3>2. d \in Nat \ {0}
      BY <2>1, DigitsAsked
    <3> HIDE DEF d
    <3>3. sizeP \in Nat
      BY <2>1, <2>2, <3>2, MaxBitsAre
    <3> HIDE DEF sizeP
    <3>4. EstimateMet(sizeP) /\ TablesDone(sizeP)
      BY <3>1 DEF sizeP
    <3>5. Limited(r) => Words(r) = sizeP
      BY <2>3, <2>6, <3>4 DEF EstimateMet, Words, WordsEstimated
    <3> QED
      BY <1>1, <3>3, <3>4, <3>5, TablesDoneInv
  <2>7. \/ r.ks # "HYBRID" /\ TablesDone(0)
        \/ Return("digits") \/ Return("estimate")
        \/ /\ r.ks = "HYBRID"
           /\ \E bits \in MaxBits(call.moduli, d) :
                EstimateMet(CeilDiv(bits, AuxBits)) /\ TablesDone(CeilDiv(bits, AuxBits))
    BY DEF PrecomputeCRTTables
  <2> QED
    BY <2>4, <2>5, <2>6, <2>7
<1> QED
  BY <1>1, <1>2, <1>3

LEMMA StepInv ==
  ASSUME Inv, [Next]_vars
  PROVE  Inv'
PROOF
<1>1. CASE \E r \in Requests : GenCryptoContext(r)
  BY <1>1, GenerateInv
<1>2. CASE \E r \in Archived : Load(r)
  BY <1>2, LoadedInv
<1>3. CASE ChooseRing
  BY <1>3, ChooseRingInv
<1>4. CASE FitModuli
  BY <1>4, FitModuliInv
<1>5. CASE SelectModuli
  BY <1>5, SelectModuliInv
<1>6. CASE PrecomputeCRTTables
  BY <1>6, PrecomputeInv
<1>7. CASE ValidateRing
  BY <1>7 DEF ValidateRing, Return, Inv
<1>8. CASE UNCHANGED vars
  <2>1. call' = call /\ sizeP_estimate_global' = sizeP_estimate_global
    BY <1>8 DEF vars
  <2> QED
    BY <2>1 DEF Inv, LoadInv, CallInv, IsCall, BoundInv, RingInv, FitsInv, Words, WordsEstimated
<1> QED
  BY <1>1, <1>2, <1>3, <1>4, <1>5, <1>6, <1>7, <1>8 DEF Next

(* The validation of a ring dimension that was chosen finds it in order.   *)
LEMMA Validated ==
  ASSUME Inv, ValidateRing
  PROVE  last'.answer = "ok"
PROOF
<1> DEFINE r == call.request
           qp == call.moduli \o Repeat(Modulus(AuxBits, "below"), call.sizeP)
<1>1. call.pc = "validate" /\ CallInv(call) /\ r \in Requests
  BY Shapes DEF ValidateRing, Generating, CallInv
<1>2. /\ call.moduli = Moduli(r, call.n) /\ call.sizeP \in Nat /\ call.n \in Nat
      /\ SizesFromNoise(r) => call.n \in RingDims(r)
      /\ r.level # "HEStd_NotSet" => RingFits(r, call.n, call.sizeP)
  BY <1>1 DEF CallInv, FitsInv, RingInv, Generating, Limited
<1>3. PICK l \in Lengths(qp) :
        last'.answer = IF call.n < StandardRing(r, l) THEN "report_to_developers" ELSE "ok"
  BY DEF ValidateRing, Return
<1>4. StandardRing(r, l) <= call.n
  BY <1>1, <1>2, <1>3, ValidRing
<1>5. StandardRing(r, l) \in Nat
  BY <1>1, LevelAsked
<1> QED
  BY <1>2, <1>3, <1>4, <1>5

LEMMA AnswersHold ==
  ASSUME Inv, RingHoldsModuli, [Next]_vars
  PROVE  RingHoldsModuli'
PROOF
<1>1. CASE \E r \in Requests : GenCryptoContext(r)
  <2>1. PICK r \in Requests : GenCryptoContext(r)
    BY <1>1
  <2>2. last'.answer = "digits" \/ last' = NoAnswer
    BY <2>1 DEF GenCryptoContext
  <2> QED
    BY <2>2 DEF RingHoldsModuli, NoAnswer
<1>2. CASE \E r \in Archived : Load(r)
  BY <1>2 DEF Load, RingHoldsModuli, NoAnswer
<1>3. CASE ChooseRing
  BY <1>3 DEF ChooseRing, Return, RingHoldsModuli
<1>4. CASE FitModuli
  BY <1>4 DEF FitModuli, RingHoldsModuli
<1>5. CASE SelectModuli
  BY <1>5 DEF SelectModuli, Return, RingHoldsModuli
<1>6. CASE PrecomputeCRTTables
  <2>1. \/ Return("digits") \/ Return("estimate") \/ Return("ok") \/ UNCHANGED last
    BY <1>6 DEF PrecomputeCRTTables, TablesDone
  <2> QED
    BY <2>1 DEF Return, RingHoldsModuli
<1>7. CASE ValidateRing
  BY <1>7, Validated DEF RingHoldsModuli
<1>8. CASE UNCHANGED vars
  BY <1>8 DEF vars, RingHoldsModuli
<1> QED
  BY <1>1, <1>2, <1>3, <1>4, <1>5, <1>6, <1>7, <1>8 DEF Next

(* The ring dimension of every generation also holds the moduli that were  *)
(* selected and the special primes computed from them: the validation at   *)
(* its end (bgvrns-parametergeneration.cpp:648) does not ask to report to  *)
(* the developers, for any requests and in any order.                      *)
THEOREM RingAlwaysHolds == Spec => []RingHoldsModuli
PROOF
<1>1. Init => Inv /\ RingHoldsModuli
  BY InitInv DEF Init, RingHoldsModuli, NoAnswer
<1>2. Inv /\ RingHoldsModuli /\ [Next]_vars => Inv' /\ RingHoldsModuli'
  BY StepInv, AnswersHold
<1> QED
  BY <1>1, <1>2, PTL DEF Spec

-----------------------------------------------------------------------------
(* The estimate a call is compared with.                                   *)

\* Every generation with hybrid key switching makes an estimate, and no
\* context with hybrid key switching is deserialized.
EstimateIsMade ==
  /\ \A r \in Requests : r.ks = "HYBRID" => EstimatesP(r)
  /\ \A r \in Archived : r.ks # "HYBRID"

LEMMA RefusedForOwn ==
  ASSUME EstimateIsMade, Inv, OwnEstimate, [Next]_vars
  PROVE  OwnEstimate'
PROOF
<1>1. CASE \E r \in Requests : GenCryptoContext(r)
  <2>1. PICK r \in Requests : GenCryptoContext(r)
    BY <1>1
  <2>2. last'.answer = "digits" \/ last' = NoAnswer
    BY <2>1 DEF GenCryptoContext
  <2> QED
    BY <2>2 DEF OwnEstimate, NoAnswer
<1>2. CASE \E r \in Archived : Load(r)
  BY <1>2 DEF Load, OwnEstimate, NoAnswer
<1>3. CASE ChooseRing
  BY <1>3 DEF ChooseRing, Return, OwnEstimate
<1>4. CASE FitModuli
  BY <1>4 DEF FitModuli, OwnEstimate
<1>5. CASE SelectModuli
  BY <1>5 DEF SelectModuli, Return, OwnEstimate
<1>6. CASE PrecomputeCRTTables
  <2>1. \/ Return("digits") \/ Return("ok") \/ UNCHANGED last
        \/ Return("estimate") /\ call.request.ks = "HYBRID"
    BY <1>6 DEF PrecomputeCRTTables, TablesDone
  <2>2. CASE call.request.ks = "HYBRID" /\ Return("estimate")
    <3>1. call.pc \in {"tables", "loaded"}
      BY <1>6 DEF PrecomputeCRTTables
    <3>2. call.pc # "loaded"
      BY <2>2, Shapes DEF LoadInv, EstimateIsMade
    <3>3. CallInv(call)
      BY <3>1, <3>2, Shapes DEF Generating
    <3>4. call.estimated = TRUE
      BY <2>2, <3>3 DEF CallInv, EstimateIsMade, EstimatesP
    <3> QED
      BY <2>2, <3>4 DEF Return, OwnEstimate
  <2>3. CASE Return("digits") \/ Return("ok") \/ UNCHANGED last
    BY <2>3 DEF Return, OwnEstimate
  <2> QED
    BY <2>1, <2>2, <2>3
<1>7. CASE ValidateRing
  BY <1>7 DEF ValidateRing, Return, OwnEstimate
<1>8. CASE UNCHANGED vars
  BY <1>8 DEF vars, OwnEstimate
<1> QED
  BY <1>1, <1>2, <1>3, <1>4, <1>5, <1>6, <1>7, <1>8 DEF Next

(* A call is refused for an estimate that was not met only if it made that *)
(* estimate: "reset sizeP_estimate_global before the next use"             *)
(* (rns-cryptoparameters.cpp:147), where every call that compares made one.*)
THEOREM EstimateIsOwn == EstimateIsMade => (Spec => []OwnEstimate)
PROOF
<1> SUFFICES ASSUME EstimateIsMade PROVE Spec => []OwnEstimate
  OBVIOUS
<1>1. Init => Inv /\ OwnEstimate
  BY InitInv DEF Init, OwnEstimate, NoAnswer
<1>2. Inv /\ OwnEstimate /\ [Next]_vars => Inv' /\ OwnEstimate'
  BY StepInv, RefusedForOwn
<1> QED
  BY <1>1, <1>2, PTL DEF Spec

-----------------------------------------------------------------------------
(* Moduli that all lie below their power of two have one length each digit *)
(* can have, and the estimate of their sizes is exact.                     *)

\* Digit j lies within the n elements and has some.
InDigit(j, a, n) ==
  /\ First(j, a) \in 1 .. n /\ Last(j, a, n) \in First(j, a) .. n
  /\ First(j, a) \in Nat \ {0} /\ Last(j, a, n) \in Nat /\ Last(j, a, n) <= n

LEMMA DigitsHaveElements ==
  ASSUME NEW n \in Nat \ {0}, NEW d \in Nat \ {0}, Distributable(n, d), NEW j \in 0 .. d - 1
  PROVE  InDigit(j, CeilDiv(n, d), n)
PROOF
<1> DEFINE a == CeilDiv(n, d)
<1>1. a \in Nat \ {0}
  BY CeilDivFacts
<1>2. n > a * (d - 1)
  BY DEF Distributable
<1> HIDE DEF a
<1>3. j * a <= a * (d - 1)
  <2> DEFINE i == d - 1 - j
  <2>1. i \in Nat /\ d - 1 = j + i
    OBVIOUS
  <2> HIDE DEF i
  <2>2. a * (j + i) = a * j + a * i /\ a * i \in Nat /\ a * j = j * a /\ j * a \in Nat
    BY <1>1, <2>1
  <2>3. a * (d - 1) = a * (j + i)
    BY <2>1
  <2> QED
    BY <2>2, <2>3
<1>4. (j + 1) * a = j * a + a /\ j * a \in Nat
  BY <1>1
<1>5. /\ First(j, a) \in Nat \ {0} /\ Last(j, a, n) \in Nat /\ Last(j, a, n) <= n
      /\ Last(j, a, n) = IF (j + 1) * a <= n THEN (j + 1) * a ELSE n
  <2>1. j \in Nat
    OBVIOUS
  <2> QED
    BY <1>1, <2>1, DigitBounds
<1> DEFINE x == j * a
           y == a * (d - 1)
           z == (j + 1) * a
<1>6. x \in Nat /\ x <= y /\ y < n /\ z = x + a /\ y \in Int
  BY <1>1, <1>2, <1>3, <1>4
<1>7. First(j, a) = x + 1
  BY DEF First
<1> HIDE DEF x, y, z
<1>8. First(j, a) \in 1 .. n
  BY <1>6, <1>7
<1>9. Last(j, a, n) = IF z <= n THEN z ELSE n
  BY <1>5 DEF z
<1>10. Last(j, a, n) \in First(j, a) .. n
  BY <1>1, <1>6, <1>7, <1>9
<1> QED
  BY <1>5, <1>8, <1>10 DEF InDigit, a

IsSlice(t, s, lo, k, S) ==
  /\ t \in [1 .. k -> S]
  /\ \A i \in 1 .. k : t[i] = s[lo + i - 1]

LEMMA Slices ==
  ASSUME NEW S, NEW n \in Nat, NEW s \in [1 .. n -> S], NEW lo \in Nat \ {0}, NEW hi \in Nat, hi <= n, lo <= hi
  PROVE  IsSlice(SubSeq(s, lo, hi), s, lo, hi - lo + 1, S)
PROOF
<1> DEFINE t == SubSeq(s, lo, hi)
           k == hi - lo + 1
<1>1. (\A i \in lo .. hi : s[i] \in S) /\ lo \in Int /\ hi \in Int
  OBVIOUS
<1>2. t \in Seq(S) /\ Len(t) = k /\ \A i \in 1 .. k : t[i] = s[lo + i - 1]
  BY <1>1, SubSeqProperties
<1> HIDE DEF t, k
<1>3. IsSlice(t, s, lo, k, S)
  <2>1. t \in [1 .. k -> S]
    BY <1>2, LenProperties
  <2> QED
    BY <1>2, <2>1 DEF IsSlice
<1> QED
  BY <1>3 DEF t, k

LEMMA DigitOfBits ==
  ASSUME NEW n \in Nat \ {0}, NEW m \in [1 .. n -> ModulusType], Below(m),
         NEW d \in Nat \ {0}, Distributable(n, d), NEW j \in 0 .. d - 1
  PROVE  Lengths(Digit(m, j, CeilDiv(n, d), n)) = {Sum(Digit(Bits(m), j, CeilDiv(n, d), n))}
PROOF
<1> DEFINE a == CeilDiv(n, d)
           lo == First(j, a)
           hi == Last(j, a, n)
           k == hi - lo + 1
           t == SubSeq(m, lo, hi)
           b == Bits(m)
           u == SubSeq(b, lo, hi)
<1>1. lo \in Nat \ {0} /\ hi \in Nat /\ lo <= hi /\ hi <= n
  BY DigitsHaveElements DEF InDigit
<1>2. b \in [1 .. n -> Nat] /\ \A i \in 1 .. n : b[i] = m[i].bits
  BY BitsFacts
<1>3. t = Digit(m, j, a, n) /\ u = Digit(b, j, a, n)
  BY DEF Digit
<1> HIDE DEF a, lo, hi, b
<1>4. k \in Nat \ {0} /\ \A i \in 1 .. k : lo + i - 1 \in 1 .. n
  BY <1>1
<1>5. IsSlice(t, m, lo, k, ModulusType) /\ IsSlice(u, b, lo, k, Nat)
  <2>1. n \in Nat
    OBVIOUS
  <2> HIDE DEF lo
  <2>2. lo \in Nat \ {0} /\ hi \in Nat /\ hi <= n /\ lo <= hi
    BY <1>1 DEF lo
  <2> HIDE DEF hi
  <2>3. IsSlice(SubSeq(m, lo, hi), m, lo, hi - lo + 1, ModulusType)
    BY <2>1, <2>2, Slices
  <2>4. IsSlice(SubSeq(b, lo, hi), b, lo, hi - lo + 1, Nat)
    BY <1>2, <2>1, <2>2, Slices
  <2> QED
    BY <2>3, <2>4
<1> HIDE DEF k, t, u
<1>6. /\ t \in [1 .. k -> ModulusType] /\ \A i \in 1 .. k : t[i] = m[lo + i - 1]
      /\ u \in [1 .. k -> Nat] /\ \A i \in 1 .. k : u[i] = b[lo + i - 1]
  BY <1>5 DEF IsSlice
<1>7. \A i \in 1 .. k : t[i].side = "below" /\ t[i].bits = u[i]
  <2>1. \A i \in 1 .. n : m[i].side = "below"
    BY DEF Below
  <2>2. SUFFICES ASSUME NEW i \in 1 .. k
                 PROVE  t[i].side = "below" /\ t[i].bits = u[i]
    OBVIOUS
  <2> DEFINE x == lo + i - 1
  <2>3. x \in 1 .. n /\ t[i] = m[x] /\ u[i] = b[x]
    BY <1>4, <1>6
  <2> HIDE DEF x
  <2>4. m[x].side = "below" /\ b[x] = m[x].bits
    BY <1>2, <2>1, <2>3
  <2> QED
    BY <2>3, <2>4
<1> DEFINE bt == Bits(t)
<1>8. bt = u
  <2>1. bt \in [1 .. k -> Nat] /\ \A i \in 1 .. k : bt[i] = t[i].bits
    BY <1>4, <1>6, BitsFacts
  <2>2. \A i \in 1 .. k : bt[i] = u[i]
    BY <1>7, <2>1
  <2> HIDE DEF bt
  <2>3. bt = [i \in 1 .. k |-> bt[i]] /\ u = [i \in 1 .. k |-> u[i]]
    BY <1>6, <2>1
  <2> QED
    BY <2>2, <2>3
<1>9. Lengths(t) = {Sum(Bits(t))}
  <2>1. k \in Nat /\ k > 0 /\ \A i \in 1 .. k : t[i].side = "below"
    BY <1>4, <1>7
  <2>2. t \in [1 .. k -> ModulusType]
    BY <1>6
  <2> QED
    BY <2>1, <2>2, LengthsFacts
<1> QED
  BY <1>3, <1>8, <1>9 DEF b, a

LEMMA ExactBits ==
  ASSUME NEW n \in Nat \ {0}, NEW m \in [1 .. n -> ModulusType], Below(m),
         NEW d \in Nat \ {0}, Distributable(n, d), NEW bits \in MaxBits(m, d)
  PROVE  CeilDiv(bits, AuxBits) = EstimateLogP(d, Bits(m), FALSE)
PROOF
<1> DEFINE a == CeilDiv(n, d)
           b == Bits(m)
           S == SumsOfDigits(b, d)
           D(j) == Digit(m, j, a, n)
           T(j) == Sum(Digit(b, j, a, n))
<1>1. a \in Nat \ {0}
  BY CeilDivFacts
<1>2. b \in [1 .. n -> Nat] /\ Len(b) = n /\ Len(m) = n
  BY BitsFacts
<1>3. /\ S = {T(j) : j \in 0 .. d - 1}
      /\ Max(S) \in S /\ \A x \in S : x \in Nat /\ Max(S) >= x
  BY <1>1, <1>2, MaxOfDigits
<1>4. Digits(m, d) = {D(j) : j \in 0 .. d - 1}
  BY <1>2 DEF Digits, Digit, First, Last
<1>5. \A j \in 0 .. d - 1 : Lengths(D(j)) = {T(j)}
  BY DigitOfBits
<1>6. Min({d, n}) = d
  <2>1. d <= n
    <3>1. n > a * (d - 1)
      BY DEF Distributable
    <3> HIDE DEF a
    <3>2. a * (d - 1) >= d - 1
      <4> DEFINE i == a - 1
                 e == d - 1
      <4>1. i \in Nat /\ e \in Nat /\ a = i + 1
        BY <1>1
      <4> HIDE DEF i, e
      <4>2. (i + 1) * e = i * e + e /\ i * e \in Nat
        BY <4>1
      <4>3. a * e >= e
        BY <4>1, <4>2
      <4> QED
        BY <4>3 DEF e
    <3>3. a * (d - 1) \in Int
      BY <1>1
    <3> QED
      BY <3>1, <3>2, <3>3
  <2>2. \A y \in {d, n} : (\A z \in {d, n} : y <= z) <=> y = d
    BY <2>1
  <2> QED
    BY <2>2 DEF Min
<1> HIDE DEF D, T, a, b
<1>7. PICK i \in 0 .. d - 1 : bits \in Lengths(D(i))
  BY <1>4 DEF MaxBits
<1>8. bits = T(i) /\ bits \in S
  BY <1>3, <1>5, <1>7
<1>9. \A j \in 0 .. d - 1 : T(j) <= bits
  <2>1. SUFFICES ASSUME NEW j \in 0 .. d - 1 PROVE T(j) <= bits
    OBVIOUS
  <2>2. D(j) \in Digits(m, d) /\ Lengths(D(j)) = {T(j)}
    BY <1>4, <1>5
  <2>3. Min(Lengths(D(j))) <= bits
    BY <2>2 DEF MaxBits
  <2>4. T(j) \in Nat
    BY <1>3
  <2>5. Min({T(j)}) = T(j)
    <3>1. \A y \in {T(j)} : (\A z \in {T(j)} : y <= z) <=> y = T(j)
      BY <2>4
    <3> QED
      BY <3>1 DEF Min
  <2> QED
    BY <2>2, <2>3, <2>5
<1>10. bits = Max(S)
  <2> HIDE DEF S
  <2>1. \A x \in S : x <= bits
    BY <1>3, <1>9
  <2>2. Max(S) <= bits /\ Max(S) >= bits /\ bits \in Nat /\ Max(S) \in Nat
    BY <1>3, <1>8, <2>1
  <2> QED
    BY <2>2
<1>11. EstimateLogP(d, b, FALSE) = CeilDiv(Max(S) + 0, AuxBits)
  BY <1>2, <1>6 DEF EstimateLogP, SumsOfDigits
<1>12. Max(S) + 0 = bits
  <2> HIDE DEF S
  <2>1. Max(S) \in Nat
    BY <1>3
  <2> QED
    BY <1>10, <2>1
<1> QED
  BY <1>11, <1>12 DEF b

(* Every modulus is searched downward, with a size that was estimated.     *)
Downward(r) ==
  \/ r.scheme = "BGV" /\ r.technique = "FIXEDMANUAL"
  \/ r.scheme = "BFV" /\ r.dcrtBits = AuxBits

LEMMA ConstantJoin ==
  ASSUME NEW k \in Nat \ {0}, NEW f \in Nat, NEW c \in Nat
  PROVE  AfterFirst(Repeat(c, k), Repeat(c, f)) = Repeat(c, k + f)
PROOF
<1> DEFINE s == Repeat(c, k)
           e == Repeat(c, f)
           u == AfterFirst(s, e)
           v == Repeat(c, k + f)
           l == k + f
<1>1. s \in [1 .. k -> Nat] /\ \A i \in 1 .. k : s[i] = c
  BY RepeatFacts
<1>2. e \in [1 .. f -> Nat] /\ \A i \in 1 .. f : e[i] = c
  BY RepeatFacts
<1>3. v \in [1 .. l -> Nat] /\ \A i \in 1 .. l : v[i] = c
  <2>1. l \in Nat
    OBVIOUS
  <2> HIDE DEF l
  <2>2. v = Repeat(c, l)
    BY DEF l
  <2> HIDE DEF v
  <2> QED
    BY <2>1, <2>2, RepeatFacts
<1> HIDE DEF s, e, v
<1>4. IsAfterFirst(u, s, e, k, f, Nat)
  BY <1>1, <1>2, AfterFirstFacts
<1> HIDE DEF u
<1>5. \A i \in 1 .. l : u[i] = c
  <2>1. SUFFICES ASSUME NEW i \in 1 .. l PROVE u[i] = c
    OBVIOUS
  <2>2. u[i] = IF i = 1 THEN s[1] ELSE IF i <= f + 1 THEN e[i - 1] ELSE s[i - f]
    BY <1>4 DEF IsAfterFirst
  <2>3. 1 \in 1 .. k /\ (i # 1 /\ i <= f + 1 => i - 1 \in 1 .. f) /\ (~ (i <= f + 1) => i - f \in 1 .. k)
    OBVIOUS
  <2> QED
    BY <1>1, <1>2, <2>2, <2>3
<1>6. u = [i \in 1 .. l |-> u[i]] /\ v = [i \in 1 .. l |-> v[i]]
  BY <1>3, <1>4 DEF IsAfterFirst
<1>7. u = v
  BY <1>3, <1>5, <1>6
<1> QED
  BY <1>7 DEF u, v, s, e

LEMMA DownwardModuli ==
  ASSUME NEW r \in Requests, Downward(r), NEW n
  PROVE  /\ IsModuli(Moduli(r, n)) /\ Below(Moduli(r, n))
         /\ Bits(Moduli(r, n)) = EstimatedSizes(r)
         /\ NumPartQ(r, Moduli(r, n)) = NumPartQ(r, EstimatedSizes(r))
         /\ AddOne(r) = FALSE /\ ~ SizesFromNoise(r)
PROOF
<1> DEFINE m == Moduli(r, n)
           sizes == EstimatedSizes(r)
<1>1. AddOne(r) = FALSE /\ ~ SizesFromNoise(r)
  BY DEF Downward, AddOne, SizesFromNoise
<1>2. CASE r.scheme = "BGV" /\ r.technique = "FIXEDMANUAL"
  <2>1. IsModuli(m) /\ Below(m) /\ Bits(m) = sizes
    BY <1>2, ManualModuli
  <2>2. NumPartQ(r, m) = NumPartQ(r, sizes)
    BY <1>2 DEF NumPartQ
  <2> QED
    BY <1>1, <2>1, <2>2
<1>3. CASE r.scheme = "BFV" /\ r.dcrtBits = AuxBits
  <2> DEFINE k == Limbs(r)
             f == FloodingCount(r)
             l == k + f
  <2>1. /\ IsModuli(m) /\ Below(m)
        /\ Bits(m) = AfterFirst(Repeat(AuxBits, k), Repeat(AuxBits, f))
    BY <1>3, BfvModuli
  <2>2. k \in Nat \ {0} /\ f \in Nat /\ FloodingLogQ(r) = AuxBits * f
    BY <1>3, LimbsFacts, FloodingFacts
  <2>3. sizes = Repeat(AuxBits, CeilDiv(k * AuxBits + FloodingLogQ(r), AuxBits))
    <3> HIDE DEF k
    <3>1. sizes = Repeat(r.dcrtBits, BFVLimbs(r, k * r.dcrtBits + FloodingLogQ(r)))
      BY <1>3 DEF EstimatedSizes, k, Limbs
    <3> QED
      BY <1>3, <3>1 DEF BFVLimbs
  <2> HIDE DEF k, f
  <2>4. CeilDiv(k * AuxBits + AuxBits * f, AuxBits) = k + f
    BY <2>2 DEF CeilDiv, AuxBits
  <2>5. Bits(m) = Repeat(AuxBits, k + f)
    BY <2>1, <2>2, ConstantJoin DEF AuxBits
  <2>6. Bits(m) = sizes
    BY <2>2, <2>3, <2>4, <2>5
  <2>7. Len(m) = Len(sizes)
    <3>1. PICK j \in Nat \ {0} : m \in [1 .. j -> ModulusType]
      BY <2>1 DEF IsModuli
    <3> HIDE DEF m, sizes
    <3>2. Len(m) = j /\ Bits(m) \in [1 .. j -> Nat]
      BY <3>1, BitsFacts
    <3> QED
      BY <2>6, <3>1, <3>2
  <2>8. NumPartQ(r, m) = NumPartQ(r, sizes)
    BY <1>3, <2>7 DEF NumPartQ
  <2> QED
    BY <1>1, <2>1, <2>6, <2>8
<1> QED
  BY <1>2, <1>3 DEF Downward

\* The size of P, and the estimate of it while such a call compares with it.
ExactSize(r) == EstimateLogP(NumPartQ(r, EstimatedSizes(r)), EstimatedSizes(r), FALSE)

ExactInv ==
  /\ call.pc \in {"ring", "moduli", "tables"}
  /\ Downward(call.request) /\ call.request.ks = "HYBRID"
  => sizeP_estimate_global = ExactSize(call.request)

LEMMA StepExact ==
  ASSUME EstimateIsMade, Inv, ExactInv, [Next]_vars
  PROVE  ExactInv'
PROOF
<1>1. call' = None => ExactInv'
  BY Idle DEF ExactInv
<1>2. /\ call'.request = call.request /\ sizeP_estimate_global' = sizeP_estimate_global
      /\ call.pc \in {"ring", "moduli", "tables"}
      => ExactInv'
  BY DEF ExactInv
<1>3. CASE \E r \in Requests : GenCryptoContext(r)
  <2>1. PICK r \in Requests : GenCryptoContext(r)
    BY <1>3
  <2>2. CASE UNCHANGED <<sizeP_estimate_global, call>>
    BY <2>2 DEF ExactInv
  <2>3. CASE ~ UNCHANGED <<sizeP_estimate_global, call>>
    <3> DEFINE sizes == EstimatedSizes(r)
               sizeP == IF EstimatesP(r) THEN EstimateLogP(NumPartQ(r, sizes), sizes, AddOne(r)) ELSE 0
    <3>1. /\ sizeP_estimate_global' = IF EstimatesP(r) THEN sizeP ELSE sizeP_estimate_global
          /\ call'.request = r
      <4> HIDE DEF sizeP
      <4> QED
        BY <2>1, <2>3 DEF GenCryptoContext, sizeP, sizes
    <3>2. SUFFICES ASSUME Downward(r), r.ks = "HYBRID"
                   PROVE  sizeP_estimate_global' = ExactSize(r)
      BY <3>1 DEF ExactInv
    <3>3. EstimatesP(r) /\ AddOne(r) = FALSE
      BY <3>2, DownwardModuli DEF EstimateIsMade
    <3> QED
      BY <3>1, <3>3 DEF ExactSize
  <2> QED
    BY <2>2, <2>3
<1>4. CASE \E r \in Archived : Load(r)
  BY <1>4 DEF Load, ExactInv
<1>5. CASE ChooseRing
  <2>1. CallInv(call) /\ call.pc = "ring"
    BY <1>5, Shapes DEF ChooseRing, Generating
  <2>2. call' = None \/ (call'.request = call.request /\ sizeP_estimate_global' = sizeP_estimate_global)
    BY <1>5, <2>1 DEF ChooseRing, Return, CallInv, IsCall
  <2> QED
    BY <1>1, <1>2, <2>1, <2>2
<1>6. CASE FitModuli
  <2>1. CallInv(call) /\ call.pc = "sizes"
    BY <1>6, Shapes DEF FitModuli, Generating
  <2>2. call.request \in Requests /\ SizesFromNoise(call.request) /\ IsCall(call)
    BY <2>1 DEF CallInv, RingInv
  <2>3. ~ Downward(call.request)
    BY <2>2, DownwardModuli
  <2>4. call'.request = call.request
    BY <1>6, <2>2 DEF FitModuli, IsCall
  <2> QED
    BY <2>3, <2>4 DEF ExactInv
<1>7. CASE SelectModuli
  <2>1. CallInv(call) /\ call.pc = "moduli"
    BY <1>7, Shapes DEF SelectModuli, Generating
  <2>2. call' = None \/ (call'.request = call.request /\ sizeP_estimate_global' = sizeP_estimate_global)
    BY <1>7, <2>1 DEF SelectModuli, Return, CallInv, IsCall
  <2> QED
    BY <1>1, <1>2, <2>1, <2>2
<1>8. CASE PrecomputeCRTTables
  <2>1. call.pc = "tables" => IsCall(call)
    BY Shapes DEF Generating, CallInv
  <2>2. /\ call.pc \in {"tables", "loaded"}
        /\ \/ \E sizeP : TablesDone(sizeP)
           \/ Return("digits") \/ Return("estimate")
    BY <1>8 DEF PrecomputeCRTTables
  <2>3. call' = None \/ call'.pc = "validate"
    BY <2>1, <2>2 DEF TablesDone, Return, IsCall
  <2> QED
    BY <1>1, <2>3 DEF ExactInv
<1>9. CASE ValidateRing
  BY <1>1, <1>9 DEF ValidateRing, Return
<1>10. CASE UNCHANGED vars
  BY <1>10 DEF vars, ExactInv
<1> QED
  BY <1>3, <1>4, <1>5, <1>6, <1>7, <1>8, <1>9, <1>10 DEF Next

LEMMA RefusedUpward ==
  ASSUME EstimateIsMade, Inv, ExactInv, DownwardEstimateExact, [Next]_vars
  PROVE  DownwardEstimateExact'
PROOF
<1>1. CASE \E r \in Requests : GenCryptoContext(r)
  <2>1. PICK r \in Requests : GenCryptoContext(r)
    BY <1>1
  <2>2. last'.answer = "digits" \/ last' = NoAnswer
    BY <2>1 DEF GenCryptoContext
  <2> QED
    BY <2>2 DEF DownwardEstimateExact, NoAnswer
<1>2. CASE \E r \in Archived : Load(r)
  BY <1>2 DEF Load, DownwardEstimateExact, NoAnswer
<1>3. CASE ChooseRing
  BY <1>3 DEF ChooseRing, Return, DownwardEstimateExact
<1>4. CASE FitModuli
  BY <1>4 DEF FitModuli, DownwardEstimateExact
<1>5. CASE SelectModuli
  BY <1>5 DEF SelectModuli, Return, DownwardEstimateExact
<1>6. CASE PrecomputeCRTTables
  <2> DEFINE r == call.request
             m == call.moduli
             d == NumPartQ(r, m)
  <2>1. CASE Return("digits") \/ Return("ok") \/ UNCHANGED last
    BY <2>1 DEF Return, DownwardEstimateExact
  <2>2. CASE /\ r.ks = "HYBRID" /\ Distributable(Len(m), d) /\ Return("estimate")
             /\ \E bits \in MaxBits(m, d) : ~ EstimateMet(CeilDiv(bits, AuxBits))
    <3>1. call.pc = "tables"
      <4>1. call.pc \in {"tables", "loaded"}
        BY <1>6 DEF PrecomputeCRTTables
      <4>2. call.pc # "loaded"
        BY <2>2, Shapes DEF LoadInv, EstimateIsMade
      <4> QED
        BY <4>1, <4>2
    <3>2. r \in Requests /\ m = Moduli(r, call.n)
      BY <3>1, Shapes DEF Generating, CallInv, FitsInv
    <3>3. ~ Downward(r)
      <4>1. SUFFICES ASSUME Downward(r) PROVE FALSE
        OBVIOUS
      <4>2. /\ IsModuli(m) /\ Below(m) /\ Bits(m) = EstimatedSizes(r)
            /\ d = NumPartQ(r, EstimatedSizes(r))
        BY <3>2, <4>1, DownwardModuli
      <4>3. sizeP_estimate_global = ExactSize(r)
        BY <2>2, <3>1, <4>1 DEF ExactInv
      <4>4. ExactSize(r) = EstimateLogP(d, Bits(m), FALSE)
        BY <4>2 DEF ExactSize
      <4>5. d \in Nat \ {0}
        BY <3>2, DigitsAsked
      <4>6. PICK bits \in MaxBits(m, d) : ~ EstimateMet(CeilDiv(bits, AuxBits))
        BY <2>2
      <4>7. Distributable(Len(m), d)
        BY <2>2
      <4> HIDE DEF d, m
      <4>8. PICK n \in Nat \ {0} : m \in [1 .. n -> ModulusType]
        BY <4>2 DEF IsModuli
      <4>9. Distributable(n, d)
        <5>1. Len(m) = n
          BY <4>8
        <5> QED
          BY <4>7, <5>1
      <4>10. CeilDiv(bits, AuxBits) = EstimateLogP(d, Bits(m), FALSE)
        BY <4>2, <4>5, <4>6, <4>8, <4>9, ExactBits
      <4> QED
        BY <4>3, <4>4, <4>6, <4>10 DEF EstimateMet
    <3>4. last'.request = r
      BY <2>2 DEF Return
    <3> QED
      BY <3>3, <3>4 DEF DownwardEstimateExact, Downward
  <2>3. \/ Return("digits") \/ Return("ok") \/ UNCHANGED last
        \/ /\ r.ks = "HYBRID" /\ Distributable(Len(m), d) /\ Return("estimate")
           /\ \E bits \in MaxBits(m, d) : ~ EstimateMet(CeilDiv(bits, AuxBits))
    BY <1>6 DEF PrecomputeCRTTables, TablesDone
  <2> QED
    BY <2>1, <2>2, <2>3
<1>7. CASE ValidateRing
  BY <1>7 DEF ValidateRing, Return, DownwardEstimateExact
<1>8. CASE UNCHANGED vars
  BY <1>8 DEF vars, DownwardEstimateExact
<1> QED
  BY <1>1, <1>2, <1>3, <1>4, <1>5, <1>6, <1>7, <1>8 DEF Next

(* Where every modulus is searched downward with the size that was         *)
(* estimated (FIXEDMANUAL of BGV, and BFV with moduli of a word), the      *)
(* tables never refuse a request for its estimate of P.                    *)
THEOREM DownwardIsExact == EstimateIsMade => (Spec => []DownwardEstimateExact)
PROOF
<1> SUFFICES ASSUME EstimateIsMade PROVE Spec => []DownwardEstimateExact
  OBVIOUS
<1>1. Init => Inv /\ ExactInv /\ DownwardEstimateExact
  <2>1. SUFFICES ASSUME Init PROVE Inv /\ ExactInv /\ DownwardEstimateExact
    OBVIOUS
  <2>2. call.pc = "idle" /\ last.answer = "none"
    BY <2>1, Idle DEF Init, NoAnswer
  <2> QED
    BY <2>1, <2>2, InitInv DEF ExactInv, DownwardEstimateExact
<1>2. Inv /\ ExactInv /\ DownwardEstimateExact /\ [Next]_vars => Inv' /\ ExactInv' /\ DownwardEstimateExact'
  BY StepInv, StepExact, RefusedUpward
<1> QED
  BY <1>1, <1>2, PTL DEF Spec
=============================================================================
