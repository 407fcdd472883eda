------------------------ MODULE CKKSLeveledSHE_proof ------------------------
(* Proofs about CKKSLeveledSHE, for every number of moduli, every modulus,  *)
(* composite degree and set of factors: Decode divides by the scale that    *)
(* the polynomials have, and the tracked level, degree and factor are those *)
(* that the adjustment of two operands relies on.                           *)
EXTENDS CKKSLeveledSHE, FiniteSetTheorems, WellFoundedInduction, TLAPS

-----------------------------------------------------------------------------
(* Induction over the natural numbers, for sets.                           *)

(* A non-empty set of natural numbers has a least element.                  *)
LEMMA LeastExists ==
  ASSUME NEW S \in SUBSET Nat, S # {}
  PROVE  \E x \in S : \A y \in S : x <= y
PROOF
<1> DEFINE T == {0 .. n : n \in S}
<1>1. \A n \in Nat : 0 .. n \in SUBSET Nat /\ IsFiniteSet(0 .. n)
  BY FS_Interval
<1>2. T \subseteq FiniteSubsetsOf(Nat) /\ T # {}
  BY <1>1 DEF FiniteSubsetsOf
<1>3. PICK X \in T : \A Y \in T : <<Y, X>> \notin StrictSubsetOrdering(Nat)
  <2> HIDE DEF T
  <2> QED
    BY <1>2, FS_StrictSubsetOrderingWellFounded, WFMin
<1>4. PICK x \in S : X = 0 .. x
  BY <1>3
<1>5. ASSUME NEW y \in S, y < x
      PROVE  FALSE
  <2>1. x \in 0 .. x /\ x \notin 0 .. y /\ 0 .. y \subseteq 0 .. x
    BY <1>5
  <2>2. <<0 .. y, 0 .. x>> \in (SUBSET Nat) \X (SUBSET Nat)
    BY <1>1
  <2>3. <<0 .. y, 0 .. x>> \in StrictSubsetOrdering(Nat)
    BY <2>1, <2>2 DEF StrictSubsetOrdering
  <2> QED
    BY <1>3, <1>4, <2>3
<1> QED
  BY <1>5

(* A set that holds 0, and with a number its successor, holds them all.     *)
LEMMA SetInduction ==
  ASSUME NEW Members, 0 \in Members, \A n \in Nat : n \in Members => n + 1 \in Members
  PROVE  \A n \in Nat : n \in Members
PROOF
<1>1. SUFFICES ASSUME Nat \ Members # {} PROVE FALSE
  OBVIOUS
<1>2. PICK x \in Nat \ Members : \A y \in Nat \ Members : x <= y
  BY <1>1, LeastExists
<1>3. /\ x - 1 \in Nat /\ x - 1 \in Members
      /\ x - 1 + 1 = x
  BY <1>2
<1> QED
  BY <1>2, <1>3

(* A set that holds 0, and with a number its successor, up to a bound.      *)
LEMMA BoundedInduction ==
  ASSUME NEW Members, NEW top \in Nat, 0 \in Members, \A n \in 0 .. top - 1 : n \in Members => n + 1 \in Members
  PROVE  \A n \in 0 .. top : n \in Members
PROOF
<1> DEFINE Missing == {n \in 0 .. top : n \notin Members}
<1>1. SUFFICES ASSUME Missing # {} PROVE FALSE
  OBVIOUS
<1>2. Missing \in SUBSET Nat
  OBVIOUS
<1>3. PICK x \in Missing : \A y \in Missing : x <= y
  <2> HIDE DEF Missing
  <2> QED
    BY <1>1, <1>2, LeastExists
<1>4. x - 1 \in 0 .. top - 1 /\ x - 1 \in Members /\ x - 1 + 1 = x
  BY <1>3
<1> QED
  BY <1>3, <1>4

(* Decode is right for the techniques other than FIXEDAUTO, of which a run  *)
(* shows the contrary; and for FIXEDMANUAL where a single modulus has room  *)
(* for one scaling factor, since Decode takes the degree of a ciphertext of *)
(* one tower to be one.                                                     *)
DecodableTechniques ==
  "FIXEDAUTO" \notin Techniques /\ ("FIXEDMANUAL" \in Techniques => FirstRoom = 1)

-----------------------------------------------------------------------------
(* The inductive invariant.  The tables: a scaling factor for each level    *)
(* and, where a level has one that is used, for degree two as well; and     *)
(* rescaling from degree two gives the factor of the level below.           *)
Elem(l, deg) ==
  IF Ext /\ l = 0 THEN GetScalingFactorRealBig(0) ELSE Power(GetScalingFactorReal(l), deg)

BigIsDegreeTwo ==
  Flexible => \A l \in 0 .. SizeQ - 2 : GetScalingFactorRealBig(l) = Elem(l, 2)
RescalingDescends ==
  ~Manual =>
    \A l \in Levels :
      (l % Degree = 0 /\ l + Degree \in Levels)
      => Over(Elem(l, 2), DroppedFactor(SizeQ - l, Degree)) = Elem(l + Degree, 1)

Tables ==
  /\ scalTechnique \in Techniques
  /\ m_scalingFactorsReal \in [Levels -> Factors]
  /\ m_scalingFactorsRealBig \in [0 .. SizeQ - 2 -> Factors]
  /\ BigIsDegreeTwo /\ RescalingDescends

(* A ciphertext.  What a call that throws keeps of it, and what an operand  *)
(* has; the tracked factor is a factor even where the scale is none.        *)
Kept(c) == c \in CtType /\ c.sf \in Factors /\ (Flexible => c.scale = c.sf)
Aligned(c) == c.towers + c.level = SizeQ
ManualGood(c) == c.deg >= 1 /\ c.scale = Power(TwoToP, c.deg)
AutoGood(c) ==
  /\ c.deg \in {1, 2} /\ c.level % Degree = 0 /\ c.sf = Elem(c.level, c.deg)
  /\ Ext /\ c.level = 0 => c.deg = 2
Good(c) == Kept(c) /\ Aligned(c) /\ (Manual => ManualGood(c)) /\ (~Manual => AutoGood(c))

CtOK(c) ==
  /\ Kept(c)
  /\ c.status # "torn" => Aligned(c) /\ (Manual => ManualGood(c))
  /\ c.status = "operand" /\ ~Manual => AutoGood(c)

AllOK(f) ==
  /\ f \in [Ciphertexts -> CtType \cup {NoCt}]
  /\ \A x \in Ciphertexts : f[x] = NoCt \/ CtOK(f[x])

IInv == Tables /\ AllOK(ct)

-----------------------------------------------------------------------------
(* Products.  A recursive definition over 0 .. n has a value: a chain of    *)
(* products of n factors is continued by one more.                          *)
Chain(g, n) ==
  CHOOSE f : f = [j \in 0 .. n |-> IF j = 0 THEN One ELSE Times(f[j - 1], g[j])]

LEMMA ChainExists ==
  ASSUME NEW g, NEW n \in Nat
  PROVE  /\ Chain(g, n) = [j \in 0 .. n |-> IF j = 0 THEN One
                                            ELSE Times(Chain(g, n)[j - 1], g[j])]
         /\ Product(g, n) = Chain(g, n)[n]
PROOF
<1> DEFINE Is(f, m) == f = [j \in 0 .. m |-> IF j = 0 THEN One ELSE Times(f[j - 1], g[j])]
           P == {m \in Nat : \E f : Is(f, m)}
<1>1. 0 \in P
  <2> DEFINE f == [j \in 0 .. 0 |-> One]
  <2>1. Is(f, 0)
    OBVIOUS
  <2> QED
    BY <2>1
<1>2. ASSUME NEW m \in Nat, m \in P
      PROVE  m + 1 \in P
  <2>1. PICK f : Is(f, m)
    BY <1>2
  <2> DEFINE h == [j \in 0 .. m + 1 |-> IF j = 0 THEN One ELSE Times(f[j - 1], g[j])]
  <2>2. \A j \in 0 .. m : h[j] = f[j]
    BY <2>1
  <2> HIDE DEF h
  <2>3. \A j \in 0 .. m + 1 : j # 0 => f[j - 1] = h[j - 1]
    BY <2>2
  <2>4. Is(h, m + 1)
    BY <2>3 DEF h
  <2> QED
    BY <2>4
<1>3. n \in P
  <2> HIDE DEF P
  <2> QED
    BY <1>1, <1>2, SetInduction
<1>4. PICK f : Is(f, n)
  BY <1>3
<1>5. Is(Chain(g, n), n)
  BY <1>4 DEF Chain
<1> QED
  BY <1>5 DEF Chain, Product

LEMMA ChainsAgree ==
  ASSUME NEW g, NEW h, NEW n \in Nat, NEW m \in Nat, n <= m,
         \A j \in 1 .. n : g[j] = h[j]
  PROVE  Chain(g, n)[n] = Chain(h, m)[n]
PROOF
<1> DEFINE G == Chain(g, n)
           H == Chain(h, m)
           P == {j \in 0 .. n : G[j] = H[j]}
<1>1. /\ G = [j \in 0 .. n |-> IF j = 0 THEN One ELSE Times(G[j - 1], g[j])]
      /\ H = [j \in 0 .. m |-> IF j = 0 THEN One ELSE Times(H[j - 1], h[j])]
  BY ChainExists
<1> HIDE DEF G, H
<1>2. 0 \in P
  BY <1>1
<1>3. ASSUME NEW j \in 0 .. n - 1, j \in P
      PROVE  j + 1 \in P
  <2>1. /\ j + 1 \in 0 .. n /\ j + 1 \in 0 .. m /\ j + 1 # 0
        /\ j + 1 - 1 = j /\ j + 1 \in 1 .. n
    OBVIOUS
  <2>2. G[j + 1] = Times(G[j], g[j + 1]) /\ H[j + 1] = Times(H[j], h[j + 1])
    BY <1>1, <2>1
  <2>3. g[j + 1] = h[j + 1] /\ G[j] = H[j]
    BY <1>3, <2>1
  <2> QED
    BY <2>1, <2>2, <2>3
<1>4. n \in P
  <2> HIDE DEF P
  <2> QED
    BY <1>2, <1>3, BoundedInduction
<1> QED
  BY <1>4 DEF G, H

LEMMA ProductZero ==
  ASSUME NEW g
  PROVE  Product(g, 0) = One
BY ChainExists

LEMMA ProductStep ==
  ASSUME NEW g, NEW n \in Nat
  PROVE  Product(g, n + 1) = Times(Product(g, n), g[n + 1])
PROOF
<1> DEFINE G == Chain(g, n)
           H == Chain(g, n + 1)
<1>1. H = [j \in 0 .. n + 1 |-> IF j = 0 THEN One ELSE Times(H[j - 1], g[j])]
  BY ChainExists
<1>2. G[n] = H[n]
  BY ChainsAgree
<1>3. Product(g, n) = G[n] /\ Product(g, n + 1) = H[n + 1]
  BY ChainExists
<1> HIDE DEF G, H
<1>4. H[n + 1] = Times(H[n], g[n + 1])
  BY <1>1
<1> QED
  BY <1>2, <1>3, <1>4

LEMMA ProductSame ==
  ASSUME NEW g, NEW h, NEW n \in Nat, \A j \in 1 .. n : g[j] = h[j]
  PROVE  Product(g, n) = Product(h, n)
BY ChainsAgree, ChainExists

LEMMA ProductOne ==
  ASSUME NEW g, g[1] \in Factors
  PROVE  Product(g, 1) = g[1]
PROOF
<1>1. Product(g, 0 + 1) = Times(Product(g, 0), g[0 + 1])
  BY ProductStep
<1>2. 0 + 1 = 1
  OBVIOUS
<1>3. Product(g, 1) = Times(One, g[1])
  BY <1>1, <1>2, ProductZero
<1> QED
  BY <1>3, FactorsAssumption

LEMMA ProductIn ==
  ASSUME NEW g, NEW n \in Nat, \A j \in 1 .. n : g[j] \in Factors
  PROVE  Product(g, n) \in Factors
PROOF
<1> DEFINE P == {j \in 0 .. n : Product(g, j) \in Factors}
<1>1. 0 \in P
  BY ProductZero, FactorsAssumption
<1>2. ASSUME NEW j \in 0 .. n - 1, j \in P
      PROVE  j + 1 \in P
  <2>1. j \in Nat /\ j + 1 \in 0 .. n /\ j + 1 \in 1 .. n
    OBVIOUS
  <2>2. Product(g, j + 1) = Times(Product(g, j), g[j + 1])
    BY <2>1, ProductStep
  <2> QED
    BY <1>2, <2>1, <2>2, FactorsAssumption
<1>3. n \in P
  <2> HIDE DEF P
  <2> QED
    BY <1>1, <1>2, BoundedInduction
<1> QED
  BY <1>3

(* Powers.                                                                  *)
LEMMA PowerFacts ==
  ASSUME NEW f \in Factors
  PROVE  /\ Power(f, 0) = One /\ Power(f, 1) = f /\ Power(f, 2) = Times(f, f)
         /\ \A n \in Nat : /\ Power(f, n) \in Factors
                           /\ Power(f, n + 1) = Times(Power(f, n), f)
PROOF
<1>1. ASSUME NEW n \in Nat
      PROVE  Power(f, n) \in Factors /\ Power(f, n + 1) = Times(Power(f, n), f)
  <2> DEFINE g == [j \in 1 .. n |-> f]
             h == [j \in 1 .. n + 1 |-> f]
  <2>1. /\ \A j \in 1 .. n : g[j] = h[j] /\ g[j] \in Factors
        /\ h[n + 1] = f
    OBVIOUS
  <2> HIDE DEF g, h
  <2>2. Product(g, n) = Product(h, n) /\ Product(g, n) \in Factors
    BY <2>1, ProductSame, ProductIn
  <2>3. Product(h, n + 1) = Times(Product(h, n), f)
    BY <2>1, ProductStep
  <2> QED
    BY <2>2, <2>3 DEF Power, g, h
<1>2. Power(f, 0) = One
  BY ProductZero DEF Power
<1>3. Power(f, 0 + 1) = Times(One, f) /\ Power(f, 1 + 1) = Times(Power(f, 1), f)
  BY <1>1, <1>2
<1>4. Power(f, 1) = f /\ Power(f, 2) = Times(f, f)
  BY <1>3, FactorsAssumption
<1> QED
  BY <1>1, <1>2, <1>4

LEMMA PowerSum ==
  ASSUME NEW f \in Factors, NEW m \in Nat, NEW n \in Nat
  PROVE  Power(f, m + n) = Times(Power(f, m), Power(f, n))
PROOF
<1> DEFINE P == {k \in Nat : Power(f, m + k) = Times(Power(f, m), Power(f, k))}
<1>1. Power(f, m) \in Factors /\ Power(f, m + 0) = Power(f, m)
  BY PowerFacts
<1>2. 0 \in P
  BY <1>1, PowerFacts, FactorsAssumption
<1>3. ASSUME NEW k \in Nat, k \in P
      PROVE  k + 1 \in P
  <2>1. m + k \in Nat /\ m + (k + 1) = (m + k) + 1
    OBVIOUS
  <2>2. Power(f, m + (k + 1)) = Times(Times(Power(f, m), Power(f, k)), f)
    BY <1>3, <2>1, PowerFacts
  <2>3. Power(f, k) \in Factors /\ Power(f, k + 1) = Times(Power(f, k), f)
    BY PowerFacts
  <2>4. Times(Times(Power(f, m), Power(f, k)), f) = Times(Power(f, m), Times(Power(f, k), f))
    BY <1>1, <2>3, FactorsAssumption
  <2> QED
    BY <2>2, <2>3, <2>4
<1>4. n \in P
  <2> HIDE DEF P
  <2> QED
    BY <1>2, <1>3, SetInduction
<1> QED
  BY <1>4

-----------------------------------------------------------------------------
(* Factors, multiples of the composite degree, and the getters.             *)
LEMMA FactorLaws ==
  ASSUME NEW a \in Factors, NEW b \in Factors
  PROVE  /\ Times(a, b) \in Factors /\ Over(a, b) \in Factors
         /\ Times(a, b) = Times(b, a) /\ Times(One, a) = a /\ Times(a, One) = a
         /\ Times(Over(a, b), b) = a /\ Over(Times(a, b), b) = a
         /\ One \in Factors
BY FactorsAssumption

(* The constant that Retarget multiplies by, times the factor r that it is  *)
(* encoded with, turns the factor s into the target t times d.              *)
LEMMA RetargetLaw ==
  ASSUME NEW s \in Factors, NEW t \in Factors, NEW d \in Factors, NEW r \in Factors
  PROVE  /\ Over(Times(Over(t, s), d), r) \in Factors
         /\ Times(s, Times(Over(Times(Over(t, s), d), r), r)) = Times(t, d)
PROOF
<1>1. Over(t, s) \in Factors /\ Times(Over(t, s), d) \in Factors
  BY FactorLaws
<1>2. Times(Over(Times(Over(t, s), d), r), r) = Times(Over(t, s), d)
  BY <1>1, FactorLaws
<1>3. Times(s, Times(Over(t, s), d)) = Times(Times(s, Over(t, s)), d)
  BY <1>1, FactorsAssumption
<1>4. Times(s, Over(t, s)) = t
  BY <1>1, FactorLaws
<1>5. Over(Times(Over(t, s), d), r) \in Factors
  BY <1>1, FactorLaws
<1> QED
  BY <1>2, <1>3, <1>4, <1>5

LEMMA MultipleShift ==
  ASSUME NEW d \in 1 .. 4, NEW a \in Int, a % d = 0
  PROVE  (a + d) % d = 0 /\ (a - d) % d = 0
PROOF
<1>1. d = 1 \/ d = 2 \/ d = 3 \/ d = 4
  OBVIOUS
<1> QED
  BY <1>1

LEMMA MultipleGap ==
  ASSUME NEW d \in 1 .. 4, NEW a \in Int, NEW b \in Int, a % d = 0, b % d = 0, a < b
  PROVE  a + d <= b
PROOF
<1>1. d = 1 \/ d = 2 \/ d = 3 \/ d = 4
  OBVIOUS
<1> QED
  BY <1>1

LEMMA DegreeFacts ==
  ASSUME scalTechnique \in Techniques
  PROVE  /\ Degree \in 1 .. 4 /\ Degree <= CompositeDegree /\ Degree <= SizeQ
         /\ SizeQ % Degree = 0 /\ Degree \div Degree = 1 /\ 0 % Degree = 0
         /\ Ext => Degree = 1 /\ Flexible /\ ~Manual
         /\ ~Flexible => Degree = 1 /\ scalTechnique \in {"FIXEDMANUAL", "FIXEDAUTO"}
         /\ Manual => ~Flexible
         /\ Degree = 1 \/ (Degree = CompositeDegree /\ Composite /\ Flexible)
PROOF
<1>1. scalTechnique \in FLEXIBLE \cup {"FIXEDMANUAL", "FIXEDAUTO"}
  BY TechniquesAssumption
<1>2. Composite => Flexible
  BY DEF Composite, Flexible, FLEXIBLE
<1>3. /\ Ext => ~Composite /\ Flexible /\ ~Manual
      /\ Manual => ~Flexible
  BY DEF Ext, Manual, Composite, Flexible, FLEXIBLE, COMPOSITE
<1>4. /\ CompositeDegree \in 1 .. 4 /\ SizeQ \in Nat /\ SizeQ > 2
      /\ Composite => SizeQ % CompositeDegree = 0
  BY TechniquesAssumption, SizesAssumption DEF Composite
<1>5. CASE ~Composite
  <2>1. Degree = 1
    BY <1>5 DEF Degree
  <2>2. ~Flexible => scalTechnique \in {"FIXEDMANUAL", "FIXEDAUTO"}
    BY <1>1 DEF Flexible
  <2> QED
    BY <1>3, <1>4, <2>1, <2>2
<1>6. CASE Composite
  <2>1. Degree = CompositeDegree
    BY <1>6 DEF Degree
  <2>2. /\ Degree \in 1 .. 4 /\ SizeQ % Degree = 0
    BY <1>4, <1>6, <2>1
  <2> DEFINE d == Degree
  <2>3. d \in {1, 2, 3, 4} /\ SizeQ % d = 0
    BY <2>2
  <2> HIDE DEF d
  <2>4. d <= SizeQ /\ d \div d = 1 /\ 0 % d = 0
    BY <1>4, <2>3
  <2> QED
    BY <1>2, <1>3, <1>6, <2>1, <2>2, <2>4 DEF d
<1> QED
  BY <1>5, <1>6

(* The factor of the moduli a rescaling drops.                              *)
LEMMA DroppedFacts ==
  ASSUME NEW towers \in 1 .. SizeQ, NEW n \in 0 .. towers
  PROVE  /\ DroppedFactor(towers, n) \in Factors
         /\ n = 0 => DroppedFactor(towers, n) = One
         /\ Flexible => DroppedFactor(towers, n) = ModuliProduct(towers - 1, n)
         /\ ~Flexible => DroppedFactor(towers, n) = Power(TwoToP, n)
PROOF
<1> DEFINE g == [j \in 1 .. n |-> GetModReduceFactor(towers - j)]
           h == [j \in 1 .. n |-> moduliQ[towers - 1 - j + 1]]
           k == [j \in 1 .. n |-> TwoToP]
<1>1. SizeQ \in Nat /\ n \in Nat
  BY SizesAssumption
<1>2. ASSUME NEW j \in 1 .. n
      PROVE  /\ towers - j \in Levels /\ towers - 1 - j + 1 = towers - j
             /\ g[j] = GetModReduceFactor(towers - j)
             /\ h[j] = moduliQ[towers - j] /\ k[j] = TwoToP
  BY <1>1 DEF Levels
<1>3. \A j \in 1 .. n : g[j] \in Factors
  BY <1>2, FactorsAssumption DEF GetModReduceFactor
<1>4. /\ Flexible => \A j \in 1 .. n : g[j] = h[j]
      /\ ~Flexible => \A j \in 1 .. n : g[j] = k[j]
  BY <1>2 DEF GetModReduceFactor
<1> HIDE DEF g, h, k
<1>5. /\ Product(g, n) \in Factors
      /\ Flexible => Product(g, n) = Product(h, n)
      /\ ~Flexible => Product(g, n) = Product(k, n)
  BY <1>1, <1>3, <1>4, ProductIn, ProductSame
<1>6. n = 0 => Product(g, n) = One
  BY ProductZero
<1> QED
  BY <1>5, <1>6 DEF DroppedFactor, ModuliProduct, Power, g, h, k

LEMMA ModuliProductIn ==
  ASSUME NEW i \in Levels, NEW n \in Nat, n <= i + 1
  PROVE  ModuliProduct(i, n) \in Factors /\ ModuliProduct(i, 1) = moduliQ[i]
PROOF
<1>1. \A m \in Nat : m <= i + 1 => ModuliProduct(i, m) \in Factors
  <2> TAKE m \in Nat
  <2> HAVE m <= i + 1
  <2> DEFINE g == [j \in 1 .. m |-> moduliQ[i - j + 1]]
  <2>1. \A j \in 1 .. m : i - j + 1 \in Levels
    BY SizesAssumption DEF Levels
  <2>2. \A j \in 1 .. m : g[j] \in Factors
    BY <2>1, FactorsAssumption
  <2> HIDE DEF g
  <2>3. Product(g, m) \in Factors
    BY <2>2, ProductIn
  <2> QED
    BY <2>3 DEF ModuliProduct, g
<1>2. ModuliProduct(i, 1) = moduliQ[i]
  <2> DEFINE g == [j \in 1 .. 1 |-> moduliQ[i - j + 1]]
  <2>1. g[1] = moduliQ[i] /\ moduliQ[i] \in Factors
    BY FactorsAssumption, SizesAssumption DEF Levels
  <2> HIDE DEF g
  <2>2. Product(g, 1) = moduliQ[i]
    BY <2>1, ProductOne
  <2> QED
    BY <2>2 DEF ModuliProduct, g
<1> QED
  BY <1>1, <1>2

-----------------------------------------------------------------------------
(* The tables that a context is made with.                                  *)
DegreeOf(tech) == IF tech \in COMPOSITE THEN CompositeDegree ELSE 1
FactorAt(tech, f, k) ==
  IF k = 0 THEN ModuliProduct(SizeQ - 1, DegreeOf(tech))
  ELSE IF tech = "FLEXIBLEAUTOEXT" /\ k = 1 THEN moduliQ[SizeQ - 2]
  ELSE IF k % DegreeOf(tech) /= 0 THEN One
  ELSE Over(Times(f[k - DegreeOf(tech)], f[k - DegreeOf(tech)]),
            ModuliProduct(SizeQ - k + DegreeOf(tech) - 1, DegreeOf(tech)))

LEMMA DegreeOfFacts ==
  ASSUME NEW tech \in Techniques
  PROVE  /\ DegreeOf(tech) \in 1 .. 4 /\ DegreeOf(tech) <= SizeQ
         /\ tech = "FLEXIBLEAUTOEXT" => DegreeOf(tech) = 1
         /\ \A k \in Nat : k # 0 /\ k % DegreeOf(tech) = 0 =>
              k - DegreeOf(tech) \in 0 .. k - 1 /\ (k - DegreeOf(tech)) % DegreeOf(tech) = 0
PROOF
<1>1. /\ CompositeDegree \in 1 .. 4 /\ SizeQ \in Nat /\ SizeQ > 2
      /\ tech \in COMPOSITE => SizeQ % CompositeDegree = 0
  BY TechniquesAssumption, SizesAssumption
<1> DEFINE d == DegreeOf(tech)
<1>2. d \in 1 .. 4 /\ d <= SizeQ
  <2>1. CASE tech \in COMPOSITE
    <3>1. d = CompositeDegree
      BY <2>1 DEF DegreeOf
    <3> HIDE DEF d
    <3>2. d \in {1, 2, 3, 4} /\ SizeQ % d = 0
      BY <1>1, <2>1, <3>1
    <3> QED
      BY <1>1, <3>2
  <2>2. CASE tech \notin COMPOSITE
    <3>1. d = 1
      BY <2>2 DEF DegreeOf
    <3> QED
      BY <1>1, <3>1
  <2> QED
    BY <2>1, <2>2
<1>3. tech = "FLEXIBLEAUTOEXT" => d = 1
  BY DEF DegreeOf, COMPOSITE
<1> HIDE DEF d
<1>4. \A k \in Nat : k # 0 /\ k % d = 0 => k - d \in 0 .. k - 1 /\ (k - d) % d = 0
  <2> TAKE k \in Nat
  <2> HAVE k # 0 /\ k % d = 0
  <2>1. 0 % d = 0
    BY <1>2
  <2>2. k \in Int /\ 0 \in Int /\ 0 < k /\ k % d = 0
    OBVIOUS
  <2>3. (k - d) % d = 0
    BY <1>2, <2>2, MultipleShift
  <2>4. 0 + d <= k
    BY <1>2, <2>1, <2>2, MultipleGap
  <2> QED
    BY <1>2, <2>3, <2>4
<1> QED
  BY <1>2, <1>3, <1>4 DEF d

LEMMA RealTable ==
  ASSUME NEW tech \in Techniques
  PROVE  LET f == PrecomputeReal(tech) IN
         f = [k \in Levels |-> FactorAt(tech, f, k)]
PROOF
<1> DEFINE P == {m \in Nat : m < SizeQ => \E f : f = [k \in 0 .. m |-> FactorAt(tech, f, k)]}
<1>1. 0 \in P
  <2> DEFINE f == [k \in 0 .. 0 |-> ModuliProduct(SizeQ - 1, DegreeOf(tech))]
  <2>1. f = [k \in 0 .. 0 |-> FactorAt(tech, f, k)]
    BY DEF FactorAt
  <2> QED
    BY <2>1
<1>2. ASSUME NEW m \in Nat, m \in P
      PROVE  m + 1 \in P
  <2> SUFFICES ASSUME m + 1 < SizeQ
               PROVE  \E h : h = [k \in 0 .. m + 1 |-> FactorAt(tech, h, k)]
    OBVIOUS
  <2>1. m < SizeQ
    BY SizesAssumption
  <2>2. PICK f : f = [k \in 0 .. m |-> FactorAt(tech, f, k)]
    BY <1>2, <2>1
  <2> DEFINE h == [k \in 0 .. m + 1 |-> FactorAt(tech, f, k)]
  <2>3. \A k \in 0 .. m : h[k] = f[k]
    <3> DEFINE F(k) == FactorAt(tech, f, k)
    <3>1. f = [k \in 0 .. m |-> F(k)] /\ h = [k \in 0 .. m + 1 |-> F(k)]
      BY <2>2
    <3> HIDE DEF F, h
    <3> QED
      BY <3>1
  <2>4. DOMAIN h = 0 .. m + 1
    OBVIOUS
  <2> HIDE DEF h
  <2>5. \A k \in 0 .. m + 1 : FactorAt(tech, f, k) = FactorAt(tech, h, k)
    <3> TAKE k \in 0 .. m + 1
    <3>1. CASE k # 0 /\ k % DegreeOf(tech) = 0
      <4>1. k - DegreeOf(tech) \in 0 .. m
        BY <3>1, DegreeOfFacts
      <4> QED
        BY <2>3, <4>1 DEF FactorAt
    <3>2. CASE k = 0 \/ k % DegreeOf(tech) # 0
      BY <3>2 DEF FactorAt
    <3> QED
      BY <3>1, <3>2
  <2>6. h = [k \in 0 .. m + 1 |-> FactorAt(tech, h, k)]
    BY <2>5 DEF h
  <2> QED
    BY <2>6
<1>3. SizeQ - 1 \in Nat /\ SizeQ - 1 < SizeQ
  BY SizesAssumption
<1>4. SizeQ - 1 \in P
  <2> HIDE DEF P
  <2> QED
    BY <1>1, <1>2, <1>3, SetInduction
<1>5. \E f : f = [k \in Levels |-> FactorAt(tech, f, k)]
  BY <1>3, <1>4 DEF Levels
<1>6. PrecomputeReal(tech) = CHOOSE f : f = [k \in Levels |-> FactorAt(tech, f, k)]
  BY DEF PrecomputeReal, FactorAt, DegreeOf
<1> QED
  BY <1>5, <1>6

LEMMA RealTableIn ==
  ASSUME NEW tech \in Techniques
  PROVE  PrecomputeReal(tech) \in [Levels -> Factors]
PROOF
<1> DEFINE f == PrecomputeReal(tech)
           d == DegreeOf(tech)
           P == {m \in Nat : \A k \in 0 .. m : k \in Levels => f[k] \in Factors}
<1>1. f = [k \in Levels |-> FactorAt(tech, f, k)]
  BY RealTable
<1>2. /\ SizeQ \in Nat /\ SizeQ > 2 /\ d \in 1 .. 4 /\ d <= SizeQ
      /\ \A k \in Nat : k # 0 /\ k % d = 0 => k - d \in 0 .. k - 1
  BY SizesAssumption, DegreeOfFacts
<1> HIDE DEF f
<1>3. ASSUME NEW k \in Levels, \A i \in 0 .. k - 1 : f[i] \in Factors
      PROVE  f[k] \in Factors
  <2>1. f[k] = FactorAt(tech, f, k)
    BY <1>1
  <2>2. k \in Nat /\ k < SizeQ
    BY <1>2 DEF Levels
  <2>3. CASE k = 0
    <3>1. ModuliProduct(SizeQ - 1, d) \in Factors
      BY <1>2, ModuliProductIn DEF Levels
    <3> QED
      BY <2>1, <2>3, <3>1 DEF FactorAt
  <2>4. CASE k # 0 /\ tech = "FLEXIBLEAUTOEXT" /\ k = 1
    <3>1. moduliQ[SizeQ - 2] \in Factors
      BY <1>2, FactorsAssumption DEF Levels
    <3> QED
      BY <2>1, <2>4, <3>1 DEF FactorAt
  <2>5. CASE k # 0 /\ ~(tech = "FLEXIBLEAUTOEXT" /\ k = 1) /\ k % d # 0
    BY <2>1, <2>5, FactorLaws, FactorsAssumption DEF FactorAt
  <2>6. CASE k # 0 /\ ~(tech = "FLEXIBLEAUTOEXT" /\ k = 1) /\ k % d = 0
    <3>1. k - d \in 0 .. k - 1
      BY <1>2, <2>2, <2>6
    <3>2. f[k - d] \in Factors
      BY <1>3, <3>1
    <3>3. SizeQ - k + d - 1 \in Levels /\ d <= SizeQ - k + d - 1 + 1
      BY <1>2, <2>2, <3>1 DEF Levels
    <3>4. ModuliProduct(SizeQ - k + d - 1, d) \in Factors
      BY <1>2, <3>3, ModuliProductIn
    <3>5. Over(Times(f[k - d], f[k - d]), ModuliProduct(SizeQ - k + d - 1, d)) \in Factors
      BY <3>2, <3>4, FactorLaws
    <3> QED
      BY <2>1, <2>6, <3>5 DEF FactorAt
  <2> QED
    BY <2>3, <2>4, <2>5, <2>6
<1>4. 0 \in P
  <2>1. f[0] \in Factors
    BY <1>2, <1>3 DEF Levels
  <2> QED
    BY <2>1
<1>5. ASSUME NEW m \in Nat, m \in P
      PROVE  m + 1 \in P
  <2>1. ASSUME m + 1 \in Levels
        PROVE  f[m + 1] \in Factors
    <3>1. \A i \in 0 .. m + 1 - 1 : i \in Levels
      BY <1>2, <2>1 DEF Levels
    <3> QED
      BY <1>3, <1>5, <2>1, <3>1
  <2> QED
    BY <1>5, <2>1
<1>6. \A k \in Levels : f[k] \in Factors
  <2>1. \A m \in Nat : m \in P
    <3> HIDE DEF P
    <3> QED
      BY <1>4, <1>5, SetInduction
  <2> QED
    BY <2>1 DEF Levels
<1> QED
  BY <1>1, <1>6 DEF f

(* What the tables say of a level.                                          *)
LEMMA ElemFacts ==
  ASSUME Tables, NEW l \in Levels
  PROVE  LET r == GetScalingFactorReal(l) IN
         /\ r \in Factors
         /\ \A d \in Nat : Elem(l, d) \in Factors
         /\ ~(Ext /\ l = 0) => /\ Elem(l, 1) = r /\ Elem(l, 2) = Times(r, r)
                               /\ \A d \in Nat : Elem(l, d) = Power(r, d)
         /\ ~Flexible => r = TwoToP
         /\ Flexible => r = m_scalingFactorsReal[l]
         /\ Flexible /\ l < SizeQ - 1 =>
              GetScalingFactorRealBig(l) = Elem(l, 2) /\ GetScalingFactorRealBig(l) \in Factors
PROOF
<1> DEFINE r == GetScalingFactorReal(l)
<1>1. l \in 0 .. SizeQ - 1 /\ l < SizeQ /\ SizeQ \in Nat /\ SizeQ > 2
  BY SizesAssumption DEF Levels
<1>2. /\ Flexible => r = m_scalingFactorsReal[l]
      /\ ~Flexible => r = TwoToP
  BY <1>1 DEF GetScalingFactorReal, ApproxSF
<1>4. ~(Ext /\ l = 0) => \A d \in Nat : Elem(l, d) = Power(r, d)
  BY DEF Elem
<1> HIDE DEF r
<1>3. r \in Factors
  <2>1. TwoToP \in Factors /\ m_scalingFactorsReal[l] \in Factors
    BY FactorsAssumption DEF Tables
  <2> QED
    BY <1>2, <2>1
<1>5. ~(Ext /\ l = 0) => Elem(l, 1) = r /\ Elem(l, 2) = Times(r, r)
  BY <1>3, <1>4, PowerFacts
<1>6. Ext => Flexible
  BY DegreeFacts DEF Tables
<1>7. ASSUME Flexible, NEW i \in 0 .. SizeQ - 2
      PROVE  GetScalingFactorRealBig(i) = Elem(i, 2) /\ GetScalingFactorRealBig(i) \in Factors
  <2>1. i < SizeQ - 1
    BY <1>1
  <2>2. GetScalingFactorRealBig(i) = m_scalingFactorsRealBig[i]
    BY <1>7, <2>1 DEF GetScalingFactorRealBig
  <2>3. GetScalingFactorRealBig(i) \in Factors
    BY <2>2 DEF Tables
  <2> QED
    BY <1>7, <2>3 DEF Tables, BigIsDegreeTwo
<1>8. \A d \in Nat : Elem(l, d) \in Factors
  <2>1. CASE Ext /\ l = 0
    <3>1. 0 \in 0 .. SizeQ - 2
      BY <1>1
    <3>2. GetScalingFactorRealBig(0) \in Factors
      BY <1>6, <1>7, <2>1, <3>1
    <3> QED
      BY <2>1, <3>2 DEF Elem
  <2>2. CASE ~(Ext /\ l = 0)
    BY <1>3, <1>4, <2>2, PowerFacts
  <2> QED
    BY <2>1, <2>2
<1>9. Flexible /\ l < SizeQ - 1 =>
        GetScalingFactorRealBig(l) = Elem(l, 2) /\ GetScalingFactorRealBig(l) \in Factors
  BY <1>1, <1>7
<1> QED
  BY <1>2, <1>3, <1>4, <1>5, <1>8, <1>9 DEF r

LEMMA InitTables ==
  ASSUME Init
  PROVE  Tables
PROOF
<1> DEFINE f == m_scalingFactorsReal
           d == DegreeOf(scalTechnique)
<1>1. /\ scalTechnique \in Techniques
      /\ f = PrecomputeReal(scalTechnique)
      /\ m_scalingFactorsRealBig = PrecomputeRealBig(scalTechnique, f)
  BY DEF Init
<1>2. /\ f \in [Levels -> Factors]
      /\ f = [k \in Levels |-> FactorAt(scalTechnique, f, k)]
  BY <1>1, RealTable, RealTableIn
<1>3. Degree = d
  BY DEF Degree, DegreeOf, Composite
<1>4. /\ SizeQ \in Nat /\ SizeQ > 2 /\ Levels = 0 .. SizeQ - 1
      /\ d \in 1 .. 4 /\ d <= SizeQ
      /\ Ext => d = 1 /\ Flexible
      /\ ~Flexible => d = 1
  BY <1>1, <1>3, SizesAssumption, DegreeFacts DEF Levels
<1> HIDE DEF f, d
<1>5. \A k \in 0 .. SizeQ - 2 :
        m_scalingFactorsRealBig[k] = Times(f[k], f[IF Ext /\ k = 0 THEN 1 ELSE k])
  BY <1>1 DEF PrecomputeRealBig, Ext, f
<1>6. m_scalingFactorsRealBig \in [0 .. SizeQ - 2 -> Factors]
  <2>1. m_scalingFactorsRealBig = [k \in 0 .. SizeQ - 2 |-> m_scalingFactorsRealBig[k]]
    BY <1>1 DEF PrecomputeRealBig
  <2>2. \A k \in 0 .. SizeQ - 2 : k \in Levels /\ 1 \in Levels
    BY <1>4
  <2>3. \A k \in 0 .. SizeQ - 2 : m_scalingFactorsRealBig[k] \in Factors
    <3> TAKE k \in 0 .. SizeQ - 2
    <3>1. f[k] \in Factors /\ f[1] \in Factors
      BY <1>2, <2>2
    <3>2. f[IF Ext /\ k = 0 THEN 1 ELSE k] \in Factors
      BY <3>1
    <3> QED
      BY <1>5, <3>1, <3>2, FactorLaws
  <2> QED
    BY <2>1, <2>3
<1>7. ASSUME Flexible, NEW l \in 0 .. SizeQ - 2
      PROVE  GetScalingFactorRealBig(l) = Elem(l, 2)
  <2>1. /\ l < SizeQ - 1 /\ l < SizeQ /\ l \in Levels
    BY <1>4
  <2>2. GetScalingFactorRealBig(l) = m_scalingFactorsRealBig[l]
    BY <1>7, <2>1 DEF GetScalingFactorRealBig
  <2>3. CASE Ext /\ l = 0
    BY <2>3 DEF Elem
  <2>4. CASE ~(Ext /\ l = 0)
    <3>1. f[l] \in Factors /\ GetScalingFactorReal(l) = f[l]
      BY <1>2, <1>7, <2>1 DEF GetScalingFactorReal, f
    <3>2. m_scalingFactorsRealBig[l] = Times(f[l], f[l])
      BY <1>5, <2>4
    <3> QED
      BY <2>2, <2>4, <3>1, <3>2, PowerFacts DEF Elem
  <2> QED
    BY <2>3, <2>4
<1>8. ASSUME ~Manual, NEW l \in Levels, l % Degree = 0, l + Degree \in Levels
      PROVE  Over(Elem(l, 2), DroppedFactor(SizeQ - l, Degree)) = Elem(l + Degree, 1)
  <2>1. /\ SizeQ - l \in 1 .. SizeQ /\ d \in 0 .. SizeQ - l /\ d \in Nat
        /\ l + d # 0 /\ l < SizeQ - 1 /\ l < SizeQ /\ l + d < SizeQ /\ l + d \in Levels
        /\ l \in 0 .. SizeQ - 2 /\ l + d \in Nat
    BY <1>3, <1>4, <1>8
  <2>2. (l + d) % d = 0 /\ (l + d) - d = l
    <3>1. l \in Int /\ l % d = 0
      BY <1>3, <1>4, <1>8
    <3>2. (l + d) % d = 0
      BY <1>4, <3>1, MultipleShift
    <3> QED
      BY <1>4, <3>1, <3>2
  <2>3. CASE ~Flexible
    <3>1. d = 1
      BY <1>4, <2>3
    <3>2. /\ Elem(l, 2) = Power(TwoToP, 2) /\ Elem(l + d, 1) = Power(TwoToP, 1)
      BY <1>4, <2>3 DEF Elem, GetScalingFactorReal, ApproxSF
    <3>3. DroppedFactor(SizeQ - l, d) = Power(TwoToP, 1)
      BY <2>1, <2>3, <3>1, DroppedFacts
    <3>4. TwoToP \in Factors
      BY FactorsAssumption
    <3>5. Power(TwoToP, 1) = TwoToP /\ Power(TwoToP, 2) = Times(TwoToP, TwoToP)
      BY <3>4, PowerFacts
    <3>6. Over(Times(TwoToP, TwoToP), TwoToP) = TwoToP
      BY <3>4, FactorLaws
    <3> QED
      BY <1>3, <3>2, <3>3, <3>5, <3>6
  <2>4. CASE Flexible
    <3> DEFINE M == ModuliProduct(SizeQ - l - 1, d)
    <3>1. DroppedFactor(SizeQ - l, d) = M
      BY <2>1, <2>4, DroppedFacts
    <3>2. Elem(l, 2) = m_scalingFactorsRealBig[l]
      BY <1>7, <2>1, <2>4 DEF GetScalingFactorRealBig
    <3>3. f[l + d] \in Factors /\ f[l] \in Factors
      BY <1>2, <2>1
    <3>4. Elem(l + d, 1) = f[l + d]
      <4>1. Elem(l + d, 1) = Power(f[l + d], 1)
        BY <2>1, <2>4 DEF Elem, GetScalingFactorReal, f
      <4> QED
        BY <3>3, <4>1, PowerFacts
    <3>5. f[l + d] = FactorAt(scalTechnique, f, l + d)
      BY <1>2, <2>1
    <3>6. CASE Ext /\ l = 0
      <4>1. d = 1 /\ 1 \in Levels /\ SizeQ - 1 \in Levels
        BY <1>4, <3>6
      <4>2. /\ M = moduliQ[SizeQ - 1] /\ moduliQ[SizeQ - 1] \in Factors
        BY <3>6, <4>1, ModuliProductIn, FactorsAssumption, SizesAssumption
      <4>3. f[0] = moduliQ[SizeQ - 1]
        <5>1. f[0] = FactorAt(scalTechnique, f, 0)
          BY <1>2, <1>4
        <5>2. FactorAt(scalTechnique, f, 0) = ModuliProduct(SizeQ - 1, 1)
          BY <4>1 DEF FactorAt, d
        <5>3. ModuliProduct(SizeQ - 1, 1) = moduliQ[SizeQ - 1]
          <6>1. 1 \in Nat /\ 1 <= SizeQ - 1 + 1
            BY <1>4
          <6> QED
            BY <4>1, <6>1, ModuliProductIn
        <5> QED
          BY <5>1, <5>2, <5>3
      <4>4. Elem(l, 2) = Times(f[0], f[1])
        BY <1>5, <2>1, <3>2, <3>6
      <4>5. f[1] \in Factors /\ Times(f[0], f[1]) = Times(f[1], f[0])
        BY <1>2, <4>1, <4>2, <4>3, FactorLaws
      <4>6. Over(Times(f[1], f[0]), f[0]) = f[1]
        BY <4>2, <4>3, <4>5, FactorLaws
      <4> QED
        BY <1>3, <3>1, <3>4, <3>6, <4>1, <4>2, <4>3, <4>4, <4>5, <4>6
    <3>7. CASE Ext /\ l # 0
      <4>1. d = 1 /\ l + d # 1
        BY <1>4, <2>1, <3>7
      <4>2. Elem(l, 2) = Times(f[l], f[l])
        BY <1>5, <2>1, <3>2, <3>7
      <4>3. SizeQ - (l + d) + d - 1 = SizeQ - l - 1
        BY <1>4, <2>1
      <4>4. f[l + d] = Over(Times(f[l], f[l]), M)
        BY <2>1, <2>2, <3>5, <4>1, <4>3 DEF FactorAt, d
      <4> QED
        BY <1>3, <3>1, <3>4, <4>2, <4>4
    <3>8. CASE ~Ext
      <4>1. Elem(l, 2) = Times(f[l], f[l])
        BY <1>5, <2>1, <3>2, <3>8
      <4>2. SizeQ - (l + d) + d - 1 = SizeQ - l - 1
        BY <1>4, <2>1
      <4>3. f[l + d] = Over(Times(f[l], f[l]), M)
        BY <2>1, <2>2, <3>5, <3>8, <4>2 DEF FactorAt, d, Ext
      <4> QED
        BY <1>3, <3>1, <3>4, <4>1, <4>3
    <3> QED
      BY <3>6, <3>7, <3>8
  <2> QED
    BY <2>3, <2>4
<1> QED
  BY <1>1, <1>2, <1>6, <1>7, <1>8 DEF Tables, BigIsDegreeTwo, RescalingDescends, f

-----------------------------------------------------------------------------
(* The in-place operations.  A ciphertext in the middle of a call may have  *)
(* a degree that no operand has.                                            *)
Scales == Factors \cup {Zero}
Shape ==
  [level : Int, towers : 1 .. SizeQ, deg : Int, sf : Factors, scale : Scales, status : Status]

LEMMA ScaleLaws ==
  ASSUME NEW s \in Scales, NEW f \in Factors
  PROVE  Over(s, f) \in Scales /\ Times(s, f) \in Scales
BY FactorsAssumption DEF Scales

LEMMA GoodFacts ==
  ASSUME Tables, NEW c, Good(c)
  PROVE  /\ c \in CtType /\ c \in Shape /\ c.level \in Levels /\ c.level \in Nat
         /\ c.towers \in 1 .. SizeQ /\ c.towers = SizeQ - c.level
         /\ c.deg \in 0 .. MaxDeg /\ c.sf \in Factors /\ c.status \in Status /\ c.scale \in Scales
         /\ Flexible => c.scale = c.sf
         /\ Manual => c.deg >= 1 /\ c.scale = Power(TwoToP, c.deg)
         /\ ~Manual => /\ c.deg \in {1, 2} /\ c.level % Degree = 0 /\ c.level + Degree <= SizeQ
                       /\ c.sf = Elem(c.level, c.deg) /\ (Ext /\ c.level = 0 => c.deg = 2)
PROOF
<1>1. c \in CtType /\ c.sf \in Factors /\ c.towers + c.level = SizeQ
  BY DEF Good, Kept, Aligned
<1>2. /\ c.towers \in 1 .. SizeQ /\ c.deg \in 0 .. MaxDeg /\ c.status \in Status
      /\ c.level \in 0 .. SizeQ + CompositeDegree - 1 /\ c.scale \in Scales
      /\ c = [level |-> c.level, towers |-> c.towers, deg |-> c.deg,
              sf |-> c.sf, scale |-> c.scale, status |-> c.status]
  BY <1>1 DEF CtType, Scales
<1>3. SizeQ \in Nat /\ CompositeDegree \in 1 .. 4 /\ MaxDeg \in Nat
  BY SizesAssumption
<1>4. /\ c.level \in Levels /\ c.level \in Nat /\ c.towers = SizeQ - c.level
      /\ c.level < SizeQ /\ c.level \in Int /\ c.deg \in Int
  BY <1>1, <1>2, <1>3 DEF Levels
<1>5. c \in Shape
  BY <1>1, <1>2, <1>4 DEF Shape
<1>6. c.level % Degree = 0 => c.level + Degree <= SizeQ
  <2>1. Degree \in 1 .. 4 /\ SizeQ % Degree = 0
    BY DegreeFacts DEF Tables
  <2> DEFINE d == Degree
  <2> HIDE DEF d
  <2>2. ASSUME c.level % d = 0
        PROVE  c.level + d <= SizeQ
    <3>1. d \in 1 .. 4 /\ SizeQ % d = 0 /\ SizeQ \in Int
      BY <1>3, <2>1 DEF d
    <3> QED
      BY <1>4, <2>2, <3>1, MultipleGap
  <2> QED
    BY <2>2 DEF d
<1> QED
  BY <1>1, <1>2, <1>4, <1>5, <1>6 DEF Good, Kept, ManualGood, AutoGood

(* Rescaling.  What is left where the towers do not suffice has a type.     *)
LEMMA RescaleShape ==
  ASSUME Tables, NEW c \in Shape
  PROVE  LET r == Rescale(c)
             n == Lesser(Degree, c.towers - 1)
         IN  /\ r.ok = (Degree < c.towers)
             /\ n \in 0 .. c.towers - 1 /\ (Degree < c.towers => n = Degree)
             /\ r.c \in Shape /\ r.c.status = c.status
             /\ r.c.level = c.level + Degree /\ r.c.deg = c.deg - 1
             /\ r.c.towers = c.towers - n
             /\ r.c.sf = Over(c.sf, DroppedFactor(c.towers, n))
             /\ r.c.scale = Over(c.scale, DroppedFactor(c.towers, n))
PROOF
<1> DEFINE r == Rescale(c)
           n == Lesser(Degree, c.towers - 1)
           f == DroppedFactor(c.towers, n)
<1>1. /\ c.towers \in 1 .. SizeQ /\ c.level \in Int /\ c.deg \in Int /\ c.sf \in Factors
      /\ c.scale \in Scales /\ c.status \in Status
  BY DEF Shape
<1>2. SizeQ \in Nat /\ Degree \in 1 .. 4 /\ Degree \div Degree = 1
  BY SizesAssumption, DegreeFacts DEF Tables
<1>3. n \in 0 .. c.towers - 1 /\ (Degree < c.towers <=> n = Degree)
  BY <1>1, <1>2 DEF Lesser
<1> DEFINE d == [c EXCEPT !.deg = c.deg - 1, !.level = c.level + Degree,
                          !.towers = c.towers - n, !.scale = Over(c.scale, f),
                          !.sf = Over(c.sf, f)]
<1>4. r = [ok |-> n = Degree, c |-> d]
  BY <1>2 DEF Rescale, ModReduceInternalInPlace, Drops, Shape
<1> HIDE DEF n
<1>5. f \in Factors
  BY <1>1, <1>2, <1>3, DroppedFacts
<1> HIDE DEF f
<1>6. Over(c.sf, f) \in Factors /\ Over(c.scale, f) \in Scales
  BY <1>1, <1>5, FactorLaws, ScaleLaws
<1>7. c.towers - n \in 1 .. SizeQ /\ c.level + Degree \in Int /\ c.deg - 1 \in Int
  BY <1>1, <1>2, <1>3
<1>8. d \in Shape
  BY <1>6, <1>7 DEF Shape
<1>9. /\ d.status = c.status /\ d.level = c.level + Degree /\ d.deg = c.deg - 1
      /\ d.towers = c.towers - n /\ d.sf = Over(c.sf, f) /\ d.scale = Over(c.scale, f)
  BY DEF Shape
<1> HIDE DEF d, r
<1>10. r.ok = (n = Degree) /\ r.c = d
  BY <1>4
<1>11. (n = Degree) = (Degree < c.towers)
  BY <1>3
<1> QED
  BY <1>3, <1>8, <1>9, <1>10, <1>11 DEF r, n, f

LEMMA ReduceShape ==
  ASSUME NEW c \in Shape, NEW n \in Nat, n < c.towers
  PROVE  LET r == LevelReduceInternalInPlace(c, n) IN
         /\ r.ok /\ r.c \in Shape /\ r.c.status = c.status
         /\ r.c.level = c.level + n /\ r.c.towers = c.towers - n
         /\ r.c.deg = c.deg /\ r.c.sf = c.sf /\ r.c.scale = c.scale
PROOF
<1> DEFINE d == [c EXCEPT !.towers = c.towers - n, !.level = c.level + n]
<1>1. c.towers \in 1 .. SizeQ /\ c.level \in Int /\ SizeQ \in Nat
  BY SizesAssumption DEF Shape
<1>2. c.towers - n \in 1 .. SizeQ /\ c.level + n \in Int /\ ~(c.towers <= n)
  BY <1>1
<1>3. LevelReduceInternalInPlace(c, n) = [ok |-> TRUE, c |-> d]
  BY <1>2 DEF LevelReduceInternalInPlace, Returns, Shape
<1>4. d \in Shape
  BY <1>2 DEF Shape
<1>5. /\ d.status = c.status /\ d.level = c.level + n /\ d.towers = c.towers - n
      /\ d.deg = c.deg /\ d.sf = c.sf /\ d.scale = c.scale
  BY DEF Shape
<1> HIDE DEF d
<1> QED
  BY <1>3, <1>4, <1>5

LEMMA MultCoreShape ==
  ASSUME Tables, NEW c \in Shape, c.level \in Levels, NEW k \in Factors
  PROVE  LET d == EvalMultCoreInPlace(c, k)
             r == GetScalingFactorReal(c.level)
         IN  /\ d \in Shape /\ d.status = c.status
             /\ d.level = c.level /\ d.towers = c.towers /\ d.deg = c.deg + 1
             /\ d.sf = Times(c.sf, r) /\ d.scale = Times(c.scale, Times(k, r))
PROOF
<1> DEFINE r == GetScalingFactorReal(c.level)
           d == [c EXCEPT !.scale = Times(c.scale, Times(k, r)), !.deg = c.deg + 1,
                          !.sf = Times(c.sf, r)]
<1>1. EvalMultCoreInPlace(c, k) = d
  BY DEF EvalMultCoreInPlace, Shape
<1>2. r \in Factors
  BY ElemFacts
<1> HIDE DEF r
<1>3. c.sf \in Factors /\ c.scale \in Scales /\ c.deg \in Int
  BY DEF Shape
<1>4. /\ Times(c.sf, r) \in Factors /\ Times(c.scale, Times(k, r)) \in Scales
      /\ c.deg + 1 \in Int
  <2>1. Times(k, r) \in Factors /\ Times(c.sf, r) \in Factors
    BY <1>2, <1>3, FactorLaws
  <2>2. Times(c.scale, Times(k, r)) \in Scales
    BY <1>3, <2>1, ScaleLaws
  <2> QED
    BY <1>3, <2>1, <2>2
<1>5. d \in Shape
  BY <1>4 DEF Shape
<1>6. /\ d.status = c.status /\ d.level = c.level /\ d.towers = c.towers /\ d.deg = c.deg + 1
      /\ d.sf = Times(c.sf, r) /\ d.scale = Times(c.scale, Times(k, r))
  BY DEF Shape
<1> HIDE DEF d
<1> QED
  BY <1>1, <1>5, <1>6 DEF r

-----------------------------------------------------------------------------
(* Raising an operand to another, of a larger level.                        *)
LEMMA RetargetShape ==
  ASSUME Tables, ~Manual, NEW lo, Good(lo), NEW t \in Factors, NEW n \in 0 .. lo.towers
  PROVE  LET a == Retarget(lo, t, n) IN
         /\ a \in Shape /\ a.status = lo.status /\ a.level = lo.level /\ a.towers = lo.towers
         /\ a.deg = lo.deg + 1
         /\ Flexible => a.scale = Times(t, DroppedFactor(lo.towers, n))
PROOF
<1> DEFINE d == DroppedFactor(lo.towers, n)
           r == GetScalingFactorReal(lo.level)
           k == Over(Times(Over(t, lo.sf), d), r)
           a == Retarget(lo, t, n)
<1>1. /\ lo \in Shape /\ lo.level \in Levels /\ lo.sf \in Factors /\ lo.towers \in 1 .. SizeQ
      /\ Flexible => lo.scale = lo.sf
  BY GoodFacts
<1>2. d \in Factors
  BY <1>1, DroppedFacts
<1>3. r \in Factors
  BY <1>1, ElemFacts
<1>4. a = EvalMultCoreInPlace(lo, k)
  BY DEF Retarget
<1> HIDE DEF d, r, a
<1>5. k \in Factors /\ Times(lo.sf, Times(k, r)) = Times(t, d)
  BY <1>1, <1>2, <1>3, RetargetLaw
<1> HIDE DEF k
<1>6. /\ a \in Shape /\ a.status = lo.status /\ a.level = lo.level /\ a.towers = lo.towers
      /\ a.deg = lo.deg + 1 /\ a.scale = Times(lo.scale, Times(k, r))
  BY <1>1, <1>4, <1>5, MultCoreShape DEF r
<1> QED
  BY <1>1, <1>5, <1>6 DEF a, d

(* Rescaling after that gives the target: the factor of the dropped moduli  *)
(* cancels.                                                                 *)
LEMMA RescaledTarget ==
  ASSUME Tables, ~Manual, NEW lo, Good(lo), NEW t \in Factors, Degree < lo.towers
  PROVE  LET o == Rescale(Retarget(lo, t, Degree)) IN
         /\ o.ok /\ o.c \in Shape /\ o.c.status = lo.status
         /\ o.c.level = lo.level + Degree /\ o.c.towers = lo.towers - Degree
         /\ o.c.deg = lo.deg
         /\ Flexible => o.c.scale = t
PROOF
<1> DEFINE a == Retarget(lo, t, Degree)
           o == Rescale(a)
           d == DroppedFactor(lo.towers, Degree)
<1>1. /\ lo.towers \in 1 .. SizeQ /\ Degree \in 0 .. lo.towers /\ lo.deg \in Int
      /\ Degree \in 1 .. 4 /\ SizeQ \in Nat
  BY GoodFacts, DegreeFacts, SizesAssumption DEF Tables
<1>2. /\ a \in Shape /\ a.status = lo.status /\ a.level = lo.level /\ a.towers = lo.towers
      /\ a.deg = lo.deg + 1
      /\ Flexible => a.scale = Times(t, d)
  BY <1>1, RetargetShape
<1> HIDE DEF a
<1>3. /\ o.ok /\ o.c \in Shape /\ o.c.status = lo.status
      /\ o.c.level = lo.level + Degree /\ o.c.deg = a.deg - 1
      /\ o.c.towers = lo.towers - Degree /\ o.c.scale = Over(a.scale, d)
  BY <1>2, RescaleShape
<1>4. d \in Factors
  BY <1>1, DroppedFacts
<1>5. Over(Times(t, d), d) = t
  BY <1>4, FactorLaws
<1> HIDE DEF o, d
<1>6. o.c.deg = lo.deg /\ (Flexible => o.c.scale = t)
  BY <1>1, <1>2, <1>3, <1>5
<1> QED
  BY <1>3, <1>6 DEF o, a

(* The adjusted operand, when its factor is set to that of the other.       *)
LEMMA SetGood ==
  ASSUME Tables, ~Manual, NEW hi, Good(hi), NEW d \in Shape,
         d.level = hi.level, d.towers = hi.towers, d.deg = hi.deg,
         Flexible => d.scale = hi.sf
  PROVE  LET c == [d EXCEPT !.sf = hi.sf] IN
         Good(c) /\ c.level = hi.level /\ c.deg = hi.deg /\ c.status = d.status
PROOF
<1> DEFINE c == [d EXCEPT !.sf = hi.sf]
<1>1. /\ hi.level \in Levels /\ hi.towers \in 1 .. SizeQ /\ hi.deg \in 0 .. MaxDeg
      /\ hi.sf \in Factors /\ hi.towers = SizeQ - hi.level
  BY GoodFacts
<1>2. /\ c.level = hi.level /\ c.towers = hi.towers /\ c.deg = hi.deg /\ c.sf = hi.sf
      /\ c.scale = d.scale /\ c.status = d.status /\ d.scale \in Scales /\ d.status \in Status
      /\ c = [level |-> hi.level, towers |-> hi.towers, deg |-> hi.deg, sf |-> hi.sf,
              scale |-> d.scale, status |-> d.status]
  BY DEF Shape
<1> HIDE DEF c
<1>3. hi.level \in 0 .. SizeQ + CompositeDegree - 1
  BY <1>1, SizesAssumption DEF Levels
<1>4. c \in CtType
  BY <1>1, <1>2, <1>3 DEF CtType, Scales
<1>5. AutoGood(hi) /\ Aligned(hi)
  BY DEF Good
<1>6. AutoGood(c) /\ Aligned(c)
  BY <1>2, <1>5 DEF AutoGood, Aligned
<1> QED
  BY <1>1, <1>2, <1>4, <1>6 DEF Good, Kept, c

(* Two levels of operands.                                                  *)
LEMMA LevelGap ==
  ASSUME Tables, ~Manual, NEW lo, NEW hi, Good(lo), Good(hi), lo.level < hi.level
  PROVE  /\ lo.level \in Nat /\ hi.level \in Nat /\ Degree \in 1 .. 4
         /\ lo.level + Degree <= hi.level /\ Degree < lo.towers
         /\ lo.level + Degree # hi.level => lo.level + 2 * Degree <= hi.level
         /\ hi.level - Degree \in Levels /\ hi.level - Degree < SizeQ - 1
         /\ (hi.level - Degree) % Degree = 0 /\ hi.level < SizeQ
         /\ lo.towers = SizeQ - lo.level /\ hi.towers = SizeQ - hi.level
PROOF
<1> DEFINE d == Degree
<1>1. /\ lo.level \in Nat /\ hi.level \in Nat /\ d \in 1 .. 4 /\ SizeQ \in Nat
      /\ lo.level % d = 0 /\ hi.level % d = 0
      /\ lo.towers = SizeQ - lo.level /\ hi.towers = SizeQ - hi.level
      /\ hi.level + d <= SizeQ
  BY GoodFacts, DegreeFacts, SizesAssumption DEF Tables
<1> HIDE DEF d
<1>2. lo.level \in Int /\ hi.level \in Int
  BY <1>1
<1>3. lo.level + d <= hi.level
  BY <1>1, <1>2, MultipleGap
<1>4. (hi.level - d) % d = 0 /\ (lo.level + d) % d = 0
  BY <1>1, <1>2, MultipleShift
<1>5. ASSUME lo.level + d < hi.level
      PROVE  (lo.level + d) + d <= hi.level
  <2>1. lo.level + d \in Int
    BY <1>1
  <2> QED
    BY <1>1, <1>2, <1>4, <1>5, <2>1, MultipleGap
<1>6. /\ d \in 1 .. 4 /\ d < lo.towers /\ hi.level < SizeQ
      /\ lo.level + d # hi.level => lo.level + 2 * d <= hi.level
      /\ hi.level - d \in Levels /\ hi.level - d < SizeQ - 1
  BY <1>1, <1>3, <1>5 DEF Levels
<1> QED
  BY <1>1, <1>3, <1>4, <1>6 DEF d

(* The factor of degree two that a rescaling takes to the level of hi.      *)
LEMMA BigAbove ==
  ASSUME Tables, ~Manual, NEW lo, NEW hi, Good(lo), Good(hi), lo.level < hi.level, hi.deg = 1
  PROVE  LET l == hi.level - Degree
             big == GetScalingFactorRealBig(l)
         IN  /\ big \in Factors
             /\ DroppedFactor(SizeQ - l, Degree) \in Factors
             /\ Flexible => Over(big, DroppedFactor(SizeQ - l, Degree)) = hi.sf
PROOF
<1> DEFINE l == hi.level - Degree
<1>1. /\ l \in Levels /\ l < SizeQ - 1 /\ l % Degree = 0
      /\ Degree \in 1 .. 4 /\ hi.level \in Nat /\ hi.level < SizeQ
      /\ hi.level \in Levels
  BY LevelGap, GoodFacts
<1>2. l + Degree = hi.level /\ SizeQ - l \in 1 .. SizeQ /\ Degree \in 0 .. SizeQ - l
  BY <1>1, SizesAssumption DEF Levels
<1>3. hi.sf = Elem(hi.level, 1)
  BY GoodFacts
<1> HIDE DEF l
<1>4. Over(Elem(l, 2), DroppedFactor(SizeQ - l, Degree)) = hi.sf
  BY <1>1, <1>2, <1>3 DEF Tables, RescalingDescends
<1>5. DroppedFactor(SizeQ - l, Degree) \in Factors
  BY <1>2, DroppedFacts
<1>6. CASE Flexible
  <2>1. GetScalingFactorRealBig(l) = Elem(l, 2) /\ GetScalingFactorRealBig(l) \in Factors
    BY <1>1, <1>6, ElemFacts
  <2> QED
    BY <1>4, <1>5, <2>1 DEF l
<1>7. CASE ~Flexible
  <2>1. GetScalingFactorRealBig(l) = TwoToP
    BY <1>7 DEF GetScalingFactorRealBig, ApproxSF
  <2> QED
    BY <1>5, <1>7, <2>1, FactorsAssumption DEF l
<1> QED
  BY <1>6, <1>7

Raised(o, hi) == o.ok /\ Good(o.c) /\ o.c.level = hi.level /\ o.c.deg = hi.deg

LEMMA SetScalingFactorGood ==
  ASSUME Tables, ~Manual, NEW hi, Good(hi), NEW o, o.ok, o.c \in Shape,
         o.c.level = hi.level, o.c.towers = hi.towers, o.c.deg = hi.deg,
         Flexible => o.c.scale = hi.sf
  PROVE  Raised(SetScalingFactor(o, hi.sf), hi)
PROOF
<1> DEFINE c == [o.c EXCEPT !.sf = hi.sf]
<1>1. Good(c) /\ c.level = hi.level /\ c.deg = hi.deg
  BY SetGood
<1> HIDE DEF c
<1>2. SetScalingFactor(o, hi.sf) = [ok |-> TRUE, c |-> c]
  BY DEF SetScalingFactor, Returns, c
<1> QED
  BY <1>1, <1>2 DEF Raised

LEMMA RaiseDeepGood ==
  ASSUME Tables, ~Manual, NEW lo, NEW hi, Good(lo), Good(hi), lo.level < hi.level,
         lo.deg = 2, hi.deg = 2
  PROVE  Raised(RaiseDeep(lo, hi), hi)
PROOF
<1> DEFINE o == Rescale(Retarget(lo, hi.sf, Degree))
           n == hi.level - lo.level - Degree
           p == LevelReduceInternalInPlace(o.c, n)
<1>1. /\ lo.level \in Nat /\ hi.level \in Nat /\ Degree \in 1 .. 4 /\ SizeQ \in Nat
      /\ lo.level + Degree <= hi.level /\ Degree < lo.towers /\ hi.level < SizeQ
      /\ lo.towers = SizeQ - lo.level /\ hi.towers = SizeQ - hi.level
  BY LevelGap, SizesAssumption
<1>2. hi.sf \in Factors
  BY GoodFacts
<1>3. /\ o.ok /\ o.c \in Shape /\ o.c.level = lo.level + Degree
      /\ o.c.towers = lo.towers - Degree /\ o.c.deg = lo.deg
      /\ Flexible => o.c.scale = hi.sf
  BY <1>1, <1>2, RescaledTarget
<1>4. RaiseDeep(lo, hi) = SetScalingFactor(p, hi.sf)
  BY <1>3 DEF RaiseDeep, Then
<1> HIDE DEF o
<1>5. /\ n \in Nat /\ n < o.c.towers
      /\ o.c.level + n = hi.level /\ o.c.towers - n = hi.towers
  BY <1>1, <1>3
<1> HIDE DEF n
<1>6. /\ p.ok /\ p.c \in Shape /\ p.c.level = hi.level /\ p.c.towers = hi.towers
      /\ p.c.deg = hi.deg /\ (Flexible => p.c.scale = hi.sf)
  BY <1>3, <1>5, ReduceShape
<1> HIDE DEF p
<1> QED
  BY <1>4, <1>6, SetScalingFactorGood

LEMMA RaiseShallowGood ==
  ASSUME Tables, ~Manual, NEW lo, NEW hi, Good(lo), Good(hi), lo.level < hi.level,
         lo.deg = 1, hi.deg = 2
  PROVE  Raised(RaiseShallow(lo, hi), hi)
PROOF
<1> DEFINE a == Retarget(lo, hi.sf, 0)
           n == hi.level - lo.level
           p == LevelReduceInternalInPlace(a, n)
<1>1. /\ lo.level \in Nat /\ hi.level \in Nat /\ SizeQ \in Nat /\ hi.level < SizeQ
      /\ lo.towers = SizeQ - lo.level /\ hi.towers = SizeQ - hi.level
      /\ lo.towers \in 1 .. SizeQ
  BY LevelGap, GoodFacts, SizesAssumption
<1>2. hi.sf \in Factors /\ 0 \in 0 .. lo.towers
  BY <1>1, GoodFacts
<1>3. DroppedFactor(lo.towers, 0) = One /\ Times(hi.sf, One) = hi.sf
  BY <1>1, <1>2, DroppedFacts, FactorLaws
<1>4. /\ a \in Shape /\ a.level = lo.level /\ a.towers = lo.towers /\ a.deg = lo.deg + 1
      /\ Flexible => a.scale = hi.sf
  BY <1>2, <1>3, RetargetShape
<1>5. RaiseShallow(lo, hi) = SetScalingFactor(p, hi.sf)
  BY DEF RaiseShallow
<1> HIDE DEF a
<1>6. /\ n \in Nat /\ n < a.towers /\ a.level + n = hi.level /\ a.towers - n = hi.towers
      /\ a.deg = hi.deg
  BY <1>1, <1>4
<1> HIDE DEF n
<1>7. /\ p.ok /\ p.c \in Shape /\ p.c.level = hi.level /\ p.c.towers = hi.towers
      /\ p.c.deg = hi.deg /\ (Flexible => p.c.scale = hi.sf)
  BY <1>4, <1>6, ReduceShape
<1> HIDE DEF p
<1> QED
  BY <1>5, <1>7, SetScalingFactorGood

(* Down from degree two one level above that of hi.                         *)
LEMMA LastRescaling ==
  ASSUME Tables, ~Manual, NEW lo, NEW hi, Good(lo), Good(hi), lo.level < hi.level, hi.deg = 1,
         NEW p, p.ok, p.c \in Shape,
         p.c.level = hi.level - Degree, p.c.towers = hi.towers + Degree, p.c.deg = 2,
         Flexible => p.c.scale = GetScalingFactorRealBig(hi.level - Degree)
  PROVE  Raised(SetScalingFactor(Then(p, Rescale), hi.sf), hi)
PROOF
<1> DEFINE q == Rescale(p.c)
<1>1. /\ hi.level \in Nat /\ Degree \in 1 .. 4 /\ hi.towers \in 1 .. SizeQ /\ SizeQ \in Nat
      /\ hi.towers = SizeQ - hi.level
  BY LevelGap, GoodFacts, SizesAssumption
<1>2. Degree < p.c.towers /\ p.c.towers = SizeQ - (hi.level - Degree)
  BY <1>1
<1>3. /\ q.ok /\ q.c \in Shape /\ q.c.level = p.c.level + Degree
      /\ q.c.towers = p.c.towers - Degree /\ q.c.deg = p.c.deg - 1
      /\ q.c.scale = Over(p.c.scale, DroppedFactor(p.c.towers, Degree))
  BY <1>2, RescaleShape
<1> HIDE DEF q
<1>4. Flexible => q.c.scale = hi.sf
  BY <1>2, <1>3, BigAbove
<1>5. q.c.level = hi.level /\ q.c.towers = hi.towers /\ q.c.deg = hi.deg
  BY <1>1, <1>3
<1>6. SetScalingFactor(Then(p, Rescale), hi.sf) = SetScalingFactor(q, hi.sf)
  BY DEF Then, q
<1> QED
  BY <1>3, <1>4, <1>5, <1>6, SetScalingFactorGood

LEMMA RaiseOnceGood ==
  ASSUME Tables, ~Manual, NEW lo, NEW hi, Good(lo), Good(hi), lo.level < hi.level,
         lo.deg = 1, hi.deg = 1
  PROVE  Raised(RaiseOnce(lo, hi), hi)
PROOF
<1> DEFINE big == GetScalingFactorRealBig(hi.level - Degree)
           a == Retarget(lo, big, 0)
           n == hi.level - lo.level - Degree
           p == LevelReduceInternalInPlace(a, n)
<1>1. /\ lo.level \in Nat /\ hi.level \in Nat /\ SizeQ \in Nat /\ hi.level < SizeQ
      /\ Degree \in 1 .. 4 /\ lo.level + Degree <= hi.level
      /\ lo.towers = SizeQ - lo.level /\ hi.towers = SizeQ - hi.level
      /\ lo.towers \in 1 .. SizeQ
  BY LevelGap, GoodFacts, SizesAssumption
<1>2. big \in Factors /\ 0 \in 0 .. lo.towers
  BY <1>1, BigAbove
<1>3. RaiseOnce(lo, hi) = SetScalingFactor(Then(p, Rescale), hi.sf)
  BY DEF RaiseOnce
<1> HIDE DEF big
<1>4. DroppedFactor(lo.towers, 0) = One /\ Times(big, One) = big
  BY <1>1, <1>2, DroppedFacts, FactorLaws
<1>5. /\ a \in Shape /\ a.level = lo.level /\ a.towers = lo.towers /\ a.deg = lo.deg + 1
      /\ Flexible => a.scale = big
  BY <1>2, <1>4, RetargetShape
<1> HIDE DEF a
<1>6. /\ n \in Nat /\ n < a.towers /\ a.level + n = hi.level - Degree
      /\ a.towers - n = hi.towers + Degree /\ a.deg = 2
  BY <1>1, <1>5
<1> HIDE DEF n
<1>7. /\ p.ok /\ p.c \in Shape /\ p.c.level = hi.level - Degree
      /\ p.c.towers = hi.towers + Degree /\ p.c.deg = 2 /\ (Flexible => p.c.scale = big)
  BY <1>5, <1>6, ReduceShape
<1> HIDE DEF p
<1> QED
  BY <1>3, <1>7, LastRescaling DEF big

LEMMA RaiseTwiceGood ==
  ASSUME Tables, ~Manual, NEW lo, NEW hi, Good(lo), Good(hi), lo.level < hi.level,
         lo.deg = 2, hi.deg = 1, lo.level + Degree # hi.level
  PROVE  Raised(RaiseTwice(lo, hi), hi)
PROOF
<1> DEFINE big == GetScalingFactorRealBig(hi.level - Degree)
           o == Rescale(Retarget(lo, big, Degree))
           n == hi.level - lo.level - 2 * Degree
           p == LevelReduceInternalInPlace(o.c, n)
<1>1. /\ lo.level \in Nat /\ hi.level \in Nat /\ SizeQ \in Nat /\ hi.level < SizeQ
      /\ Degree \in 1 .. 4 /\ lo.level + 2 * Degree <= hi.level /\ Degree < lo.towers
      /\ lo.towers = SizeQ - lo.level /\ hi.towers = SizeQ - hi.level
  BY LevelGap, SizesAssumption
<1>2. big \in Factors
  BY BigAbove
<1>3. /\ o.ok /\ o.c \in Shape /\ o.c.level = lo.level + Degree
      /\ o.c.towers = lo.towers - Degree /\ o.c.deg = lo.deg
      /\ Flexible => o.c.scale = big
  BY <1>1, <1>2, RescaledTarget
<1>4. RaiseTwice(lo, hi) = SetScalingFactor(Then(p, Rescale), hi.sf)
  BY <1>3 DEF RaiseTwice, Then
<1> HIDE DEF o, big
<1>5. /\ n \in Nat /\ n < o.c.towers /\ o.c.level + n = hi.level - Degree
      /\ o.c.towers - n = hi.towers + Degree
  BY <1>1, <1>3
<1> HIDE DEF n
<1>6. /\ p.ok /\ p.c \in Shape /\ p.c.level = hi.level - Degree
      /\ p.c.towers = hi.towers + Degree /\ p.c.deg = 2 /\ (Flexible => p.c.scale = big)
  BY <1>3, <1>5, ReduceShape
<1> HIDE DEF p
<1> QED
  BY <1>4, <1>6, LastRescaling DEF big

LEMMA GoodKept ==
  ASSUME NEW c, Good(c)
  PROVE  Kept(c)
BY DEF Good

LEMMA RescaleKept ==
  ASSUME Tables, NEW c, Good(c)
  PROVE  Kept(Rescale(c).c)
PROOF
<1> DEFINE d == Rescale(c).c
           n == Lesser(Degree, c.towers - 1)
<1>1. /\ c \in Shape /\ c.deg \in 0 .. MaxDeg /\ c.deg >= 1 /\ c.level \in Levels
      /\ c.towers \in 1 .. SizeQ /\ (Flexible => c.scale = c.sf)
  BY GoodFacts
<1>2. /\ d \in Shape /\ d.level = c.level + Degree /\ d.deg = c.deg - 1
      /\ d.sf = Over(c.sf, DroppedFactor(c.towers, n))
      /\ d.scale = Over(c.scale, DroppedFactor(c.towers, n))
  BY <1>1, RescaleShape
<1> HIDE DEF d, n
<1>3. Degree \in 1 .. 4 /\ Degree <= CompositeDegree
  BY DegreeFacts DEF Tables
<1>4. d.level \in 0 .. SizeQ + CompositeDegree - 1 /\ d.deg \in 0 .. MaxDeg
  BY <1>1, <1>2, <1>3, SizesAssumption DEF Levels
<1>5. /\ d = [level |-> d.level, towers |-> d.towers, deg |-> d.deg, sf |-> d.sf,
              scale |-> d.scale, status |-> d.status]
      /\ d.towers \in 1 .. SizeQ /\ d.sf \in Factors /\ d.scale \in Scales
      /\ d.status \in Status
  BY <1>2 DEF Shape
<1>6. d \in CtType
  BY <1>4, <1>5 DEF CtType, Scales
<1> QED
  BY <1>1, <1>2, <1>5, <1>6 DEF Kept, d

LEMMA RescaleGood ==
  ASSUME Tables, NEW c, Good(c), c.deg > 1, Rescale(c).ok
  PROVE  LET d == Rescale(c).c IN
         Good(d) /\ d.level = c.level + Degree /\ d.deg = c.deg - 1 /\ d.status = c.status
PROOF
<1> DEFINE d == Rescale(c).c
           f == DroppedFactor(c.towers, Degree)
<1>1. /\ c \in Shape /\ c.deg \in 0 .. MaxDeg /\ c.level \in Levels
      /\ c.towers \in 1 .. SizeQ /\ c.towers = SizeQ - c.level
      /\ c.level \in Nat /\ SizeQ \in Nat /\ MaxDeg \in Nat
      /\ Manual => c.scale = Power(TwoToP, c.deg)
      /\ ~Manual => c.deg = 2 /\ c.level % Degree = 0 /\ c.sf = Elem(c.level, c.deg)
  BY GoodFacts, SizesAssumption
<1>2. /\ Degree < c.towers
      /\ d.level = c.level + Degree /\ d.deg = c.deg - 1 /\ d.status = c.status
      /\ d.towers = c.towers - Degree /\ d.sf = Over(c.sf, f) /\ d.scale = Over(c.scale, f)
  BY <1>1, RescaleShape
<1>3. Kept(d)
  BY RescaleKept
<1> HIDE DEF d
<1>4. /\ Degree \in 1 .. 4 /\ (Manual => ~Flexible /\ Degree = 1)
      /\ Ext => Degree = 1
  BY DegreeFacts DEF Tables
<1>5. Aligned(d) /\ c.level + Degree \in Levels /\ d.level # 0
  BY <1>1, <1>2, <1>4 DEF Aligned, Levels
<1>6. ASSUME Manual
      PROVE  ManualGood(d)
  <2> DEFINE m == c.deg - 1
  <2>1. m \in Nat /\ m >= 1 /\ c.deg = m + 1 /\ TwoToP \in Factors
    <3>1. TwoToP \in Factors
      BY FactorsAssumption
    <3> QED
      BY <1>1, <3>1
  <2>2. f = TwoToP
    <3>1. f = Power(TwoToP, 1)
      BY <1>1, <1>2, <1>4, <1>6, DroppedFacts
    <3> QED
      BY <2>1, <3>1, PowerFacts
  <2> HIDE DEF m, f
  <2>3. /\ c.scale = Times(Power(TwoToP, m), TwoToP) /\ Power(TwoToP, m) \in Factors
    BY <1>1, <1>6, <2>1, PowerFacts
  <2>4. d.scale = Power(TwoToP, m)
    BY <1>2, <2>1, <2>2, <2>3, FactorLaws
  <2> QED
    BY <1>2, <2>1, <2>4 DEF ManualGood, m
<1>7. ASSUME ~Manual
      PROVE  AutoGood(d)
  <2>1. d.sf = Elem(c.level + Degree, 1)
    BY <1>1, <1>2, <1>5, <1>7 DEF Tables, RescalingDescends
  <2>2. d.level % Degree = 0
    BY <1>1, <1>2, <1>4, <1>7, MultipleShift
  <2>3. d.deg = 1
    BY <1>1, <1>2, <1>7
  <2> QED
    BY <1>2, <1>5, <2>1, <2>2, <2>3 DEF AutoGood
<1> QED
  BY <1>2, <1>3, <1>5, <1>6, <1>7 DEF Good, d

LEMMA RaiseGood ==
  ASSUME Tables, ~Manual, NEW lo, NEW hi, Good(lo), Good(hi), lo.level < hi.level
  PROVE  Raised(Raise(lo, hi), hi)
PROOF
<1>1. lo.deg \in {1, 2} /\ hi.deg \in {1, 2}
  BY GoodFacts
<1>2. CASE lo.deg = 2 /\ hi.deg = 2
  BY <1>2, RaiseDeepGood DEF Raise
<1>3. CASE lo.deg = 2 /\ hi.deg = 1 /\ lo.level + Degree = hi.level
  <2>1. Raise(lo, hi) = Rescale(lo)
    BY <1>3 DEF Raise
  <2>2. Degree < lo.towers /\ lo \in Shape
    BY LevelGap, GoodFacts
  <2>3. Rescale(lo).ok
    BY <2>2, RescaleShape
  <2>4. Good(Rescale(lo).c) /\ Rescale(lo).c.level = hi.level /\ Rescale(lo).c.deg = 1
    BY <1>3, <2>3, RescaleGood
  <2> QED
    BY <1>3, <2>1, <2>3, <2>4 DEF Raised
<1>4. CASE lo.deg = 2 /\ hi.deg = 1 /\ lo.level + Degree # hi.level
  BY <1>4, RaiseTwiceGood DEF Raise
<1>5. CASE lo.deg = 1 /\ hi.deg = 2
  BY <1>5, RaiseShallowGood DEF Raise
<1>6. CASE lo.deg = 1 /\ hi.deg = 1
  BY <1>6, RaiseOnceGood DEF Raise
<1> QED
  BY <1>1, <1>2, <1>3, <1>4, <1>5, <1>6

-----------------------------------------------------------------------------
(* Multiplying by a constant one in place: deepening, scalar products.      *)
LEMMA DeeperGood ==
  ASSUME Tables, NEW c, Good(c), c.deg < MaxDeg, ~Manual => c.deg = 1
  PROVE  LET d == EvalMultCoreInPlace(c, One) IN
         Good(d) /\ d.level = c.level /\ d.deg = c.deg + 1 /\ d.status = c.status
PROOF
<1> DEFINE d == EvalMultCoreInPlace(c, One)
           r == GetScalingFactorReal(c.level)
<1>1. /\ c \in Shape /\ c.deg \in 0 .. MaxDeg /\ c.level \in Levels /\ c.deg \in Nat
      /\ c.towers \in 1 .. SizeQ /\ c.sf \in Factors /\ MaxDeg \in Nat
      /\ Flexible => c.scale = c.sf
      /\ Manual => c.scale = Power(TwoToP, c.deg)
      /\ ~Manual => c.sf = Elem(c.level, 1) /\ ~(Ext /\ c.level = 0) /\ c.level % Degree = 0
  BY GoodFacts, SizesAssumption
<1>2. /\ r \in Factors
      /\ ~Flexible => r = TwoToP
      /\ ~(Ext /\ c.level = 0) => Elem(c.level, 1) = r /\ Elem(c.level, 2) = Times(r, r)
  BY <1>1, ElemFacts
<1>3. Times(One, r) = r /\ One \in Factors
  BY <1>2, FactorLaws
<1>4. /\ d \in Shape /\ d.status = c.status
      /\ d.level = c.level /\ d.towers = c.towers /\ d.deg = c.deg + 1
      /\ d.sf = Times(c.sf, r) /\ d.scale = Times(c.scale, r)
  BY <1>1, <1>3, MultCoreShape
<1> HIDE DEF d, r
<1>5. /\ d.level \in 0 .. SizeQ + CompositeDegree - 1 /\ d.deg \in 0 .. MaxDeg /\ d.deg >= 1
  BY <1>1, <1>4, SizesAssumption DEF Levels
<1>6. /\ d = [level |-> d.level, towers |-> d.towers, deg |-> d.deg, sf |-> d.sf,
              scale |-> d.scale, status |-> d.status]
      /\ d.towers \in 1 .. SizeQ /\ d.sf \in Factors /\ d.scale \in Scales
      /\ d.status \in Status
  BY <1>4 DEF Shape
<1>7. d \in CtType
  BY <1>5, <1>6 DEF CtType, Scales
<1>8. Kept(d) /\ Aligned(d)
  BY <1>1, <1>4, <1>6, <1>7 DEF Kept, Aligned, Good
<1>9. ASSUME Manual
      PROVE  ManualGood(d)
  <2>1. r = TwoToP
    BY <1>2, <1>9, DegreeFacts DEF Tables
  <2>2. d.scale = Power(TwoToP, c.deg + 1)
    BY <1>1, <1>2, <1>4, <1>9, <2>1, PowerFacts
  <2> QED
    BY <1>4, <1>5, <2>2 DEF ManualGood
<1>10. ASSUME ~Manual
       PROVE  AutoGood(d)
  BY <1>1, <1>2, <1>4, <1>10 DEF AutoGood
<1> QED
  BY <1>4, <1>8, <1>9, <1>10 DEF Good, d

(* Two operands at one level and degree; a call's two operands.             *)
Joint(a) == /\ Good(a.c1) /\ Good(a.c2)
            /\ a.c1.level = a.c2.level /\ a.c1.deg = a.c2.deg
KeptBoth(a) == Kept(a.c1) /\ Kept(a.c2)

LEMMA DeepenGood ==
  ASSUME Tables, ~Manual, NEW c, NEW d, Good(c), Good(d)
  PROVE  /\ Good(Deepen(c, d)) /\ Deepen(c, d).level = c.level
         /\ c.deg < d.deg => Deepen(c, d).deg = d.deg
         /\ ~(c.deg < d.deg) => Deepen(c, d) = c
PROOF
<1>1. c.deg \in {1, 2} /\ d.deg \in {1, 2} /\ MaxDeg \in Nat /\ MaxDeg >= 2
  BY GoodFacts, SizesAssumption
<1>2. CASE c.deg < d.deg
  <2>1. c.deg = 1 /\ d.deg = 2 /\ c.deg < MaxDeg /\ c.deg + 1 = 2
    BY <1>1, <1>2
  <2>2. Deepen(c, d) = EvalMultCoreInPlace(c, One)
    BY <1>2 DEF Deepen
  <2> QED
    BY <2>1, <2>2, DeeperGood
<1>3. CASE ~(c.deg < d.deg)
  BY <1>3 DEF Deepen
<1> QED
  BY <1>2, <1>3

LEMMA AdjustGood ==
  ASSUME Tables, ~Manual, NEW c1, NEW c2, Good(c1), Good(c2)
  PROVE  LET a == AdjustLevelsAndDepthInPlace(c1, c2) IN a.ok /\ Joint(a)
PROOF
<1> DEFINE a == AdjustLevelsAndDepthInPlace(c1, c2)
<1>1. /\ c1.level \in Nat /\ c2.level \in Nat /\ c1.deg \in {1, 2} /\ c2.deg \in {1, 2}
  BY GoodFacts
<1>2. CASE c1.level < c2.level
  <2> DEFINE o == Raise(c1, c2)
  <2>1. Raised(o, c2)
    BY <1>2, RaiseGood
  <2>2. a = Pair(o.ok, o.c, c2)
    BY <1>2 DEF AdjustLevelsAndDepthInPlace, First
  <2> HIDE DEF o
  <2> QED
    BY <2>1, <2>2 DEF Raised, Joint, Pair
<1>3. CASE c1.level > c2.level
  <2> DEFINE o == Raise(c2, c1)
  <2>1. Raised(o, c1)
    BY <1>1, <1>3, RaiseGood
  <2>2. a = Pair(o.ok, c1, o.c)
    BY <1>1, <1>3 DEF AdjustLevelsAndDepthInPlace, Second
  <2> HIDE DEF o
  <2> QED
    BY <2>1, <2>2 DEF Raised, Joint, Pair
<1>4. CASE c1.level = c2.level
  <2> DEFINE d1 == Deepen(c1, c2)
             d2 == Deepen(c2, c1)
  <2>1. a = Pair(TRUE, d1, d2)
    <3>1. ~(c1.level < c2.level) /\ ~(c1.level > c2.level)
      BY <1>1, <1>4
    <3> QED
      BY <3>1 DEF AdjustLevelsAndDepthInPlace
  <2>2. /\ Good(d1) /\ d1.level = c1.level
        /\ c1.deg < c2.deg => d1.deg = c2.deg
        /\ ~(c1.deg < c2.deg) => d1 = c1
    BY DeepenGood
  <2>3. /\ Good(d2) /\ d2.level = c2.level
        /\ c2.deg < c1.deg => d2.deg = c1.deg
        /\ ~(c2.deg < c1.deg) => d2 = c2
    BY DeepenGood
  <2> HIDE DEF d1, d2
  <2>4. d1.deg = d2.deg
    BY <1>1, <2>2, <2>3
  <2> QED
    BY <1>4, <2>1, <2>2, <2>3, <2>4 DEF Joint, Pair
<1> QED
  BY <1>1, <1>2, <1>3, <1>4

(* Rescaling both to degree one.                                            *)
LEMMA BothToOneGood ==
  ASSUME Tables, ~Manual, NEW a, a.ok, Joint(a), NEW deepest, deepest.deg = a.c1.deg
  PROVE  LET b == BothToOne(a, deepest) IN
         KeptBoth(b) /\ (b.ok => Joint(b) /\ b.c1.deg = 1)
PROOF
<1> DEFINE b == BothToOne(a, deepest)
           o1 == Rescale(a.c1)
           o2 == Rescale(a.c2)
<1>1. a.c1.deg \in {1, 2} /\ a.c2.deg = a.c1.deg /\ Good(a.c1) /\ Good(a.c2)
  BY GoodFacts DEF Joint
<1>2. Kept(a.c1) /\ Kept(a.c2)
  BY <1>1, GoodKept
<1>3. CASE a.c1.deg = 1
  BY <1>2, <1>3 DEF BothToOne, KeptBoth
<1>4. CASE a.c1.deg = 2
  <2>1. Kept(o1.c) /\ Kept(o2.c)
    BY <1>1, RescaleKept
  <2>2. /\ o1.ok => Good(o1.c) /\ o1.c.level = a.c1.level + Degree /\ o1.c.deg = 2 - 1
        /\ o2.ok => Good(o2.c) /\ o2.c.level = a.c2.level + Degree /\ o2.c.deg = 2 - 1
    BY <1>1, <1>4, RescaleGood
  <2>3. b = IF o1.ok THEN Pair(o2.ok, o1.c, o2.c) ELSE Pair(o1.ok, o1.c, a.c2)
    BY <1>4 DEF BothToOne, RescaleBoth, RescaleSecond, First, Second
  <2> HIDE DEF o1, o2, b
  <2>4. CASE o1.ok
    BY <2>1, <2>2, <2>3, <2>4 DEF KeptBoth, Joint, Pair, b
  <2>5. CASE ~o1.ok
    BY <1>2, <2>1, <2>3, <2>5 DEF KeptBoth, Pair, b
  <2> QED
    BY <2>4, <2>5
<1> QED
  BY <1>1, <1>3, <1>4

-----------------------------------------------------------------------------
(* FIXEDMANUAL aligns the towers.                                           *)
LEMMA LevelReduceGood ==
  ASSUME Tables, Manual, NEW c, Good(c), NEW n \in Nat, n < c.towers
  PROVE  LET o == LevelReduceInternalInPlace(c, n) IN
         o.ok /\ Good(o.c) /\ o.c.deg = c.deg /\ o.c.towers = c.towers - n
PROOF
<1> DEFINE d == LevelReduceInternalInPlace(c, n).c
<1>1. /\ c \in Shape /\ c.towers \in 1 .. SizeQ /\ c.towers = SizeQ - c.level
      /\ c.deg \in 0 .. MaxDeg /\ c.level \in Levels
      /\ c.deg >= 1 /\ c.scale = Power(TwoToP, c.deg)
  BY GoodFacts
<1>2. /\ LevelReduceInternalInPlace(c, n).ok
      /\ d \in Shape /\ d.level = c.level + n /\ d.towers = c.towers - n
      /\ d.deg = c.deg /\ d.scale = c.scale
  BY <1>1, ReduceShape
<1> HIDE DEF d
<1>3. /\ d.level \in 0 .. SizeQ + CompositeDegree - 1 /\ d.towers + d.level = SizeQ
      /\ d.deg \in 0 .. MaxDeg
  BY <1>1, <1>2, SizesAssumption DEF Levels
<1>4. /\ d = [level |-> d.level, towers |-> d.towers, deg |-> d.deg, sf |-> d.sf,
              scale |-> d.scale, status |-> d.status]
      /\ d.towers \in 1 .. SizeQ /\ d.sf \in Factors /\ d.scale \in Scales
      /\ d.status \in Status
  BY <1>2 DEF Shape
<1>5. d \in CtType
  BY <1>3, <1>4 DEF CtType, Scales
<1>6. ~Flexible
  BY DegreeFacts DEF Tables
<1> QED
  BY <1>1, <1>2, <1>3, <1>4, <1>5, <1>6 DEF Good, Kept, Aligned, ManualGood, d

LEMMA AdjustLevelsGood ==
  ASSUME Tables, Manual, NEW c1, NEW c2, Good(c1), Good(c2)
  PROVE  LET a == AdjustLevelsInPlace(c1, c2) IN
         /\ a.ok /\ Good(a.c1) /\ Good(a.c2) /\ a.c1.towers = a.c2.towers
         /\ a.c1.deg = c1.deg /\ a.c2.deg = c2.deg
PROOF
<1> DEFINE a == AdjustLevelsInPlace(c1, c2)
<1>1. c1.towers \in 1 .. SizeQ /\ c2.towers \in 1 .. SizeQ /\ SizeQ \in Nat
  BY GoodFacts, SizesAssumption
<1>2. CASE c1.towers < c2.towers
  <2> DEFINE n == c2.towers - c1.towers
             o == LevelReduceInternalInPlace(c2, n)
  <2>1. n \in Nat /\ n < c2.towers /\ c2.towers - n = c1.towers
    BY <1>1, <1>2
  <2>2. a = Pair(o.ok, c1, o.c)
    BY <1>2 DEF AdjustLevelsInPlace, Second
  <2> HIDE DEF n
  <2>3. o.ok /\ Good(o.c) /\ o.c.deg = c2.deg /\ o.c.towers = c1.towers
    BY <2>1, LevelReduceGood
  <2> HIDE DEF o
  <2> QED
    BY <2>2, <2>3 DEF Pair
<1>3. CASE c1.towers > c2.towers
  <2> DEFINE n == c1.towers - c2.towers
             o == LevelReduceInternalInPlace(c1, n)
  <2>1. n \in Nat /\ n < c1.towers /\ c1.towers - n = c2.towers /\ ~(c1.towers < c2.towers)
    BY <1>1, <1>3
  <2>2. a = Pair(o.ok, o.c, c2)
    BY <1>3, <2>1 DEF AdjustLevelsInPlace, First
  <2> HIDE DEF n
  <2>3. o.ok /\ Good(o.c) /\ o.c.deg = c1.deg /\ o.c.towers = c2.towers
    BY <2>1, LevelReduceGood
  <2> HIDE DEF o
  <2> QED
    BY <2>2, <2>3 DEF Pair
<1>4. CASE c1.towers = c2.towers
  <2>1. ~(c1.towers < c2.towers) /\ ~(c1.towers > c2.towers)
    BY <1>1, <1>4
  <2>2. a = Pair(TRUE, c1, c2)
    BY <2>1 DEF AdjustLevelsInPlace
  <2> QED
    BY <1>4, <2>2 DEF Pair
<1> QED
  BY <1>1, <1>2, <1>3, <1>4

(* Ciphertexts that differ from a good one in scale and degree only.        *)
LEMMA ManualFields ==
  ASSUME Tables, Manual, NEW c, Good(c), NEW d \in CtType, d.sf \in Factors,
         d.level = c.level, d.towers = c.towers, d.deg >= 1, d.scale = Power(TwoToP, d.deg)
  PROVE  Good(d)
PROOF
<1>1. ~Flexible
  BY DegreeFacts DEF Tables
<1> QED
  BY <1>1 DEF Good, Kept, Aligned, ManualGood

-----------------------------------------------------------------------------
(* The public calls.  Safe: what the operands keep whether or not the call  *)
(* throws, and what it returns.                                             *)
Safe(o) == Kept(o.c) /\ (o.ok => Good(o.c))
SafeCall(r) == /\ Kept(r.c1) /\ Kept(r.c2)
               /\ r.ok => Good(r.c1) /\ Good(r.c2) /\ Good(r.res)

LEMMA SumGood ==
  ASSUME Tables, NEW c1, NEW c2, Good(c1), Good(c2), c1.deg = c2.deg,
         ~Manual => c1.level = c2.level
  PROVE  LET d == EvalAddCore(c1, c2) IN Good(d) /\ d.deg = c1.deg
PROOF
<1> DEFINE s == Sum(c1.scale, c2.scale)
           d == [c1 EXCEPT !.scale = s]
<1>1. /\ c1 \in CtType /\ c1.scale \in Scales
      /\ Flexible => c1.scale = c1.sf /\ c2.scale = c2.sf
      /\ Manual => c1.scale = Power(TwoToP, c1.deg) /\ c2.scale = Power(TwoToP, c2.deg)
      /\ ~Manual => c1.sf = Elem(c1.level, c1.deg) /\ c2.sf = Elem(c2.level, c2.deg)
  BY GoodFacts
<1>2. s \in Scales
  BY <1>1 DEF Sum, Scales
<1>3. Flexible => ~Manual
  BY DegreeFacts DEF Tables
<1>4. Manual \/ Flexible => c1.scale = c2.scale
  BY <1>1, <1>3
<1>5. Manual \/ Flexible => s = c1.scale
  BY <1>4 DEF Sum
<1>6. EvalAddCore(c1, c2) = d
  BY DEF EvalAddCore
<1> HIDE DEF s
<1>7. /\ d \in CtType /\ d.level = c1.level /\ d.towers = c1.towers /\ d.deg = c1.deg
      /\ d.sf = c1.sf /\ d.scale = s
  BY <1>1, <1>2 DEF CtType, Scales
<1> HIDE DEF d
<1>8. Good(d)
  BY <1>5, <1>7 DEF Good, Kept, Aligned, ManualGood, AutoGood
<1> QED
  BY <1>6, <1>7, <1>8

LEMMA ApplyFields ==
  ASSUME NEW a, NEW res
  PROVE  LET r == Apply(a, res) IN
         /\ r.ok = (a.ok /\ a.c1.towers = a.c2.towers)
         /\ r.c1 = a.c1 /\ r.c2 = a.c2 /\ r.res = res
BY DEF Apply

LEMMA AddOrSubGood ==
  ASSUME Tables, NEW c1, NEW c2, Good(c1), Good(c2), Manual => c1.deg = c2.deg
  PROVE  LET r == AddOrSub(c1, c2) IN
         SafeCall(r) /\ (Manual => r.res.deg = c1.deg)
PROOF
<1> DEFINE a == AdjustForAddOrSubInPlace(c1, c2)
           r == AddOrSub(c1, c2)
<1>1. /\ Good(a.c1) /\ Good(a.c2) /\ a.c1.deg = a.c2.deg
      /\ ~Manual => a.c1.level = a.c2.level
      /\ Manual => a.c1.deg = c1.deg
  <2>1. CASE Manual
    BY <2>1, AdjustLevelsGood DEF AdjustForAddOrSubInPlace
  <2>2. CASE ~Manual
    BY <2>2, AdjustGood DEF AdjustForAddOrSubInPlace, Joint
  <2> QED
    BY <2>1, <2>2
<1>2. r.c1 = a.c1 /\ r.c2 = a.c2 /\ r.res = EvalAddCore(a.c1, a.c2)
  BY ApplyFields DEF AddOrSub, ApplySum
<1> HIDE DEF a, r
<1>3. Good(r.res) /\ r.res.deg = a.c1.deg
  BY <1>1, <1>2, SumGood
<1> QED
  BY <1>1, <1>2, <1>3, GoodKept DEF SafeCall, r

(* A plaintext of FIXEDMANUAL is scaled up.                                 *)
LEMMA AdjustPlaintextGood ==
  ASSUME Tables, Manual, NEW a, a.ok, Good(a.c1), Good(a.c2),
         a = Pair(a.ok, a.c1, a.c2)
  PROVE  LET b == AdjustPlaintext(a) IN
         /\ b.c1 = a.c1
         /\ b.ok => Good(b.c2) /\ b.c2.deg = a.c1.deg
PROOF
<1> DEFINE k == a.c1.deg
           m == a.c2.deg
           up == Power(TwoToP, k - m)
           d == [a.c2 EXCEPT !.scale = Times(a.c2.scale, up), !.deg = k]
           b == AdjustPlaintext(a)
<1>1. /\ k \in 0 .. MaxDeg /\ k >= 1 /\ m \in 0 .. MaxDeg /\ m >= 1 /\ MaxDeg \in Nat
      /\ a.c2.scale = Power(TwoToP, m) /\ a.c2 \in CtType /\ a.c2.sf \in Factors
  BY GoodFacts, SizesAssumption
<1>2. CASE m < k
  <2>1. b = [ok |-> a.ok, c1 |-> a.c1, c2 |-> d]
    BY <1>2 DEF AdjustPlaintext, Pair
  <2>2. m \in Nat /\ k - m \in Nat /\ m + (k - m) = k
    BY <1>1, <1>2
  <2>3. Times(a.c2.scale, up) = Power(TwoToP, k)
    <3>1. TwoToP \in Factors
      BY FactorsAssumption
    <3> QED
      BY <1>1, <2>2, <3>1, PowerSum
  <2>4. /\ d \in CtType /\ d.sf \in Factors /\ d.level = a.c2.level /\ d.towers = a.c2.towers
        /\ d.deg = k /\ d.scale = Power(TwoToP, k)
    <3>1. TwoToP \in Factors /\ k \in 0 .. MaxDeg /\ k \in Nat
      BY <1>1, FactorsAssumption
    <3>2. Power(TwoToP, k) \in Factors
      BY <3>1, PowerFacts
    <3> HIDE DEF k
    <3> QED
      BY <1>1, <2>3, <3>1, <3>2 DEF CtType
  <2> HIDE DEF d, k
  <2>5. Good(d)
    BY <1>1, <2>4, ManualFields DEF k
  <2> QED
    BY <2>1, <2>4, <2>5 DEF k
<1>3. CASE ~(m < k)
  <2>1. b = [a EXCEPT !.ok = a.ok /\ m = k]
    BY <1>3 DEF AdjustPlaintext
  <2>2. b = [ok |-> a.ok /\ m = k, c1 |-> a.c1, c2 |-> a.c2]
    BY <2>1 DEF Pair
  <2> HIDE DEF b
  <2>3. b.c1 = a.c1 /\ b.c2 = a.c2 /\ (b.ok => m = k)
    BY <2>2
  <2> QED
    BY <2>3 DEF b
<1> QED
  BY <1>2, <1>3

LEMMA AddOrSubPlainGood ==
  ASSUME Tables, NEW c, NEW p, Good(c), Good(p)
  PROVE  LET r == AddOrSubPlain(c, p) IN
         Kept(r.c1) /\ (r.ok => Good(r.c1) /\ Good(r.res))
PROOF
<1> DEFINE a == AdjustForAddOrSubPlain(c, p)
           r == AddOrSubPlain(c, p)
<1>1. /\ Good(a.c1)
      /\ a.ok => Good(a.c2) /\ a.c1.deg = a.c2.deg /\ (~Manual => a.c1.level = a.c2.level)
  <2>1. CASE Manual
    <3> DEFINE b == AdjustLevelsInPlace(c, p)
    <3>1. b.ok /\ Good(b.c1) /\ Good(b.c2)
      BY <2>1, AdjustLevelsGood
    <3>2. b = Pair(b.ok, b.c1, b.c2)
      BY DEF AdjustLevelsInPlace, First, Second, Pair
    <3>3. a = AdjustPlaintext(b)
      BY <2>1 DEF AdjustForAddOrSubPlain
    <3> HIDE DEF a, b
    <3>4. /\ a.c1 = b.c1
          /\ a.ok => Good(a.c2) /\ a.c2.deg = b.c1.deg
      BY <2>1, <3>1, <3>2, <3>3, AdjustPlaintextGood
    <3> QED
      BY <2>1, <3>1, <3>4
  <2>2. CASE ~Manual
    BY <2>2, AdjustGood DEF AdjustForAddOrSubPlain, Joint
  <2> QED
    BY <2>1, <2>2
<1>2. /\ r.ok = (a.ok /\ a.c1.towers = a.c2.towers)
      /\ r.c1 = a.c1 /\ r.res = EvalAddCore(a.c1, a.c2)
  BY ApplyFields DEF AddOrSubPlain, ApplySum
<1> HIDE DEF a, r
<1>3. r.ok => Good(r.res)
  BY <1>1, <1>2, SumGood
<1> QED
  BY <1>1, <1>2, <1>3, GoodKept DEF r

(* Products: the factor of the result is that of degree two at the common   *)
(* level, whichever of the equal factors it is computed from.               *)
LEMMA ProductGood ==
  ASSUME Tables, NEW c1, NEW c2, Good(c1), Good(c2), c1.deg + c2.deg <= MaxDeg,
         ~Manual => c1.level = c2.level /\ c1.deg = 1 /\ c2.deg = 1
  PROVE  LET d == EvalMultCore(c1, c2)
             e == EvalMultPlainCore(c1, c2)
         IN  Good(d) /\ d.deg = c1.deg + c2.deg /\ Good(e) /\ e.deg = c1.deg + c2.deg
PROOF
<1> DEFINE k == c1.deg + c2.deg
           s == Times(c1.scale, c2.scale)
           f == Times(c1.sf, c2.sf)
           g == Times(c1.sf, c1.sf)
           d == [c1 EXCEPT !.scale = s, !.deg = k, !.sf = f]
           e == [d EXCEPT !.sf = g]
<1>1. /\ c1 \in CtType /\ c1.sf \in Factors /\ c2.sf \in Factors
      /\ c1.scale \in Scales /\ c2.scale \in Scales
      /\ c1.deg \in 0 .. MaxDeg /\ c2.deg \in 0 .. MaxDeg /\ MaxDeg \in Nat
      /\ c1.level \in Levels
      /\ Flexible => c1.scale = c1.sf /\ c2.scale = c2.sf
      /\ Manual => /\ c1.deg >= 1 /\ c1.scale = Power(TwoToP, c1.deg)
                   /\ c2.deg >= 1 /\ c2.scale = Power(TwoToP, c2.deg)
      /\ ~Manual => /\ c1.sf = Elem(c1.level, c1.deg) /\ c2.sf = Elem(c2.level, c2.deg)
                    /\ (Ext /\ c1.level = 0 => c1.deg = 2)
  BY GoodFacts, SizesAssumption
<1>2. /\ f \in Factors /\ g \in Factors
      /\ ~Manual => f = g
  BY <1>1, FactorLaws
<1>3. s \in Scales
  <2>1. \A x, y \in Scales : Times(x, y) \in Scales
    BY FactorsAssumption DEF Scales
  <2> QED
    BY <1>1, <2>1
<1>4. ASSUME Manual
      PROVE  s = Power(TwoToP, k)
  <2>1. c1.deg \in Nat /\ c2.deg \in Nat
    BY <1>1
  <2>2. TwoToP \in Factors
    BY FactorsAssumption
  <2> QED
    BY <1>1, <1>4, <2>1, <2>2, PowerSum
<1>5. ASSUME ~Manual
      PROVE  /\ k = 2 /\ f = Elem(c1.level, 2) /\ ~(Ext /\ c1.level = 0)
             /\ Flexible => s = f
  <2>1. k = 2 /\ ~(Ext /\ c1.level = 0)
    BY <1>1, <1>5
  <2>2. /\ Elem(c1.level, 1) = GetScalingFactorReal(c1.level)
        /\ Elem(c1.level, 2) = Times(Elem(c1.level, 1), Elem(c1.level, 1))
    BY <1>1, <2>1, ElemFacts
  <2> QED
    BY <1>1, <1>5, <2>1, <2>2
<1>6. k \in 0 .. MaxDeg /\ k >= 1
  BY <1>1, <1>5
<1>7. EvalMultCore(c1, c2) = d /\ EvalMultPlainCore(c1, c2) = e
  BY DEF EvalMultCore, EvalMultPlainCore
<1>8. c1.deg + c2.deg = k
  OBVIOUS
<1> HIDE DEF k, s, f, g
<1>9. /\ d \in CtType /\ d.level = c1.level /\ d.towers = c1.towers /\ d.deg = k
      /\ d.sf = f /\ d.scale = s
      /\ e \in CtType /\ e.level = c1.level /\ e.towers = c1.towers /\ e.deg = k
      /\ e.sf = g /\ e.scale = s
  BY <1>1, <1>2, <1>3, <1>6 DEF CtType, Scales
<1> HIDE DEF d, e
<1>10. Aligned(d) /\ Aligned(e)
  BY <1>9 DEF Good, Aligned
<1>11. Kept(d) /\ Kept(e)
  <2>1. Flexible => ~Manual
    BY DegreeFacts DEF Tables
  <2> QED
    BY <1>2, <1>5, <1>9, <2>1 DEF Kept
<1>12. Manual => ManualGood(d) /\ ManualGood(e)
  BY <1>4, <1>6, <1>9 DEF ManualGood
<1>13. ~Manual => AutoGood(d) /\ AutoGood(e)
  <2>1. ~Manual => c1.level % Degree = 0
    BY GoodFacts
  <2> QED
    BY <1>2, <1>5, <1>9, <2>1 DEF AutoGood
<1> QED
  BY <1>7, <1>8, <1>9, <1>10, <1>11, <1>12, <1>13 DEF Good

LEMMA AdjustForMultGood ==
  ASSUME Tables, NEW c1, NEW c2, Good(c1), Good(c2), c1.deg + c2.deg <= MaxDeg
  PROVE  LET a == AdjustForMultInPlace(c1, c2) IN
         /\ KeptBoth(a)
         /\ a.ok => /\ Good(a.c1) /\ Good(a.c2) /\ a.c1.deg + a.c2.deg <= MaxDeg
                    /\ ~Manual => a.c1.level = a.c2.level /\ a.c1.deg = 1 /\ a.c2.deg = 1
PROOF
<1>1. CASE Manual
  BY <1>1, AdjustLevelsGood, GoodKept DEF AdjustForMultInPlace, KeptBoth
<1>2. CASE ~Manual
  <2> DEFINE b == AdjustLevelsAndDepthInPlace(c1, c2)
             a == BothToOne(b, b.c1)
  <2>1. b.ok /\ Joint(b)
    BY <1>2, AdjustGood
  <2>2. KeptBoth(a) /\ (a.ok => Joint(a) /\ a.c1.deg = 1)
    BY <1>2, <2>1, BothToOneGood
  <2>3. AdjustForMultInPlace(c1, c2) = a
    BY <1>2 DEF AdjustForMultInPlace, AdjustLevelsAndDepthToOneInPlace, FirstToOne
  <2> HIDE DEF a, b
  <2>4. 1 + 1 <= MaxDeg
    BY SizesAssumption
  <2> QED
    BY <2>2, <2>3, <2>4 DEF Joint
<1> QED
  BY <1>1, <1>2

LEMMA MultGood ==
  ASSUME Tables, NEW c1, NEW c2, Good(c1), Good(c2), c1.deg + c2.deg <= MaxDeg
  PROVE  LET r == Mult(c1, c2)
             q == MultPlain(c1, c2)
         IN  SafeCall(r) /\ (r.ok => r.res.deg > 1) /\ SafeCall(q)
PROOF
<1> DEFINE a == AdjustForMultInPlace(c1, c2)
           r == Mult(c1, c2)
           q == MultPlain(c1, c2)
<1>1. /\ KeptBoth(a)
      /\ a.ok => /\ Good(a.c1) /\ Good(a.c2) /\ a.c1.deg + a.c2.deg <= MaxDeg
                 /\ ~Manual => a.c1.level = a.c2.level /\ a.c1.deg = 1 /\ a.c2.deg = 1
  BY AdjustForMultGood
<1>2. /\ r.ok = (a.ok /\ a.c1.towers = a.c2.towers)
      /\ r.c1 = a.c1 /\ r.c2 = a.c2 /\ r.res = EvalMultCore(a.c1, a.c2)
  BY ApplyFields DEF Mult, ApplyProduct
<1>3. /\ q.ok = (a.ok /\ a.c1.towers = a.c2.towers)
      /\ q.c1 = a.c1 /\ q.c2 = a.c2 /\ q.res = EvalMultPlainCore(a.c1, a.c2)
  BY ApplyFields DEF MultPlain, ApplyPlainProduct
<1> HIDE DEF a, r, q
<1>4. a.ok => /\ Good(EvalMultCore(a.c1, a.c2)) /\ Good(EvalMultPlainCore(a.c1, a.c2))
              /\ EvalMultCore(a.c1, a.c2).deg = a.c1.deg + a.c2.deg
  BY <1>1, ProductGood
<1>5. a.ok => a.c1.deg + a.c2.deg > 1
  <2>1. ASSUME a.ok
        PROVE  a.c1.deg \in Nat /\ a.c2.deg \in Nat /\ a.c1.deg >= 1 /\ a.c2.deg >= 1
    BY <1>1, <2>1, GoodFacts, SizesAssumption
  <2> QED
    BY <2>1
<1> QED
  BY <1>1, <1>2, <1>3, <1>4, <1>5 DEF SafeCall, KeptBoth, r, q

(* The rescaling before a square or a product with a constant.              *)
LEMMA ToDegreeOneGood ==
  ASSUME Tables, NEW c, Good(c)
  PROVE  LET o == ToDegreeOne(c) IN
         /\ Safe(o)
         /\ o.ok /\ ~Manual => o.c.deg = 1
         /\ Manual \/ c.deg = 1 => o.ok /\ o.c = c
PROOF
<1>1. ~Manual => c.deg \in {1, 2}
  BY GoodFacts
<1>2. CASE ~Manual /\ c.deg = 2
  <2>1. ToDegreeOne(c) = Rescale(c)
    BY <1>2 DEF ToDegreeOne
  <2>2. c.deg > 1
    BY <1>2
  <2>3. Rescale(c).ok => Good(Rescale(c).c) /\ Rescale(c).c.deg = c.deg - 1
    BY <2>2, RescaleGood
  <2> QED
    BY <1>2, <2>1, <2>3, RescaleKept DEF Safe
<1>3. CASE ~(~Manual /\ c.deg = 2)
  <2>1. ToDegreeOne(c) = [ok |-> TRUE, c |-> c]
    BY <1>3 DEF ToDegreeOne, Returns
  <2> QED
    BY <1>1, <1>3, <2>1, GoodKept DEF Safe
<1> QED
  BY <1>2, <1>3

LEMMA SquareGood ==
  ASSUME Tables, NEW c, Good(c), c.deg + c.deg <= MaxDeg
  PROVE  LET r == Square(c) IN Kept(r.c1) /\ (r.ok => Good(r.c1) /\ Good(r.res))
PROOF
<1> DEFINE o == ToDegreeOne(c)
           r == Square(c)
<1>1. /\ Safe(o)
      /\ o.ok /\ ~Manual => o.c.deg = 1
      /\ Manual => o.c = c
  BY ToDegreeOneGood
<1>2. r.ok = o.ok /\ r.c1 = o.c /\ r.res = EvalMultCore(o.c, o.c)
  BY DEF Square, Squared
<1> HIDE DEF o, r
<1>3. o.ok => o.c.deg + o.c.deg <= MaxDeg
  BY <1>1, SizesAssumption
<1>4. o.ok => Good(EvalMultCore(o.c, o.c))
  BY <1>1, <1>3, ProductGood DEF Safe
<1> QED
  BY <1>1, <1>2, <1>4 DEF Safe, r

LEMMA MultConstGood ==
  ASSUME Tables, NEW c, Good(c), c.deg < MaxDeg
  PROVE  LET o == MultConst(c) IN
         /\ Safe(o)
         /\ Manual \/ c.deg = 1 => o.ok /\ o.c.deg = c.deg + 1 /\ o.c.level = c.level
PROOF
<1> DEFINE p == ToDegreeOne(c)
           d == EvalMultCoreInPlace(p.c, One)
<1>1. /\ Safe(p)
      /\ p.ok /\ ~Manual => p.c.deg = 1
      /\ Manual \/ c.deg = 1 => p.ok /\ p.c = c
  BY ToDegreeOneGood
<1>2. MultConst(c) = IF p.ok THEN [ok |-> TRUE, c |-> d] ELSE p
  BY DEF MultConst, Then, Returns
<1> HIDE DEF p
<1>3. p.ok => p.c.deg < MaxDeg
  BY <1>1, SizesAssumption
<1>4. p.ok => Good(d) /\ d.level = p.c.level /\ d.deg = p.c.deg + 1
  BY <1>1, <1>3, DeeperGood DEF Safe
<1> HIDE DEF d
<1>5. CASE p.ok
  BY <1>1, <1>2, <1>4, <1>5, GoodKept DEF Safe
<1>6. CASE ~p.ok
  BY <1>1, <1>2, <1>6
<1> QED
  BY <1>5, <1>6

LEMMA ModReduceGood ==
  ASSUME Tables, NEW c, Good(c), Manual => c.deg > 1
  PROVE  Safe(ModReduceInPlace(c))
PROOF
<1>1. CASE Manual
  BY <1>1, RescaleGood, RescaleKept DEF ModReduceInPlace, Safe
<1>2. CASE ~Manual
  BY <1>2, GoodKept DEF ModReduceInPlace, Safe, Returns
<1> QED
  BY <1>1, <1>2

(* A constant is added with the scale that the ciphertext has.              *)
LEMMA AddConstGood ==
  ASSUME Tables, NEW c, Good(c)
  PROVE  Good(AddConst(c))
PROOF
<1> DEFINE e == GetElementForEvalAddOrSub(c)
           s == Sum(c.scale, e)
           d == [c EXCEPT !.scale = s]
<1>1. /\ c \in CtType /\ c.scale \in Scales /\ c.level \in Levels /\ c.deg \in Nat
      /\ Flexible => c.scale = c.sf
      /\ Manual => c.scale = Power(TwoToP, c.deg)
      /\ ~Manual => c.sf = Elem(c.level, c.deg)
  BY GoodFacts, SizesAssumption
<1>2. e = Elem(c.level, c.deg)
  BY DEF GetElementForEvalAddOrSub, Elem
<1>3. (Flexible => ~Manual) /\ (Manual => ~Ext /\ ~Flexible)
  BY DegreeFacts DEF Tables
<1>4. Manual => e = Power(TwoToP, c.deg)
  BY <1>1, <1>2, <1>3, ElemFacts
<1>5. Manual \/ Flexible => c.scale = e
  BY <1>1, <1>2, <1>3, <1>4
<1> HIDE DEF e
<1>6. s \in Scales /\ (Manual \/ Flexible => s = c.scale)
  BY <1>1, <1>5 DEF Sum, Scales
<1>7. AddConst(c) = d
  BY DEF AddConst, e
<1> HIDE DEF s
<1>8. /\ d \in CtType /\ d.level = c.level /\ d.towers = c.towers /\ d.deg = c.deg
      /\ d.sf = c.sf /\ d.scale = s
  BY <1>1, <1>6 DEF CtType, Scales
<1> HIDE DEF d
<1> QED
  BY <1>6, <1>7, <1>8 DEF Good, Kept, Aligned, ManualGood, AutoGood

-----------------------------------------------------------------------------
(* The weighted sum.                                                        *)
LEMMA AdjustAllGood ==
  ASSUME Tables, NEW c1, NEW c2, Good(c1), Good(c2), Manual => c1.deg = c2.deg, c1.deg < MaxDeg
  PROVE  LET a == AdjustAll(c1, c2) IN
         /\ KeptBoth(a)
         /\ a.ok => /\ Good(a.c1) /\ Good(a.c2) /\ a.c1.deg = a.c2.deg /\ a.c1.deg < MaxDeg
                    /\ ~Manual => a.c1.deg = 1 /\ a.c1.level = a.c2.level
PROOF
<1>1. CASE Manual
  BY <1>1, GoodKept DEF AdjustAll, KeptBoth, Pair
<1>2. CASE ~Manual
  <2> DEFINE b == AdjustLevelsAndDepthInPlace(c1, c2)
             deepest == IF SecondDeeper(c1, c2) THEN b.c2 ELSE b.c1
             a == BothToOne(b, deepest)
  <2>1. b.ok /\ Joint(b)
    BY <1>2, AdjustGood
  <2>2. deepest.deg = b.c1.deg
    BY <2>1 DEF Joint
  <2>3. AdjustAll(c1, c2) = a
    BY <1>2 DEF AdjustAll, DeepestToOne
  <2> HIDE DEF b, deepest
  <2>4. KeptBoth(a) /\ (a.ok => Joint(a) /\ a.c1.deg = 1)
    BY <1>2, <2>1, <2>2, BothToOneGood
  <2> HIDE DEF a
  <2>5. 1 < MaxDeg
    BY SizesAssumption
  <2> QED
    BY <1>2, <2>3, <2>4, <2>5 DEF Joint
<1> QED
  BY <1>1, <1>2

LEMMA MultBothGood ==
  ASSUME Tables, NEW a, KeptBoth(a),
         a.ok => /\ Good(a.c1) /\ Good(a.c2) /\ a.c1.deg = a.c2.deg /\ a.c1.deg < MaxDeg
                 /\ ~Manual => a.c1.deg = 1 /\ a.c1.level = a.c2.level
  PROVE  LET b == MultBoth(a) IN
         /\ KeptBoth(b)
         /\ b.ok => /\ Good(b.c1) /\ Good(b.c2) /\ b.c1.deg = b.c2.deg /\ b.c1.deg > 1
PROOF
<1> DEFINE o1 == MultConst(a.c1)
           o2 == MultConst(a.c2)
           b == MultBoth(a)
<1>1. CASE a.ok
  <2>1. /\ o1.ok /\ Good(o1.c) /\ o1.c.deg = a.c1.deg + 1
        /\ o2.ok /\ Good(o2.c) /\ o2.c.deg = a.c2.deg + 1
    BY <1>1, MultConstGood DEF Safe
  <2>2. b = Pair(o2.ok, o1.c, o2.c)
    BY <1>1, <2>1 DEF MultBoth, MultSecond, Second
  <2>3. a.c1.deg \in Nat /\ a.c1.deg >= 1
    <3>1. Good(a.c1) /\ MaxDeg \in Nat
      BY <1>1, SizesAssumption
    <3>2. a.c1.deg \in 0 .. MaxDeg /\ (Manual => a.c1.deg >= 1) /\ (~Manual => a.c1.deg \in {1, 2})
      BY <3>1, GoodFacts
    <3> QED
      BY <3>1, <3>2
  <2> HIDE DEF o1, o2, b
  <2>4. b.c1 = o1.c /\ b.c2 = o2.c
    BY <2>2 DEF Pair
  <2>5. b.c1.deg = b.c2.deg /\ b.c1.deg > 1
    BY <1>1, <2>1, <2>3, <2>4
  <2> QED
    BY <2>1, <2>4, <2>5, GoodKept DEF KeptBoth, b
<1>2. CASE ~a.ok
  BY <1>2 DEF MultBoth
<1> QED
  BY <1>1, <1>2

LEMMA AddUpGood ==
  ASSUME Tables, NEW a, KeptBoth(a),
         a.ok => Good(a.c1) /\ Good(a.c2) /\ a.c1.deg = a.c2.deg /\ a.c1.deg > 1
  PROVE  LET b == AddUp(a) IN
         KeptBoth(b) /\ (b.ok => Good(b.c1) /\ Good(b.c2))
PROOF
<1> DEFINE s == AddOrSub(a.c1, a.c2)
           o == ModReduceInPlace(s.res)
           b == AddUp(a)
<1>1. CASE ~a.ok
  BY <1>1 DEF AddUp
<1>2. CASE a.ok /\ s.ok
  <2>1. Good(s.res) /\ (Manual => s.res.deg > 1)
    BY <1>2, AddOrSubGood DEF SafeCall
  <2>2. Safe(o)
    BY <2>1, ModReduceGood
  <2>3. b = Pair(o.ok, o.c, a.c2)
    BY <1>2 DEF AddUp, SumIntoFirst, First
  <2> HIDE DEF o, b
  <2>4. b.c1 = o.c /\ b.c2 = a.c2 /\ b.ok = o.ok
    BY <2>3 DEF Pair
  <2> QED
    BY <1>2, <2>2, <2>4 DEF Safe, KeptBoth, b
<1>3. CASE a.ok /\ ~s.ok
  <2>1. b = Pair(FALSE, a.c1, a.c2)
    BY <1>3 DEF AddUp, SumIntoFirst
  <2> HIDE DEF b
  <2>2. ~b.ok /\ b.c1 = a.c1 /\ b.c2 = a.c2
    BY <2>1 DEF Pair
  <2> QED
    BY <2>2 DEF KeptBoth, b
<1> QED
  BY <1>1, <1>2, <1>3

LEMMA LinearWSumGood ==
  ASSUME Tables, NEW c1, NEW c2, Good(c1), Good(c2), Manual => c1.deg = c2.deg, c1.deg < MaxDeg
  PROVE  LET b == EvalLinearWSum(c1, c2) IN
         KeptBoth(b) /\ (b.ok => Good(b.c1) /\ Good(b.c2))
PROOF
<1> DEFINE a == AdjustAll(c1, c2)
           m == MultBoth(a)
<1>1. EvalLinearWSum(c1, c2) = AddUp(m)
  BY DEF EvalLinearWSum
<1>2. /\ KeptBoth(a)
      /\ a.ok => /\ Good(a.c1) /\ Good(a.c2) /\ a.c1.deg = a.c2.deg /\ a.c1.deg < MaxDeg
                 /\ ~Manual => a.c1.deg = 1 /\ a.c1.level = a.c2.level
  BY AdjustAllGood
<1> HIDE DEF a
<1>3. /\ KeptBoth(m)
      /\ m.ok => Good(m.c1) /\ Good(m.c2) /\ m.c1.deg = m.c2.deg /\ m.c1.deg > 1
  BY <1>2, MultBothGood
<1> HIDE DEF m
<1> QED
  BY <1>1, <1>3, AddUpGood

-----------------------------------------------------------------------------
(* Compress: a chain of rescalings, then the towers that are too many.      *)
LEMMA GoodOK ==
  ASSUME NEW c, Good(c)
  PROVE  CtOK(c)
BY DEF Good, CtOK

RescaledTimes(c, n) ==
  CHOOSE f : f = [i \in 0 .. n |-> IF i = 0 THEN Returns(c) ELSE Then(f[i - 1], Rescale)]

LEMMA RescaledTimesExists ==
  ASSUME NEW c, NEW n \in Nat
  PROVE  LET f == RescaledTimes(c, n) IN
         f = [i \in 0 .. n |-> IF i = 0 THEN Returns(c) ELSE Then(f[i - 1], Rescale)]
PROOF
<1> DEFINE Is(f, m) ==
             f = [i \in 0 .. m |-> IF i = 0 THEN Returns(c) ELSE Then(f[i - 1], Rescale)]
           P == {m \in Nat : \E f : Is(f, m)}
<1>1. 0 \in P
  <2> DEFINE f == [i \in 0 .. 0 |-> Returns(c)]
  <2>1. Is(f, 0)
    OBVIOUS
  <2> QED
    BY <2>1
<1>2. ASSUME NEW m \in Nat, m \in P
      PROVE  m + 1 \in P
  <2>1. PICK f : Is(f, m)
    BY <1>2
  <2> DEFINE h == [i \in 0 .. m + 1 |-> IF i = 0 THEN Returns(c) ELSE Then(f[i - 1], Rescale)]
  <2>2. \A i \in 0 .. m : h[i] = f[i]
    BY <2>1
  <2> HIDE DEF h
  <2>3. \A i \in 0 .. m + 1 : i # 0 => f[i - 1] = h[i - 1]
    BY <2>2
  <2>4. Is(h, m + 1)
    BY <2>3 DEF h
  <2> QED
    BY <2>4
<1>3. n \in P
  <2> HIDE DEF P
  <2> QED
    BY <1>1, <1>2, SetInduction
<1>4. PICK f : Is(f, n)
  BY <1>3
<1> QED
  BY <1>4 DEF RescaledTimes

LEMMA RescaledTimesGood ==
  ASSUME Tables, NEW c, Good(c), NEW n \in Nat, n < c.deg
  PROVE  LET o == RescaledTimes(c, n)[n] IN o.ok => Good(o.c)
PROOF
<1> DEFINE f == RescaledTimes(c, n)
           P == {i \in 0 .. n : f[i].ok => Good(f[i].c) /\ f[i].c.deg = c.deg - i}
<1>1. f = [i \in 0 .. n |-> IF i = 0 THEN Returns(c) ELSE Then(f[i - 1], Rescale)]
  BY RescaledTimesExists
<1> HIDE DEF f
<1>2. c.deg \in Nat
  BY GoodFacts, SizesAssumption
<1>3. 0 \in P
  <2>1. f[0] = [ok |-> TRUE, c |-> c]
    BY <1>1 DEF Returns
  <2> QED
    BY <1>2, <2>1
<1>4. ASSUME NEW i \in 0 .. n - 1, i \in P
      PROVE  i + 1 \in P
  <2> DEFINE o == f[i]
             p == f[i + 1]
  <2>1. i + 1 \in 0 .. n /\ i + 1 # 0 /\ i + 1 - 1 = i /\ i \in Int
    OBVIOUS
  <2>2. p = Then(o, Rescale)
    BY <1>1, <2>1
  <2>3. p = IF o.ok THEN Rescale(o.c) ELSE o
    BY <2>2 DEF Then
  <2>4. o.ok => Good(o.c) /\ o.c.deg = c.deg - i
    BY <1>4
  <2> HIDE DEF o, p
  <2>5. ASSUME p.ok
        PROVE  Good(p.c) /\ p.c.deg = c.deg - (i + 1)
    <3>1. o.ok /\ p = Rescale(o.c)
      BY <2>3, <2>5
    <3>2. o.c.deg > 1
      BY <1>2, <2>4, <3>1
    <3>3. Good(p.c) /\ p.c.deg = o.c.deg - 1
      BY <2>4, <2>5, <3>1, <3>2, RescaleGood
    <3> QED
      BY <1>2, <2>1, <2>4, <3>1, <3>3
  <2> QED
    BY <2>1, <2>5 DEF p
<1>5. n \in P
  <2> HIDE DEF P
  <2> QED
    BY <1>3, <1>4, BoundedInduction
<1> QED
  BY <1>5 DEF f

LEMMA CompressGood ==
  ASSUME Tables, NEW c, Good(c), NEW towersLeft \in 1 .. SizeQ, NEW deg \in {1, 2}
  PROVE  LET o == Compress(c, towersLeft, deg) IN o.ok => CtOK(o.c)
PROOF
<1> DEFINE n == IF c.deg > deg THEN c.deg - deg ELSE 0
           p == RescaledTimes(c, n)[n]
           r == p.c
           t == [r EXCEPT !.status = "compressed"]
           q == LevelReduceInternalInPlace(t, r.towers - towersLeft)
           o == Compress(c, towersLeft, deg)
<1>1. c.deg \in Nat /\ c.deg >= 1
  <2>1. c.deg \in 0 .. MaxDeg /\ MaxDeg \in Nat
    BY GoodFacts, SizesAssumption
  <2>2. (Manual => c.deg >= 1) /\ (~Manual => c.deg \in {1, 2})
    BY GoodFacts
  <2> QED
    BY <2>1, <2>2
<1>2. n \in Nat /\ n < c.deg
  BY <1>1
<1>3. o = IF towersLeft % Degree = 0
          THEN Then(p, LAMBDA d : IF towersLeft < d.towers
                                  THEN LevelReduceInternalInPlace([d EXCEPT !.status = "compressed"],
                                                                  d.towers - towersLeft)
                                  ELSE Returns(d))
          ELSE Throws(c)
  BY DEF Compress, RescaledTimes
<1>4. o = IF towersLeft % Degree = 0
          THEN IF p.ok THEN IF towersLeft < r.towers THEN q ELSE [ok |-> TRUE, c |-> r]
               ELSE p
          ELSE [ok |-> FALSE, c |-> c]
  BY <1>3 DEF Then, Returns, Throws
<1> HIDE DEF n
<1>5. p.ok => Good(r)
  BY <1>2, RescaledTimesGood
<1> HIDE DEF p
<1>6. ASSUME p.ok, towersLeft < r.towers
      PROVE  CtOK(q.c)
  <2> DEFINE k == r.towers - towersLeft
  <2>1. /\ Good(r) /\ r \in Shape /\ r.towers \in 1 .. SizeQ /\ r.level \in Levels
        /\ r.towers = SizeQ - r.level /\ r.deg \in 0 .. MaxDeg
        /\ Flexible => r.scale = r.sf
        /\ Manual => r.deg >= 1 /\ r.scale = Power(TwoToP, r.deg)
    BY <1>5, <1>6, GoodFacts
  <2>2. /\ t \in Shape /\ t.status = "compressed" /\ t.towers = r.towers /\ t.level = r.level
        /\ t.deg = r.deg /\ t.sf = r.sf /\ t.scale = r.scale
    BY <2>1 DEF Shape, Status
  <2>3. /\ k \in Nat /\ k < t.towers /\ SizeQ \in Nat
    BY <1>6, <2>1, <2>2, SizesAssumption
  <2> HIDE DEF k, t
  <2> DEFINE u == LevelReduceInternalInPlace(t, k).c
  <2>4. /\ u \in Shape /\ u.status = "compressed" /\ u.level = r.level + k
        /\ u.towers = r.towers - k /\ u.deg = r.deg /\ u.sf = r.sf /\ u.scale = r.scale
    BY <2>2, <2>3, ReduceShape
  <2>5. q.c = u
    BY DEF k
  <2> HIDE DEF u
  <2>6. /\ u.level \in 0 .. SizeQ + CompositeDegree - 1 /\ u.towers + u.level = SizeQ
        /\ u.deg \in 0 .. MaxDeg
    BY <2>1, <2>2, <2>3, <2>4, SizesAssumption DEF Levels
  <2>7. /\ u = [level |-> u.level, towers |-> u.towers, deg |-> u.deg, sf |-> u.sf,
                scale |-> u.scale, status |-> u.status]
        /\ u.towers \in 1 .. SizeQ /\ u.sf \in Factors /\ u.scale \in Scales
        /\ u.status \in Status
    BY <2>4 DEF Shape
  <2>8. u \in CtType
    BY <2>6, <2>7 DEF CtType, Scales
  <2>9. CtOK(u)
    BY <2>1, <2>4, <2>6, <2>7, <2>8 DEF CtOK, Kept, Aligned, ManualGood
  <2> QED
    BY <2>5, <2>9
<1>7. p.ok => CtOK(r)
  BY <1>5, GoodOK
<1> HIDE DEF q, r
<1> QED
  BY <1>4, <1>6, <1>7 DEF r

LEMMA PlaintextGood ==
  ASSUME Tables, NEW p \in Plaintexts
  PROVE  Good(p)
PROOF
<1>1. PICK l \in EncodeLevels, deg \in {1, 2} :
        l % Degree = 0 /\ p = MakeCKKSPackedPlaintext(l, deg)
  BY DEF Plaintexts
<1> DEFINE top == Ext /\ l = 0
           k == IF top THEN 2 ELSE deg
           f == IF top THEN GetScalingFactorRealBig(0) ELSE Power(GetScalingFactorReal(l), deg)
<1>2. /\ l \in Levels /\ l \in 0 .. SizeQ + CompositeDegree - 1 /\ SizeQ - l \in 1 .. SizeQ
      /\ (SizeQ - l) + l = SizeQ
      /\ k \in 0 .. MaxDeg /\ k \in {1, 2} /\ k \in Nat /\ k >= 1
  BY SizesAssumption DEF Levels
<1>3. f = Elem(l, k)
  BY DEF Elem
<1>4. f \in Factors
  BY <1>2, <1>3, ElemFacts
<1>5. p = [level |-> l, towers |-> SizeQ - l, deg |-> k, sf |-> f, scale |-> f,
           status |-> "operand"]
  BY <1>1 DEF MakeCKKSPackedPlaintext
<1>6. Manual => f = Power(TwoToP, k)
  <2>1. Manual => ~Flexible /\ ~Ext
    BY DegreeFacts DEF Tables
  <2> QED
    BY <1>2, <1>3, <2>1, ElemFacts
<1>7. Ext /\ l = 0 => k = 2
  OBVIOUS
<1> HIDE DEF k, f
<1>8. p \in CtType
  BY <1>2, <1>4, <1>5 DEF CtType, Status
<1>9. Kept(p) /\ Aligned(p) /\ (Manual => ManualGood(p)) /\ AutoGood(p)
  BY <1>1, <1>2, <1>3, <1>4, <1>5, <1>6, <1>7, <1>8 DEF Kept, Aligned, ManualGood, AutoGood
<1> QED
  BY <1>9 DEF Good

-----------------------------------------------------------------------------
(* How the calls change the ciphertext variables.                           *)
LEMMA Carried ==
  ASSUME Tables, UNCHANGED params, AllOK(ct')
  PROVE  IInv'
PROOF
<1>1. /\ scalTechnique' = scalTechnique
      /\ m_scalingFactorsReal' = m_scalingFactorsReal
      /\ m_scalingFactorsRealBig' = m_scalingFactorsRealBig
  BY DEF params
<1>2. Tables'
  BY <1>1 DEF Tables, BigIsDegreeTwo, RescalingDescends, Elem, DroppedFactor, GetModReduceFactor,
     GetScalingFactorReal, GetScalingFactorRealBig, ApproxSF, Flexible, Ext, Manual, Degree, Composite
<1>3. AllOK(ct)'
  BY <1>1 DEF AllOK, CtOK, Kept, Aligned, ManualGood, AutoGood, Elem,
     GetScalingFactorReal, GetScalingFactorRealBig, ApproxSF, Flexible, Ext, Manual, Degree, Composite
<1> QED
  BY <1>2, <1>3 DEF IInv

LEMMA OperandGood ==
  ASSUME IInv, NEW x \in Ciphertexts, Operand(x)
  PROVE  Good(ct[x]) /\ CtOK(ct[x])
PROOF
<1>1. /\ ct[x] # NoCt /\ CtOK(ct[x])
      /\ ct[x].status = "operand" \/ (Manual /\ ct[x].status = "compressed")
  BY DEF IInv, AllOK, Operand
<1> QED
  BY <1>1 DEF CtOK, Good

LEMMA StoredOK ==
  ASSUME NEW f, AllOK(f), NEW d \in Ciphertexts, NEW c, CtOK(c)
  PROVE  AllOK([f EXCEPT ![d] = c])
PROOF
<1>1. c \in CtType
  BY DEF CtOK, Kept
<1> QED
  BY <1>1 DEF AllOK

LEMMA LeftOK ==
  ASSUME NEW ok, NEW old, NEW new, CtOK(old), Kept(new), ok => Good(new)
  PROVE  CtOK(Left(ok, old, new))
PROOF
<1>1. CASE ok
  BY <1>1, GoodOK DEF Left
<1>2. CASE ~ok /\ new = old
  BY <1>2 DEF Left
<1>3. CASE ~ok /\ new # old
  <2> DEFINE t == [new EXCEPT !.status = "torn"]
  <2>1. new \in CtType /\ new.sf \in Factors /\ (Flexible => new.scale = new.sf)
    BY DEF Kept
  <2>2. /\ t \in CtType /\ t.status = "torn" /\ t.sf = new.sf /\ t.scale = new.scale
    BY <2>1 DEF CtType, Status
  <2>3. Left(ok, old, new) = t
    BY <1>3 DEF Left
  <2> HIDE DEF t
  <2> QED
    BY <2>1, <2>2, <2>3 DEF CtOK, Kept
<1> QED
  BY <1>1, <1>2, <1>3

LEMMA DepositsOK ==
  ASSUME NEW f, AllOK(f), NEW d \in Ciphertexts, NEW r, r.ok => Good(r.res), Deposits(r, f, d)
  PROVE  AllOK(ct')
PROOF
<1>1. CASE r.ok
  <2>1. ct' = [f EXCEPT ![d] = r.res] /\ CtOK(r.res)
    BY <1>1, GoodOK DEF Deposits
  <2> QED
    BY <2>1, StoredOK
<1>2. CASE ~r.ok
  BY <1>2 DEF Deposits
<1> QED
  BY <1>1, <1>2

LEMMA FirstLeftOK ==
  ASSUME AllOK(ct), NEW x \in Ciphertexts, CtOK(ct[x]), NEW ok, NEW c, Kept(c), ok => Good(c)
  PROVE  AllOK([ct EXCEPT ![x] = Left(ok, @, c)])
PROOF
<1>1. CtOK(Left(ok, ct[x], c))
  BY LeftOK
<1>2. AllOK([ct EXCEPT ![x] = Left(ok, ct[x], c)])
  BY <1>1, StoredOK
<1> QED
  BY <1>2

LEMMA BothLeftOK ==
  ASSUME AllOK(ct), NEW x \in Ciphertexts, NEW y \in Ciphertexts, x # y,
         CtOK(ct[x]), CtOK(ct[y]),
         NEW ok, NEW c, NEW d, Kept(c), Kept(d), ok => Good(c) /\ Good(d)
  PROVE  AllOK([ct EXCEPT ![x] = Left(ok, @, c), ![y] = Left(ok, @, d)])
PROOF
<1> DEFINE f == [ct EXCEPT ![x] = Left(ok, @, c)]
<1>1. AllOK(f)
  BY FirstLeftOK
<1>2. f[y] = ct[y]
  BY DEF AllOK
<1>3. CtOK(Left(ok, ct[y], d))
  BY LeftOK
<1>4. [ct EXCEPT ![x] = Left(ok, @, c), ![y] = Left(ok, @, d)] = [f EXCEPT ![y] = Left(ok, ct[y], d)]
  BY <1>2
<1> HIDE DEF f
<1>5. AllOK([f EXCEPT ![y] = Left(ok, ct[y], d)])
  BY <1>1, <1>3, StoredOK
<1> QED
  BY <1>4, <1>5

LEMMA KeepsFirstOK ==
  ASSUME AllOK(ct), NEW x \in Ciphertexts, NEW d \in Ciphertexts, CtOK(ct[x]),
         NEW r, Kept(r.c1), r.ok => Good(r.c1) /\ Good(r.res), KeepsFirst(r, x, d)
  PROVE  AllOK(ct')
PROOF
<1> DEFINE f == [ct EXCEPT ![x] = Left(r.ok, @, r.c1)]
<1>1. AllOK(f)
  BY FirstLeftOK
<1>2. Deposits(r, f, d)
  BY DEF KeepsFirst
<1> HIDE DEF f
<1> QED
  BY <1>1, <1>2, DepositsOK

LEMMA KeepsBothOK ==
  ASSUME AllOK(ct), NEW x \in Ciphertexts, NEW y \in Ciphertexts, NEW d \in Ciphertexts,
         x # y, CtOK(ct[x]), CtOK(ct[y]), NEW r, SafeCall(r), KeepsBoth(r, x, y, d)
  PROVE  AllOK(ct')
PROOF
<1> DEFINE f == [ct EXCEPT ![x] = Left(r.ok, @, r.c1), ![y] = Left(r.ok, @, r.c2)]
<1>1. /\ Kept(r.c1) /\ Kept(r.c2)
      /\ r.ok => Good(r.c1) /\ Good(r.c2) /\ Good(r.res)
  BY DEF SafeCall
<1>2. AllOK(f)
  BY <1>1, BothLeftOK
<1>3. Deposits(r, f, d)
  BY DEF KeepsBoth
<1> HIDE DEF f
<1> QED
  BY <1>1, <1>2, <1>3, DepositsOK

LEMMA OnCloneOK ==
  ASSUME AllOK(ct), NEW d \in Ciphertexts, NEW o, o.ok => CtOK(o.c), OnClone(o, d)
  PROVE  AllOK(ct')
PROOF
<1>1. CASE o.ok
  BY <1>1, StoredOK DEF OnClone
<1>2. CASE ~o.ok
  BY <1>2 DEF OnClone
<1> QED
  BY <1>1, <1>2

LEMMA InPlaceOK ==
  ASSUME AllOK(ct), NEW x \in Ciphertexts, CtOK(ct[x]), NEW o, Safe(o), InPlace(o, x)
  PROVE  AllOK(ct')
PROOF
<1>1. Kept(o.c) /\ (o.ok => Good(o.c))
  BY DEF Safe
<1>2. AllOK([ct EXCEPT ![x] = Left(o.ok, @, o.c)])
  BY <1>1, FirstLeftOK
<1> QED
  BY <1>2 DEF InPlace

-----------------------------------------------------------------------------
(* The initial states, and each call.                                       *)
LEMMA InitIInv ==
  ASSUME Init
  PROVE  IInv
PROOF
<1>1. Tables
  BY InitTables
<1>2. AllOK(ct)
  BY DEF Init, AllOK
<1> QED
  BY <1>1, <1>2 DEF IInv

LEMMA UnaryStep ==
  ASSUME IInv, NEW x \in Ciphertexts, NEW d \in Ciphertexts, Unary(x, d)
  PROVE  AllOK(ct')
PROOF
<1>1. Tables /\ AllOK(ct)
  BY DEF IInv
<1>2. CASE EvalSquare(x, d)
  <2>1. /\ Good(ct[x]) /\ ct[x].deg + ct[x].deg <= MaxDeg /\ Deposits(Square(ct[x]), ct, d)
    BY <1>2, OperandGood DEF EvalSquare, Bounded
  <2>2. Square(ct[x]).ok => Good(Square(ct[x]).res)
    BY <1>1, <2>1, SquareGood
  <2> QED
    BY <1>1, <2>1, <2>2, DepositsOK
<1>3. CASE EvalSquareMutable(x, d)
  <2> DEFINE r == Square(ct[x])
  <2>1. /\ Good(ct[x]) /\ CtOK(ct[x]) /\ ct[x].deg + ct[x].deg <= MaxDeg
        /\ KeepsFirst(r, x, d)
    BY <1>3, OperandGood DEF EvalSquareMutable, Bounded
  <2>2. Kept(r.c1) /\ (r.ok => Good(r.c1) /\ Good(r.res))
    BY <1>1, <2>1, SquareGood
  <2> HIDE DEF r
  <2> QED
    BY <1>1, <2>1, <2>2, KeepsFirstOK
<1>4. CASE EvalAddConst(x, d)
  <2> DEFINE o == Returns(AddConst(ct[x]))
  <2>1. Good(ct[x]) /\ OnClone(o, d)
    BY <1>4, OperandGood DEF EvalAddConst
  <2>2. CtOK(o.c)
    BY <1>1, <2>1, AddConstGood, GoodOK DEF Returns
  <2> HIDE DEF o
  <2> QED
    BY <1>1, <2>1, <2>2, OnCloneOK
<1>5. CASE EvalMultConst(x, d)
  <2> DEFINE o == MultConst(ct[x])
  <2>1. Good(ct[x]) /\ ct[x].deg < MaxDeg /\ OnClone(o, d)
    BY <1>5, OperandGood DEF EvalMultConst
  <2>2. o.ok => CtOK(o.c)
    BY <1>1, <2>1, MultConstGood, GoodOK DEF Safe
  <2> HIDE DEF o
  <2> QED
    BY <1>1, <2>1, <2>2, OnCloneOK
<1>6. CASE ModReduce(x, d)
  <2> DEFINE o == ModReduceInPlace(ct[x])
  <2>1. Good(ct[x]) /\ ct[x].deg > 1 /\ OnClone(o, d)
    BY <1>6, OperandGood DEF ModReduce
  <2>2. o.ok => CtOK(o.c)
    BY <1>1, <2>1, ModReduceGood, GoodOK DEF Safe
  <2> HIDE DEF o
  <2> QED
    BY <1>1, <2>1, <2>2, OnCloneOK
<1>7. CASE \E towersLeft \in 1 .. SizeQ, deg \in {1, 2} : CompressCall(x, d, towersLeft, deg)
  <2>1. PICK towersLeft \in 1 .. SizeQ, deg \in {1, 2} : CompressCall(x, d, towersLeft, deg)
    BY <1>7
  <2> DEFINE o == Compress(ct[x], towersLeft, deg)
  <2>2. Good(ct[x]) /\ OnClone(o, d)
    BY <2>1, OperandGood DEF CompressCall
  <2>3. o.ok => CtOK(o.c)
    BY <1>1, <2>2, CompressGood
  <2> HIDE DEF o
  <2> QED
    BY <1>1, <2>2, <2>3, OnCloneOK
<1> QED
  BY <1>2, <1>3, <1>4, <1>5, <1>6, <1>7 DEF Unary

LEMMA ManageStep ==
  ASSUME IInv, NEW x \in Ciphertexts, Manage(x)
  PROVE  AllOK(ct')
PROOF
<1>1. Tables /\ AllOK(ct)
  BY DEF IInv
<1>2. CASE EvalMultConstInPlace(x)
  <2> DEFINE o == MultConst(ct[x])
  <2>1. Good(ct[x]) /\ CtOK(ct[x]) /\ ct[x].deg < MaxDeg /\ InPlace(o, x)
    BY <1>2, OperandGood DEF EvalMultConstInPlace
  <2>2. Safe(o)
    BY <1>1, <2>1, MultConstGood
  <2> HIDE DEF o
  <2> QED
    BY <1>1, <2>1, <2>2, InPlaceOK
<1>3. CASE RescaleInPlace(x)
  <2> DEFINE o == ModReduceInPlace(ct[x])
  <2>1. Good(ct[x]) /\ CtOK(ct[x]) /\ ct[x].deg > 1 /\ InPlace(o, x)
    BY <1>3, OperandGood DEF RescaleInPlace
  <2>2. Safe(o)
    BY <1>1, <2>1, ModReduceGood
  <2> HIDE DEF o
  <2> QED
    BY <1>1, <2>1, <2>2, InPlaceOK
<1>4. CASE \E levels \in 1 .. SizeQ : LevelReduceInPlace(x, levels)
  <2>1. PICK levels \in 1 .. SizeQ : LevelReduceInPlace(x, levels)
    BY <1>4
  <2> DEFINE o == LevelReduceInternalInPlace(ct[x], levels)
  <2>2. Manual /\ Good(ct[x]) /\ CtOK(ct[x]) /\ InPlace(o, x)
    BY <2>1, OperandGood DEF LevelReduceInPlace
  <2>3. levels \in Nat /\ ct[x].towers \in 1 .. SizeQ /\ SizeQ \in Nat
    BY <1>1, <2>2, GoodFacts, SizesAssumption
  <2>4. CASE levels < ct[x].towers
    <3>1. o.ok /\ Good(o.c)
      BY <1>1, <2>2, <2>3, <2>4, LevelReduceGood
    <3>2. Safe(o)
      BY <3>1, GoodKept DEF Safe
    <3> HIDE DEF o
    <3> QED
      BY <1>1, <2>2, <3>2, InPlaceOK
  <2>5. CASE ~(levels < ct[x].towers)
    <3>1. o = [ok |-> FALSE, c |-> ct[x]]
      BY <2>3, <2>5 DEF LevelReduceInternalInPlace, Throws
    <3>2. Safe(o)
      BY <2>2, <3>1, GoodKept DEF Safe
    <3> HIDE DEF o
    <3> QED
      BY <1>1, <2>2, <3>2, InPlaceOK
  <2> QED
    BY <2>4, <2>5
<1> QED
  BY <1>2, <1>3, <1>4 DEF Manage

LEMMA PlaintextStep ==
  ASSUME IInv, NEW x \in Ciphertexts, NEW d \in Ciphertexts, NEW p \in Plaintexts,
         WithPlaintext(x, p, d)
  PROVE  AllOK(ct')
PROOF
<1>1. Tables /\ AllOK(ct) /\ Good(p)
  BY PlaintextGood DEF IInv
<1> DEFINE r == AddOrSubPlain(ct[x], p)
           q == MultPlain(ct[x], p)
           m == Mult(ct[x], p)
<1>2. Good(ct[x]) /\ CtOK(ct[x])
  BY OperandGood DEF WithPlaintext, EvalAddPlain, EvalAddPlainMutable, EvalMultPlain,
     EvalMultPlainInPlace, EvalMultPlainMutable
<1>3. /\ Kept(r.c1)
      /\ r.ok => Good(r.c1) /\ Good(r.res)
  BY <1>1, <1>2, AddOrSubPlainGood
<1>4. Bounded(ct[x], p) => SafeCall(q) /\ SafeCall(m)
  BY <1>1, <1>2, MultGood DEF Bounded
<1> HIDE DEF r, q, m
<1>5. CASE EvalAddPlain(x, p, d)
  <2>1. Deposits(r, ct, d)
    BY <1>5 DEF EvalAddPlain, r
  <2> QED
    BY <1>1, <1>3, <2>1, DepositsOK
<1>6. CASE EvalAddPlainMutable(x, p, d)
  <2>1. KeepsFirst(r, x, d)
    BY <1>6 DEF EvalAddPlainMutable, r
  <2> QED
    BY <1>1, <1>2, <1>3, <2>1, KeepsFirstOK
<1>7. CASE EvalMultPlain(x, p, d)
  <2>1. Deposits(q, ct, d) /\ SafeCall(q)
    BY <1>4, <1>7 DEF EvalMultPlain, q
  <2> QED
    BY <1>1, <2>1, DepositsOK DEF SafeCall
<1>8. CASE EvalMultPlainInPlace(x, p)
  <2>1. KeepsFirst(q, x, x) /\ SafeCall(q)
    BY <1>4, <1>8 DEF EvalMultPlainInPlace, q
  <2> QED
    BY <1>1, <1>2, <2>1, KeepsFirstOK DEF SafeCall
<1>9. CASE EvalMultPlainMutable(x, p, d)
  <2>1. KeepsFirst(m, x, d) /\ SafeCall(m)
    BY <1>4, <1>9 DEF EvalMultPlainMutable, m
  <2> QED
    BY <1>1, <1>2, <2>1, KeepsFirstOK DEF SafeCall
<1> QED
  BY <1>5, <1>6, <1>7, <1>8, <1>9 DEF WithPlaintext

LEMMA BinaryStep ==
  ASSUME IInv, NEW x \in Ciphertexts, NEW y \in Ciphertexts, NEW d \in Ciphertexts,
         Binary(x, y, d)
  PROVE  AllOK(ct')
PROOF
<1>1. Tables /\ AllOK(ct)
  BY DEF IInv
<1> DEFINE s == AddOrSub(ct[x], ct[y])
           m == Mult(ct[x], ct[y])
<1>2. Good(ct[x]) /\ CtOK(ct[x]) /\ Good(ct[y]) /\ CtOK(ct[y])
  <2>1. Operand(x) /\ Operand(y)
    BY DEF Binary, EvalAdd, EvalAddInPlace, EvalAddMutable, EvalMult, EvalMultMutable,
       ComposedEvalMult, EvalLinearWSumMutable, Addable
  <2> QED
    BY <2>1, OperandGood
<1>3. Addable(x, y) => SafeCall(s)
  BY <1>1, <1>2, AddOrSubGood DEF Addable
<1>4. Bounded(ct[x], ct[y]) => SafeCall(m) /\ (m.ok => m.res.deg > 1)
  BY <1>1, <1>2, MultGood DEF Bounded
<1> HIDE DEF s, m
<1>5. CASE EvalAdd(x, y, d)
  <2>1. Deposits(s, ct, d) /\ SafeCall(s)
    BY <1>3, <1>5 DEF EvalAdd, s
  <2> QED
    BY <1>1, <2>1, DepositsOK DEF SafeCall
<1>6. CASE EvalAddInPlace(x, y)
  <2>1. KeepsFirst(s, x, x) /\ SafeCall(s)
    BY <1>3, <1>6 DEF EvalAddInPlace, s
  <2> QED
    BY <1>1, <1>2, <2>1, KeepsFirstOK DEF SafeCall
<1>7. CASE EvalAddMutable(x, y, d)
  <2>1. KeepsBoth(s, x, y, d) /\ SafeCall(s) /\ x # y
    BY <1>3, <1>7 DEF EvalAddMutable, s
  <2> QED
    BY <1>1, <1>2, <2>1, KeepsBothOK
<1>8. CASE EvalMult(x, y, d)
  <2>1. Deposits(m, ct, d) /\ SafeCall(m)
    BY <1>4, <1>8 DEF EvalMult, m
  <2> QED
    BY <1>1, <2>1, DepositsOK DEF SafeCall
<1>9. CASE EvalMultMutable(x, y, d)
  <2>1. KeepsBoth(m, x, y, d) /\ SafeCall(m) /\ x # y
    BY <1>4, <1>9 DEF EvalMultMutable, m
  <2> QED
    BY <1>1, <1>2, <2>1, KeepsBothOK
<1>10. CASE ComposedEvalMult(x, y, d)
  <2> DEFINE o == RescaleProduct(m)
  <2>1. OnClone(o, d) /\ SafeCall(m) /\ (m.ok => m.res.deg > 1)
    BY <1>4, <1>10 DEF ComposedEvalMult, m
  <2>2. o = IF m.ok THEN ModReduceInPlace(m.res) ELSE [ok |-> FALSE, c |-> m.c1]
    BY DEF RescaleProduct, Throws
  <2> HIDE DEF o
  <2>3. o.ok => CtOK(o.c)
    <3>1. CASE m.ok
      <4>1. Good(m.res) /\ m.res.deg > 1
        BY <2>1, <3>1 DEF SafeCall
      <4>2. Safe(ModReduceInPlace(m.res))
        BY <1>1, <4>1, ModReduceGood
      <4> QED
        BY <2>2, <3>1, <4>2, GoodOK DEF Safe
    <3>2. CASE ~m.ok
      BY <2>2, <3>2
    <3> QED
      BY <3>1, <3>2
  <2> QED
    BY <1>1, <2>1, <2>3, OnCloneOK
<1>11. CASE EvalLinearWSumMutable(x, y)
  <2> DEFINE w == EvalLinearWSum(ct[x], ct[y])
  <2>1. /\ x # y /\ ct[x].deg < MaxDeg /\ LeavesBoth(w, x, y)
        /\ Manual => ct[x].deg = ct[y].deg
    BY <1>11 DEF EvalLinearWSumMutable, Addable
  <2>2. KeptBoth(w) /\ (w.ok => Good(w.c1) /\ Good(w.c2))
    BY <1>1, <1>2, <2>1, LinearWSumGood
  <2> HIDE DEF w
  <2>3. AllOK([ct EXCEPT ![x] = Left(w.ok, @, w.c1), ![y] = Left(w.ok, @, w.c2)])
    BY <1>1, <1>2, <2>1, <2>2, BothLeftOK DEF KeptBoth
  <2> QED
    BY <2>1, <2>3 DEF LeavesBoth
<1> QED
  BY <1>5, <1>6, <1>7, <1>8, <1>9, <1>10, <1>11 DEF Binary

LEMMA NextIInv ==
  ASSUME IInv, [Next]_vars
  PROVE  IInv'
PROOF
<1>1. Tables /\ AllOK(ct)
  BY DEF IInv
<1>2. CASE Next
  <2>1. UNCHANGED params
    BY <1>2 DEF Next
  <2>2. AllOK(ct')
    <3>1. ASSUME NEW d \in Ciphertexts, NEW p \in Plaintexts, Encrypt(d, p)
          PROVE  AllOK(ct')
      <4>1. ct' = [ct EXCEPT ![d] = p] /\ CtOK(p)
        BY <1>1, <3>1, PlaintextGood, GoodOK DEF Encrypt
      <4> QED
        BY <1>1, <4>1, StoredOK
    <3> QED
      BY <1>2, <3>1, UnaryStep, ManageStep, PlaintextStep, BinaryStep DEF Next
  <2> QED
    BY <1>1, <2>1, <2>2, Carried
<1>3. CASE UNCHANGED vars
  <2>1. UNCHANGED params /\ ct' = ct
    BY <1>3 DEF vars, params
  <2> QED
    BY <1>1, <2>1, Carried
<1> QED
  BY <1>2, <1>3

LEMMA Invariance == Spec => []IInv
PROOF
<1>1. Init => IInv
  BY InitIInv
<1>2. IInv /\ [Next]_vars => IInv'
  BY NextIInv
<1> QED
  BY <1>1, <1>2, PTL DEF Spec

-----------------------------------------------------------------------------
(* The tables and the ciphertexts keep their types: no operation takes the  *)
(* last tower of a ciphertext or exceeds the degree bound.                  *)
THEOREM TypeCorrect == Spec => []TypeOK
PROOF
<1>1. IInv => TypeOK
  BY DEF IInv, Tables, AllOK, TypeOK
<1> QED
  BY <1>1, Invariance, PTL

(* The level of a ciphertext counts the moduli dropped from its             *)
(* polynomials, for every technique, unless a call threw on it midway.      *)
THEOREM TowersFollowLevel == Spec => []TowersMatchLevel
PROOF
<1>1. IInv => TowersMatchLevel
  BY DEF IInv, AllOK, CtOK, Aligned, TowersMatchLevel
<1> QED
  BY <1>1, Invariance, PTL

(* With the automatic techniques operands have the degrees and levels that  *)
(* AdjustLevelsAndDepthInPlace distinguishes, whatever calls came before.   *)
THEOREM DegreesAdjustable == Spec => []DegreeOneOrTwo
PROOF
<1>1. IInv => DegreeOneOrTwo
  <2> SUFFICES ASSUME IInv, ~Manual, NEW x \in Ciphertexts, Operand(x)
               PROVE  ct[x].deg \in {1, 2} /\ ct[x].level % Degree = 0
    BY DEF DegreeOneOrTwo
  <2>1. AutoGood(ct[x])
    BY OperandGood DEF Good
  <2> QED
    BY <2>1 DEF AutoGood
<1> QED
  BY <1>1, Invariance, PTL

(* With the automatic techniques level and degree determine the factor of   *)
(* an operand: the one plaintexts and constants are encoded with.  It holds *)
(* for FIXEDAUTO too, whose polynomials may have another scale.             *)
THEOREM FactorsFromTable == Spec => []ScalesFromTable
PROOF
<1>1. IInv => ScalesFromTable
  <2> SUFFICES ASSUME IInv, ~Manual, NEW x \in Ciphertexts, ct[x] # NoCt,
                      ct[x].status = "operand"
               PROVE  ct[x].sf = GetElementForEvalAddOrSub(ct[x])
    BY DEF ScalesFromTable
  <2>1. AutoGood(ct[x])
    BY DEF IInv, AllOK, CtOK
  <2> QED
    BY <2>1 DEF AutoGood, Elem, GetElementForEvalAddOrSub
<1> QED
  BY <1>1, Invariance, PTL

(* Decode divides by the scale that the polynomials have: after every       *)
(* sequence of calls and, with the FLEXIBLE techniques, for what a call     *)
(* that threw left.                                                         *)
THEOREM DecodesWithScale == DecodableTechniques /\ Spec => []DecodesRight
PROOF
<1>1. SUFFICES ASSUME DecodableTechniques
               PROVE  Spec => []DecodesRight
  OBVIOUS
<1>2. IInv => DecodesRight
  <2> SUFFICES ASSUME IInv, NEW x \in Ciphertexts, ct[x] # NoCt,
                      Fits(ct[x]), ct[x].status = "torn" => Flexible
               PROVE  ct[x].scale = DecodeFactor(ct[x])
    BY DEF DecodesRight
  <2> DEFINE c == ct[x]
  <2>1. CtOK(c) /\ scalTechnique \in Techniques
    BY DEF IInv, AllOK, Tables
  <2> HIDE DEF c
  <2>2. c \in CtType /\ (Flexible => c.scale = c.sf)
    BY <2>1 DEF CtOK, Kept
  <2>3. CASE Flexible
    BY <2>2, <2>3 DEF DecodeFactor, c
  <2>4. CASE ~Flexible
    <3>1. scalTechnique = "FIXEDMANUAL" /\ Manual /\ FirstRoom = 1 /\ Degree = 1
      <4>1. scalTechnique \in {"FIXEDMANUAL", "FIXEDAUTO"} /\ Degree = 1
        BY <2>1, <2>4, DegreeFacts
      <4> QED
        BY <1>1, <2>1, <4>1 DEF DecodableTechniques, Manual
    <3>2. c.deg >= 1 /\ c.scale = Power(TwoToP, c.deg)
      BY <2>1, <2>4, <3>1 DEF CtOK, ManualGood, c
    <3>3. CASE c.towers = 1
      <4>1. c.deg = 1
        <5>1. 1 * (c.deg - 1) <= 1 - 1
          BY <3>1, <3>3 DEF Fits, c
        <5>2. c.deg \in Int
          BY <2>2, SizesAssumption DEF CtType
        <5> QED
          BY <3>2, <5>1, <5>2
      <4>2. c.scale = TwoToP
        BY <3>2, <4>1, PowerFacts, FactorsAssumption
      <4> QED
        BY <2>4, <3>3, <4>2 DEF DecodeFactor, c
    <3>4. CASE c.towers # 1
      BY <2>4, <3>2, <3>4 DEF DecodeFactor, c
    <3> QED
      BY <3>3, <3>4
  <2> QED
    BY <2>3, <2>4
<1> QED
  BY <1>2, Invariance, PTL
=============================================================================
