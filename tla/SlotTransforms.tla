--------------------------- MODULE SlotTransforms ---------------------------
(* The homomorphic encoding and decoding of CKKS bootstrapping              *)
(* (pke/lib/scheme/ckksrns/ckksrns-fhe.cpp and ckksrns-utils.cpp): the      *)
(* factorisation of the special Fourier transform into a level budget, the  *)
(* plaintexts prepared for each level, their baby-step giant-step           *)
(* evaluation on a ciphertext, and the rotations keys are generated for.    *)
(*                                                                          *)
(* A complex number is a pair <<re, im>> of integers modulo the prime P,    *)
(* with P + 1 a power of two: i is a root of x^2 = -1, conjugation negates  *)
(* the second component, and the elements of norm 1 are a cyclic group of   *)
(* P + 1 elements, which holds the roots of unity the transforms use. A     *)
(* ciphertext is the vector of its M/4 slots; a rotation key is its index.  *)
EXTENDS Integers, Sequences, FiniteSets

CONSTANTS P,    \* the prime
          M4    \* slots of a fully packed ciphertext: a quarter of the cyclotomic order

ASSUME PlaneAssumption == P \in Nat /\ P > 2 /\ P % 4 = 3
ASSUME M4Assumption == M4 \in Nat \ {0, 1} /\ (P + 1) % (4 * M4) = 0

----------------------------------------------------------------------------
(* The complex plane.                                                       *)
Zero == <<0, 0>>
One == <<1, 0>>
I == <<0, 1>>
Plus(a, b) == <<(a[1] + b[1]) % P, (a[2] + b[2]) % P>>
Times(a, b) == <<(a[1] * b[1] - a[2] * b[2]) % P, (a[1] * b[2] + a[2] * b[1]) % P>>
Minus(a) == <<(-a[1]) % P, (-a[2]) % P>>
Conj(a) == <<a[1], (-a[2]) % P>>

\* the same function, evaluated once
Table(f) == CHOOSE g \in {f} : TRUE

Power(u, n) ==
    LET w[k \in 0..n] == IF k = 0 THEN One
                         ELSE LET h == w[k \div 2] IN
                              IF k % 2 = 0 THEN Times(h, h) ELSE Times(u, Times(h, h))
    IN  w[n]

\* the powers of the root of unity of order P + 1 whose quarter turn is i
Circle ==
    LET u == CHOOSE z \in (0..(P - 1)) \X (0..(P - 1)) :
               Times(z, Conj(z)) = One /\ Power(z, (P + 1) \div 4) = I
    IN  Table([k \in 0..P |-> Power(u, k)])

\* exp(2 * M_PI * j / m)
Root(m, j) == Circle[(j % m) * ((P + 1) \div m)]

----------------------------------------------------------------------------
(* Vectors: functions on 0..n-1.                                            *)
Total(n, f(_)) == LET s[k \in 0..n] == IF k = 0 THEN Zero ELSE Plus(s[k - 1], f(k - 1)) IN s[n]
Add(v, w) == [k \in DOMAIN v |-> Plus(v[k], w[k])]
Scale(c, v) == [k \in DOMAIN v |-> Times(c, v[k])]
Periodic(v, n) == [k \in 0..(n - 1) |-> v[k % Cardinality(DOMAIN v)]]

\* 1 << n, what the levels and their rotations are laid out by
TwoTo(n) == LET pow[k \in 0..n] == IF k = 0 THEN 1 ELSE 2 * pow[k - 1] IN pow[n]
Log2(n) == CHOOSE l \in 0..n : TwoTo(l) <= n /\ n < TwoTo(l + 1)
CeilDivide(a, b) == (a + b - 1) \div b

\* slots is a power of two: index >> n and << n on a negative index go through its absolute value
ReduceRotation(index, slots) ==
    IF index >= 0 THEN index - (index \div slots) * slots
                  ELSE index + slots + ((-index) \div slots) * slots

Rotate(v, index) ==
    LET n == Cardinality(DOMAIN v)
        i == IF index < 0 \/ index > n THEN ReduceRotation(index, n) ELSE index
    IN  [k \in DOMAIN v |-> v[(k + i) % n]]

----------------------------------------------------------------------------
(* Splitting the layers of the transform over the level budget.             *)
SelectLayers(logSlots, budget) ==
    LET l == CeilDivide(logSlots, budget)
        Rem(rows, layers) == logSlots - rows * layers
        Dim(rows, layers) == rows + IF Rem(rows, layers) # 0 THEN 1 ELSE 0
        Split(rows, layers) == [layers |-> layers, rows |-> rows, rem |-> Rem(rows, layers)]
    IN  IF Dim(logSlots \div l, l) >= budget THEN Split(logSlots \div l, l)
        ELSE \* one layer less per level, then the first number of rows that fits the budget
             LET first == logSlots \div (l - 1)
                 fits == {r \in 0..first : Dim(r, l - 1) = budget}
             IN  IF Dim(first, l - 1) <= budget THEN Split(first, l - 1)
                 ELSE Split(CHOOSE r \in fits : \A s \in fits : s <= r, l - 1)

LogSlots(slots) == IF slots < 3 THEN 1 ELSE Log2(slots)

\* giant step for n = 2^(layers + 1) - 1 rotations
GiantStep(layers) == TwoTo(layers \div 2 + 1 + IF TwoTo(layers + 1) - 1 > 7 THEN 1 ELSE 0)

NoParams == [lvlb |-> 0, layersCollapse |-> 0, remCollapse |-> 0, numRotations |-> 0,
             b |-> 0, g |-> 0, numRotationsRem |-> 0, bRem |-> 0, gRem |-> 0]

GetCollapsedFFTParams(slots, levelBudget, dim1) ==
    LET dims == SelectLayers(LogSlots(slots), levelBudget)
        num == TwoTo(dims.layers + 1) - 1
        numRem == TwoTo(dims.rem + 1) - 1
        step == IF dim1 = 0 \/ dim1 > num THEN GiantStep(dims.layers) ELSE dim1
        stepRem == IF dims.rem # 0 THEN GiantStep(dims.rem) ELSE 0
    IN  [lvlb |-> levelBudget, layersCollapse |-> dims.layers, remCollapse |-> dims.rem,
         numRotations |-> num, b |-> (num + 1) \div step, g |-> step,
         numRotationsRem |-> numRem,
         bRem |-> IF dims.rem # 0 THEN (numRem + 1) \div stepRem ELSE 0, gRem |-> stepRem]

\* the levels of a transform, the remaining layers apart: they are level 0 when
\* encoding and the last level when decoding
FlagRem(p) == IF p.remCollapse = 0 THEN 0 ELSE 1
\* mutant: the remaining layers come last when encoding too
ScaleOfDecoding(p, s) == TwoTo((s - FlagRem(p)) * p.layersCollapse)
EncodingScale(p, s) == TwoTo((s - FlagRem(p)) * p.layersCollapse + p.remCollapse)
DecodingScale(p, s) == TwoTo(s * p.layersCollapse)
Level(layers, base, scale, num, b, g) ==
    [layers |-> layers, base |-> base, scale |-> scale, num |-> num, b |-> b, g |-> g]

\* mutant: the remaining layers are forgotten
WholeLevels(p) ==
    [n \in 1..(p.lvlb - FlagRem(p)) |->
       LET s == p.lvlb - n IN
       Level(p.layersCollapse, p.layersCollapse * (s + 1 - FlagRem(p)) + p.remCollapse - 1,
             EncodingScale(p, s), p.numRotations, p.b, p.g)]
\* in the order they are evaluated; base is the layer the collapse starts from
EncodingLevels(p) ==
    LET whole == [n \in 1..(p.lvlb - FlagRem(p)) |->
                    LET s == p.lvlb - n IN
                    Level(p.layersCollapse,
                          p.layersCollapse * (s + 1 - FlagRem(p)) + p.remCollapse - 1,
                          EncodingScale(p, s), p.numRotations, p.b, p.g)]
        rest == Level(p.remCollapse, p.remCollapse - 1, 1, p.numRotationsRem, p.bRem, p.gRem)
    IN  IF FlagRem(p) = 1 THEN Append(whole, rest) ELSE whole
DecodingLevels(p) ==
    LET smax == p.lvlb - FlagRem(p)
        whole == [n \in 1..smax |->
                    Level(p.layersCollapse, (n - 1) * p.layersCollapse, DecodingScale(p, n - 1),
                          p.numRotations, p.b, p.g)]
        rest == Level(p.remCollapse, smax * p.layersCollapse, DecodingScale(p, smax),
                      p.numRotationsRem, p.bRem, p.gRem)
    IN  IF FlagRem(p) = 1 THEN Append(whole, rest) ELSE whole

----------------------------------------------------------------------------
(* The coefficients of one layer: the input shifted right (0), not shifted  *)
(* (1) and shifted left (2).                                                *)
RotGroup(slots) ==
    LET r[i \in 0..slots] == IF i = 0 THEN 1 ELSE (5 * r[i - 1]) % (4 * slots) IN Table(r)

CoeffEncodingOneLevel(slots, flag_i) ==
    LET group == RotGroup(slots)
    IN  Table([t \in 0..2, s \in 0..(Log2(slots) - 1) |->
          LET m == 2^(s + 1)
              h == 2^s
              b == IF flag_i /\ m = 2 THEN Minus(I) ELSE One
              w(j) == Times(b, Root(4 * m, 4 * m - (group[j] % (4 * m))))
          IN  [k \in 0..(slots - 1) |->
                 LET j == k % m IN
                 IF j < h THEN (IF t = 0 THEN Zero ELSE b)
                 ELSE CASE t = 0 -> w(j - h) [] t = 1 -> Minus(w(j - h)) [] OTHER -> Zero]])

CoeffDecodingOneLevel(slots, flag_i) ==
    LET group == RotGroup(slots)
    IN  Table([t \in 0..2, s \in 0..(Log2(slots) - 1) |->
          LET m == 2^(s + 1)
              h == 2^s
              b == IF flag_i /\ m = 2 THEN I ELSE One
              w(j) == Times(b, Root(4 * m, group[j] % (4 * m)))
          IN  [k \in 0..(slots - 1) |->
                 LET j == k % m IN
                 IF j >= h THEN CASE t = 0 -> b [] t = 1 -> Minus(w(j - h)) [] OTHER -> Zero
                 ELSE CASE t = 0 -> Zero [] t = 1 -> b [] OTHER -> w(j)]])

\* the diagonals of the layers base, base - 1, ... collapsed into one level
CoeffEncodingCollapse(slots, flag_i, level) ==
    LET one == CoeffEncodingOneLevel(slots, flag_i)
        c[l \in 0..(level.layers - 1)] ==
            IF l = 0 THEN [d \in 0..2 |-> one[d, level.base]]
            ELSE LET temp == c[l - 1]
                     shift == 2^(level.base - l)
                     from(d, t) == (d - t) \div 2
                     reached(d, t) == (d - t) % 2 = 0 /\ from(d, t) \in DOMAIN temp
                 IN  Table([d \in 0..(2^(l + 2) - 2) |-> [k \in 0..(slots - 1) |->
                        Total(3, LAMBDA t : IF ~reached(d, t) THEN Zero
                                 ELSE Times(one[t, level.base - l][k],
                                            temp[from(d, t)][ReduceRotation(k + (t - 1) * shift, slots)]))]])
    IN  c[level.layers - 1]

CoeffDecodingCollapse(slots, flag_i, level) ==
    LET one == CoeffDecodingOneLevel(slots, flag_i)
        c[l \in 0..(level.layers - 1)] ==
            IF l = 0 THEN [d \in 0..2 |-> one[d, level.base]]
            ELSE LET temp == c[l - 1]
                     shift(t) == CASE t = 0 -> 0 [] t = 1 -> 2^l [] OTHER -> 2^(l + 1)
                 IN  Table([d \in 0..(2^(l + 2) - 2) |-> [k \in 0..(slots - 1) |->
                        Total(3, LAMBDA t : IF (d - shift(t)) \notin DOMAIN temp THEN Zero
                                 ELSE Times(one[t, level.base + l][k], temp[d - shift(t)][k]))]])
    IN  c[level.layers - 1]

----------------------------------------------------------------------------
(* The plaintexts of a level: each diagonal is rotated back by the giant    *)
(* step it is evaluated with. A sparse packing joins the diagonals of the   *)
(* real and of the imaginary parts.                                         *)
Join(v, w) ==
    LET n == Cardinality(DOMAIN v)
    IN  [k \in 0..(2 * n - 1) |-> IF k < n THEN v[k] ELSE w[k - n]]

\* width: one set of coefficients per slot, or two
Wide(slots, flagPack) == ~(slots = M4 \/ flagPack)

EvalCoeffsToSlotsPrecompute(slots, p, flagPack) ==
    Table([n \in DOMAIN EncodingLevels(p) |->
        LET level == EncodingLevels(p)[n]
            coeff == CoeffEncodingCollapse(slots, FALSE, level)
            coeffi == CoeffEncodingCollapse(slots, TRUE, level)
        IN  Table([ij \in 0..(level.num - 1) |->
               LET back == -level.scale * level.g * (ij \div level.g)
               IN  IF Wide(slots, flagPack) THEN Rotate(Join(coeff[ij], coeffi[ij]), ReduceRotation(back, M4))
                   ELSE Rotate(coeff[ij], ReduceRotation(back, slots))])])

EvalSlotsToCoeffsPrecompute(slots, p, flagPack) ==
    Table([n \in DOMAIN DecodingLevels(p) |->
        LET level == DecodingLevels(p)[n]
            coeff == CoeffDecodingCollapse(slots, FALSE, level)
            coeffi == CoeffDecodingCollapse(slots, TRUE, level)
            remaining == FlagRem(p) = 1 /\ n = p.lvlb
            \* the remaining layers of a sparse packing are rotated by the giant step g of the others
            step == IF remaining /\ Wide(slots, flagPack) THEN p.g ELSE level.g
        IN  Table([ij \in 0..(level.num - 1) |->
               LET back == -level.scale * step * (ij \div level.g)
               IN  IF Wide(slots, flagPack) THEN Rotate(Join(coeff[ij], coeffi[ij]), ReduceRotation(back, M4))
                   ELSE Rotate(coeff[ij], ReduceRotation(back, slots))])])

\* U0 of the special Fourier transform, its product with i, and their conjugate transposes
U0(slots) ==
    LET group == RotGroup(slots)
    IN  Table([i \in 0..(slots - 1), j \in 0..(slots - 1) |-> Root(4 * slots, j * group[i])])
U0hatT(slots) ==
    LET u == U0(slots) IN [j \in 0..(slots - 1), i \in 0..(slots - 1) |-> Conj(u[i, j])]

ExtractShiftedDiagonal(A, rows, cols, index) ==
    [k \in 0..(cols - 1) |-> A[k % rows, (k + index) % cols]]

\* m_U0Pre: U0, or U0 and U1 = i U0 side by side; its diagonals, each turned back by its giant step
LinearDecoding(slots, g, pair) ==
    LET u == U0(slots)
        U == [i \in 0..(slots - 1), j \in 0..(2 * slots - 1) |->
                IF j < slots THEN u[i, j] ELSE Times(I, u[i, j - slots])]
        diagonal(ji) == ExtractShiftedDiagonal(IF pair THEN U ELSE u, slots, IF pair THEN 2 * slots ELSE slots, ji)
    IN  Table([ji \in 0..(slots - 1) |-> Rotate(diagonal(ji), -g * (ji \div g))])
\* m_U0hatTPre: U0hatT, or U0hatT above U1hatT
LinearEncoding(slots, g, pair) ==
    LET H0 == Table(U0hatT(slots))
        H1 == [ij \in DOMAIN H0 |-> Times(Minus(I), H0[ij])]
        diagonal(ji) ==
            LET first == ExtractShiftedDiagonal(H0, slots, slots, ji) IN
            IF pair THEN Join(first, ExtractShiftedDiagonal(H1, slots, slots, ji)) ELSE first
    IN  Table([ji \in 0..(slots - 1) |-> Rotate(diagonal(ji), -g * (ji \div g))])

----------------------------------------------------------------------------
(* Evaluation on a ciphertext, and the rotations it asks keys for.          *)

\* the sum over giant steps of the rotated sums over baby steps
BabyStepGiantStep(ct, plain, level, rotIn, rotOut) ==
    LET turned == Table([j \in 0..(level.g - 1) |-> Rotate(ct, rotIn[j])])
        Used(d) == d # level.num /\ d \in DOMAIN plain
        Inner(i) == Table([k \in DOMAIN ct |->
                       Total(level.g, LAMBDA j : IF ~Used(level.g * i + j) THEN Zero
                                      ELSE LET a == plain[level.g * i + j] IN
                                           Times(a[k % Cardinality(DOMAIN a)], turned[j][k]))])
        parts == Table([i \in 0..(level.b - 1) |-> Rotate(Inner(i), rotOut[i])])
    IN  Table([k \in DOMAIN ct |-> Total(level.b, LAMBDA i : parts[i][k])])

RotIn(level, j, n) == ReduceRotation(level.scale * (j - ((level.num + 1) \div 2 - 1)), n)
RotOut(level, i) == ReduceRotation(level.scale * level.g * i, M4)

\* the levels one after the other; n: what baby steps are reduced by
EvalLevels(ct, plain, levels, n) ==
    LET c[s \in 0..Len(levels)] ==
          IF s = 0 THEN ct
          ELSE BabyStepGiantStep(c[s - 1], plain[s], levels[s],
                                 [j \in 0..(levels[s].g - 1) |-> RotIn(levels[s], j, n)],
                                 [i \in 0..(levels[s].b - 1) |-> RotOut(levels[s], i)])
    IN  c[Len(levels)]
EvalCoeffsToSlots(plain, ct, slots, p) == EvalLevels(ct, plain, EncodingLevels(p), slots)
EvalSlotsToCoeffs(plain, ct, p) == EvalLevels(ct, plain, DecodingLevels(p), M4)

RotationsOf(levels, n) ==
    UNION {{RotIn(levels[s], j, n) : j \in 0..(levels[s].g - 1)}
           \cup {RotOut(levels[s], i) : i \in 1..(levels[s].b - 1)} : s \in DOMAIN levels}

LinearLevel(slots, g) == Level(1, 0, 1, slots, CeilDivide(slots, g), g)
EvalLinearTransform(plain, ct, slots, g) ==
    LET level == LinearLevel(slots, g)
    IN  BabyStepGiantStep(ct, plain, level, [j \in 0..(g - 1) |-> j], [i \in 0..(level.b - 1) |-> g * i])
LinearRotations(slots, g) == 1..(g - 1) \cup {g * j : j \in 1..(CeilDivide(slots, g) - 1)}

\* summing a sparse ciphertext over its copies
PartialSums(slots) == {TwoTo(e) * slots : e \in {x \in 0..Log2(M4) : TwoTo(x) < M4 \div slots}}
PartialSum(ct, slots) ==
    LET c[e \in 0..Log2(M4 \div slots)] ==
          IF e = 0 THEN ct ELSE Add(c[e - 1], Rotate(c[e - 1], 2^(e - 1) * slots))
    IN  c[Log2(M4 \div slots)]

----------------------------------------------------------------------------
(* The rotations keys are generated for.                                    *)
IsLTBootstrap(enc, dec) == enc.lvlb = 1 /\ dec.lvlb = 1

FindLinearTransformRotationIndices(slots, enc) ==
    1..enc.g \cup {i * enc.g : i \in 2..(CeilDivide(slots, enc.g) - 1)} \cup PartialSums(slots)

\* mutant: the baby steps start one rotation late
IndicesLate(scale, num, b, g, n) ==
    LET half == 2 - (num + 1) \div 2
    IN  {ReduceRotation(j * scale, n) : j \in half..(half + g - 1)}
        \cup {ReduceRotation(i * g * scale, M4) : i \in 0..(b - 1)}
Indices(scale, num, b, g, n) ==
    LET half == 1 - (num + 1) \div 2
    IN  {ReduceRotation(j * scale, n) : j \in half..(half + g - 1)}
        \cup {ReduceRotation(i * g * scale, M4) : i \in 0..(b - 1)}

FindCoeffsToSlotsRotationIndices(slots, p) ==
    PartialSums(slots)
    \cup (UNION {Indices(EncodingScale(p, s), p.numRotations, p.b, p.g, slots) : s \in FlagRem(p)..(p.lvlb - 1)})
    \cup IF FlagRem(p) = 1 THEN Indices(1, p.numRotationsRem, p.bRem, p.gRem, slots) ELSE {}

FindSlotsToCoeffsRotationIndices(slots, p) ==
    LET smax == p.lvlb - FlagRem(p)
    IN  PartialSums(slots)
        \cup (UNION {Indices(DecodingScale(p, s), p.numRotations, p.b, p.g, M4) : s \in 0..(smax - 1)})
        \cup IF FlagRem(p) = 1 THEN Indices(DecodingScale(p, smax), p.numRotationsRem, p.bRem, p.gRem, M4)
             ELSE {}

FindBootstrapRotationIndices(slots, enc, dec) ==
    ((IF IsLTBootstrap(enc, dec) THEN FindLinearTransformRotationIndices(slots, enc)
      ELSE FindCoeffsToSlotsRotationIndices(slots, enc) \cup FindSlotsToCoeffsRotationIndices(slots, dec))
     \cup {slots}) \ {0, M4}
=============================================================================
