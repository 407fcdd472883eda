--------------------------- MODULE CKKSLeveledSHE ---------------------------
(* The leveled operations of CKKS in RNS form.  A ciphertext carries its    *)
(* level, a noise scale degree and a real scaling factor; its polynomials   *)
(* hold the message times a scale.  Operations change the polynomials and   *)
(* the three tracked values in separate statements, adjust operands of two  *)
(* levels and degrees to one another, and may throw in between.  Decode     *)
(* divides by a factor it derives from the tracked values alone.            *)
(*                                                                          *)
(* Polynomials are abstracted to their scale.  Scaling factors are          *)
(* multiplied, divided and compared, never added, so a finite field stands  *)
(* for the reals: Zero is the scale of a sum of unequal scales, of which no *)
(* factor makes a message again.  For FIXEDMANUAL and FIXEDAUTO, where the  *)
(* moduli approximate 2^p, each counts as 2^p.  Noise, and the precision    *)
(* that roundings cost, are left out.                                       *)
EXTENDS Integers

CONSTANTS
  Techniques,       \* scaling techniques a context may have
  SizeQ,            \* number of RNS moduli q_0 .. q_{SizeQ-1}
  moduliQ,          \* q_i as a factor
  TwoToP,           \* 2^p, p the scaling modulus size
  CompositeDegree,  \* moduli per scaling factor in composite scaling
  FirstRoom,        \* scaling factors that the first modulus has room for
  EncodeLevels,     \* levels at which the application encodes
  Ciphertexts,      \* its ciphertext variables
  MaxDeg,           \* bound on the degree of a product
  NoCt,             \* an unset ciphertext variable
  Factors, Zero, One,
  Times(_, _), Over(_, _)

COMPOSITE == {"COMPOSITESCALINGAUTO", "COMPOSITESCALINGMANUAL"}
FLEXIBLE == {"FLEXIBLEAUTO", "FLEXIBLEAUTOEXT"} \cup COMPOSITE
Levels == 0 .. SizeQ - 1

ASSUME TechniquesAssumption ==
  /\ Techniques \subseteq FLEXIBLE \cup {"FIXEDMANUAL", "FIXEDAUTO"}
  /\ Techniques \cap COMPOSITE /= {} => SizeQ % CompositeDegree = 0
ASSUME SizesAssumption ==
  /\ SizeQ \in Nat /\ SizeQ > 2
  /\ CompositeDegree \in 1 .. 4 /\ FirstRoom \in {1, 2}
  /\ EncodeLevels \subseteq Levels /\ MaxDeg \in Nat /\ MaxDeg >= 2
ASSUME FactorsAssumption ==
  /\ One \in Factors /\ TwoToP \in Factors /\ moduliQ \in [Levels -> Factors]
  /\ \A a, b \in Factors :
       /\ Times(a, b) \in Factors /\ Over(a, b) \in Factors
       /\ Times(a, b) = Times(b, a) /\ Times(One, a) = a
       /\ Times(Over(a, b), b) = a /\ Over(Times(a, b), b) = a
       /\ Times(a, Zero) = Zero /\ Times(Zero, a) = Zero /\ Over(Zero, a) = Zero
  /\ \A a, b, c \in Factors : Times(Times(a, b), c) = Times(a, Times(b, c))
  /\ Times(Zero, Zero) = Zero

Status == {"operand", "compressed", "torn"}
CtType ==
  [level : 0 .. SizeQ + CompositeDegree - 1, towers : 1 .. SizeQ, deg : 0 .. MaxDeg,
   sf : Factors \cup {Zero}, scale : Factors \cup {Zero}, status : Status]

VARIABLES
  scalTechnique,            \* of the context
  m_scalingFactorsReal,
  m_scalingFactorsRealBig,
  ct                        \* the ciphertext variables

params == <<scalTechnique, m_scalingFactorsReal, m_scalingFactorsRealBig>>
vars == <<scalTechnique, m_scalingFactorsReal, m_scalingFactorsRealBig, ct>>

-----------------------------------------------------------------------------
(* The tables and their getters.                                            *)

Composite == scalTechnique \in COMPOSITE
Flexible == scalTechnique \in FLEXIBLE
Ext == scalTechnique = "FLEXIBLEAUTOEXT"
Manual == scalTechnique = "FIXEDMANUAL"
Degree == IF Composite THEN CompositeDegree ELSE 1      \* GetCompositeDegree

(* The product of n factors g[1], ..., g[n]; of n equal factors; of the n   *)
(* moduli q_i, q_{i-1}, ...                                                 *)
Product(g, n) ==
  LET prod[j \in 0 .. n] == IF j = 0 THEN One ELSE Times(prod[j - 1], g[j])
  IN  prod[n]
Power(f, n) == Product([j \in 1 .. n |-> f], n)
ModuliProduct(i, n) == Product([j \in 1 .. n |-> moduliQ[i - j + 1]], n)

(* Each level's factor is what rescaling a square of the previous one       *)
(* gives; FLEXIBLEAUTOEXT starts with an extra modulus of another size.     *)
PrecomputeReal(tech) ==
  LET cd == IF tech \in COMPOSITE THEN CompositeDegree ELSE 1
      sf[k \in Levels] ==
        IF k = 0 THEN ModuliProduct(SizeQ - 1, cd)
        ELSE IF tech = "FLEXIBLEAUTOEXT" /\ k = 1 THEN moduliQ[SizeQ - 2]
        ELSE IF k % cd /= 0 THEN One
        ELSE Over(Times(sf[k - cd], sf[k - cd]), ModuliProduct(SizeQ - k + cd - 1, cd))
  IN  sf

PrecomputeRealBig(tech, sf) ==
  [k \in 0 .. SizeQ - 2 |->
     Times(sf[k], sf[IF tech = "FLEXIBLEAUTOEXT" /\ k = 0 THEN 1 ELSE k])]

(* m_approxSF: 2^p for the FIXED techniques, otherwise never set.           *)
ApproxSF == IF Flexible THEN Zero ELSE TwoToP

GetScalingFactorReal(l) ==
  IF Flexible /\ l < SizeQ THEN m_scalingFactorsReal[l] ELSE ApproxSF
GetScalingFactorRealBig(l) ==
  IF Flexible /\ l < SizeQ - 1 THEN m_scalingFactorsRealBig[l] ELSE ApproxSF
GetModReduceFactor(i) == IF Flexible THEN moduliQ[i] ELSE TwoToP

(* The factor of the n moduli that a rescaling drops.                       *)
DroppedFactor(towers, n) == Product([j \in 1 .. n |-> GetModReduceFactor(towers - j)], n)

-----------------------------------------------------------------------------
(* In-place operations on one ciphertext: whether the call returned or      *)
(* threw, and what it left.                                                 *)

Returns(c) == [ok |-> TRUE, c |-> c]
Throws(c) == [ok |-> FALSE, c |-> c]
Then(o, F(_)) == IF o.ok THEN F(o.c) ELSE o
Lesser(a, b) == IF a < b THEN a ELSE b
Drops(c, n) ==
  [c EXCEPT !.towers = @ - n, !.scale = Over(@, DroppedFactor(c.towers, n)),
            !.sf = Over(@, DroppedFactor(c.towers, n))]

(* Degree and level change first; then towers are dropped one by one, and   *)
(* dropping the last one throws.                                            *)
ModReduceInternalInPlace(c, levels) ==
  LET tracked == [c EXCEPT !.deg = @ - levels \div Degree, !.level = @ + levels]
      n == Lesser(levels, c.towers - 1)
  IN  [ok |-> n = levels, c |-> Drops(tracked, n)]

Rescale(c) == ModReduceInternalInPlace(c, Degree)

(* Mutants: the last tower may go; towers go and the level stays.           *)
LevelReduceAll(c, levels) ==
  IF c.towers < levels THEN Throws(c)
  ELSE Returns([c EXCEPT !.towers = @ - levels, !.level = @ + levels])
LevelForgotten(c, levels) ==
  IF c.towers <= levels THEN Throws(c) ELSE Returns([c EXCEPT !.towers = @ - levels])

(* DropLastElements throws before anything has changed.                     *)
LevelReduceInternalInPlace(c, levels) ==
  IF c.towers <= levels THEN Throws(c)
  ELSE Returns([c EXCEPT !.towers = @ - levels, !.level = @ + levels])

(* Multiplies by a constant encoded with the factor of the level; the       *)
(* tracked factor takes no notice of the constant.                          *)
EvalMultCoreInPlace(c, operand) ==
  LET scFactor == GetScalingFactorReal(c.level)
  IN  [c EXCEPT !.scale = Times(@, Times(operand, scFactor)), !.deg = @ + 1,
                !.sf = Times(@, scFactor)]

(* A sum has a scale if its operands have the same one.                     *)
Sum(a, b) == IF a = b THEN a ELSE Zero

-----------------------------------------------------------------------------
(* Bringing two operands to one level, degree and scale: lo, the operand of *)
(* the smaller level, is brought down to hi.  Both branches of the code are *)
(* the same with the operands exchanged.                                    *)

(* Mutant: the adjusted operand keeps the factor that was computed for it.  *)
ComputedScalingFactor(o, sf) == IF o.ok THEN o ELSE Throws(o.c)
SetScalingFactor(o, sf) == IF o.ok THEN Returns([o.c EXCEPT !.sf = sf]) ELSE o

(* Mutant: no account of the moduli that the rescaling drops.               *)
RetargetBeforeRescaling(lo, target, dropped) ==
  EvalMultCoreInPlace(lo, Over(Over(target, lo.sf), GetScalingFactorReal(lo.level)))

(* Multiplies lo by target / lo.sf, and by the factor of the moduli that a  *)
(* rescaling will drop; the last division is by the factor that             *)
(* EvalMultCoreInPlace encodes the constant with.                           *)
Retarget(lo, target, dropped) ==
  EvalMultCoreInPlace(lo, Over(Times(Over(target, lo.sf), DroppedFactor(lo.towers, dropped)),
                               GetScalingFactorReal(lo.level)))

RaiseDeep(lo, hi) ==
  LET Drop(c) == LevelReduceInternalInPlace(c, hi.level - lo.level - Degree)
  IN  SetScalingFactor(Then(Rescale(Retarget(lo, hi.sf, Degree)), Drop), hi.sf)

RaiseTwice(lo, hi) ==
  LET Drop(c) == LevelReduceInternalInPlace(c, hi.level - lo.level - 2 * Degree)
      big     == GetScalingFactorRealBig(hi.level - Degree)
  IN  SetScalingFactor(Then(Then(Rescale(Retarget(lo, big, Degree)), Drop), Rescale), hi.sf)

RaiseShallow(lo, hi) ==
  SetScalingFactor(LevelReduceInternalInPlace(Retarget(lo, hi.sf, 0), hi.level - lo.level),
                   hi.sf)

RaiseOnce(lo, hi) ==
  LET big == GetScalingFactorRealBig(hi.level - Degree)
  IN  SetScalingFactor(
        Then(LevelReduceInternalInPlace(Retarget(lo, big, 0), hi.level - lo.level - Degree),
             Rescale), hi.sf)

Raise(lo, hi) ==
  IF lo.deg = 2
  THEN IF hi.deg = 2 THEN RaiseDeep(lo, hi)
       ELSE IF lo.level + Degree = hi.level THEN Rescale(lo)
       ELSE RaiseTwice(lo, hi)
  ELSE IF hi.deg = 2 THEN RaiseShallow(lo, hi) ELSE RaiseOnce(lo, hi)

Deepen(c, d) == IF c.deg < d.deg THEN EvalMultCoreInPlace(c, One) ELSE c

(* Two operands, of which one was worked on.                                *)
Pair(ok, c1, c2) == [ok |-> ok, c1 |-> c1, c2 |-> c2]
First(o, c2) == Pair(o.ok, o.c, c2)
Second(c1, o) == Pair(o.ok, c1, o.c)

AdjustLevelsAndDepthInPlace(c1, c2) ==
  IF c1.level < c2.level THEN First(Raise(c1, c2), c2)
  ELSE IF c1.level > c2.level THEN Second(c1, Raise(c2, c1))
  ELSE Pair(TRUE, Deepen(c1, c2), Deepen(c2, c1))

(* The first operand throws before the second is touched.                   *)
RescaleSecond(o, c2) == IF o.ok THEN Second(o.c, Rescale(c2)) ELSE First(o, c2)
RescaleBoth(a) == RescaleSecond(Rescale(a.c1), a.c2)
BothToOne(a, deepest) == IF a.ok /\ deepest.deg = 2 THEN RescaleBoth(a) ELSE a
FirstToOne(a) == BothToOne(a, a.c1)

AdjustLevelsAndDepthToOneInPlace(c1, c2) ==
  FirstToOne(AdjustLevelsAndDepthInPlace(c1, c2))

(* FIXEDMANUAL aligns the moduli only ...                                   *)
AdjustLevelsInPlace(c1, c2) ==
  IF c1.towers < c2.towers
  THEN Second(c1, LevelReduceInternalInPlace(c2, c2.towers - c1.towers))
  ELSE IF c1.towers > c2.towers
  THEN First(LevelReduceInternalInPlace(c1, c1.towers - c2.towers), c2)
  ELSE Pair(TRUE, c1, c2)

(* ... and, in a sum, scales a plaintext up to the degree of the ciphertext.*)
AdjustPlaintext(a) ==
  LET up == Power(TwoToP, a.c1.deg - a.c2.deg)
  IN  IF a.ok /\ a.c2.deg < a.c1.deg
      THEN [a EXCEPT !.c2.scale = Times(@, up), !.c2.deg = a.c1.deg]
      ELSE [a EXCEPT !.ok = @ /\ a.c2.deg = a.c1.deg]

AdjustForAddOrSubInPlace(c1, c2) ==
  IF Manual THEN AdjustLevelsInPlace(c1, c2) ELSE AdjustLevelsAndDepthInPlace(c1, c2)
AdjustForAddOrSubPlain(c1, p) ==
  IF Manual THEN AdjustPlaintext(AdjustLevelsInPlace(c1, p))
  ELSE AdjustLevelsAndDepthInPlace(c1, p)
AdjustForMultInPlace(c1, c2) ==
  IF Manual THEN AdjustLevelsInPlace(c1, c2) ELSE AdjustLevelsAndDepthToOneInPlace(c1, c2)

-----------------------------------------------------------------------------
(* Encoding, and what the public calls compute: their outcome, the operands *)
(* as they leave them, the result.  Additions stand for subtractions too.   *)

MakeCKKSPackedPlaintext(l, deg) ==
  LET top == Ext /\ l = 0
      sf  == IF top THEN GetScalingFactorRealBig(0) ELSE Power(GetScalingFactorReal(l), deg)
  IN  [level |-> l, towers |-> SizeQ - l, deg |-> IF top THEN 2 ELSE deg,
       sf |-> sf, scale |-> sf, status |-> "operand"]

(* Contract of composite scaling: plaintexts are of a multiple of the       *)
(* composite degree, at which alone the table has a factor.                 *)
Plaintexts ==
  {MakeCKKSPackedPlaintext(l, deg) : l \in {m \in EncodeLevels : m % Degree = 0}, deg \in {1, 2}}

EvalAddCore(c1, c2) == [c1 EXCEPT !.scale = Sum(@, c2.scale)]
EvalMultCore(c1, c2) ==
  [c1 EXCEPT !.scale = Times(@, c2.scale), !.deg = @ + c2.deg, !.sf = Times(@, c2.sf)]
(* EvalMultInPlace by a plaintext squares the ciphertext's own factor.      *)
EvalMultPlainCore(c1, p) == [EvalMultCore(c1, p) EXCEPT !.sf = Times(c1.sf, c1.sf)]

(* Adjust, verify that the numbers of towers agree, apply the operation.    *)
Apply(a, res) ==
  [ok |-> a.ok /\ a.c1.towers = a.c2.towers, c1 |-> a.c1, c2 |-> a.c2, res |-> res]
ApplySum(a) == Apply(a, EvalAddCore(a.c1, a.c2))
ApplyProduct(a) == Apply(a, EvalMultCore(a.c1, a.c2))
ApplyPlainProduct(a) == Apply(a, EvalMultPlainCore(a.c1, a.c2))

AddOrSub(c1, c2) == ApplySum(AdjustForAddOrSubInPlace(c1, c2))
AddOrSubPlain(c1, p) == ApplySum(AdjustForAddOrSubPlain(c1, p))
Mult(c1, c2) == ApplyProduct(AdjustForMultInPlace(c1, c2))
MultPlain(c1, p) == ApplyPlainProduct(AdjustForMultInPlace(c1, p))

(* Mutant: only a degree above two is brought down.                         *)
ToDegreeTwo(c) == IF ~Manual /\ c.deg > 2 THEN Rescale(c) ELSE Returns(c)
(* The rescaling that comes before a square or a product with a constant.   *)
ToDegreeOne(c) == IF ~Manual /\ c.deg = 2 THEN Rescale(c) ELSE Returns(c)
Squared(o) == [ok |-> o.ok, c1 |-> o.c, res |-> EvalMultCore(o.c, o.c)]
Square(c) == Squared(ToDegreeOne(c))

(* ModReduceInPlace is for FIXEDMANUAL; with other techniques it does       *)
(* nothing.                                                                 *)
ModReduceInPlace(c) == IF Manual THEN Rescale(c) ELSE Returns(c)

(* A constant is added with the scale of the ciphertext, as level and       *)
(* degree tell it.                                                          *)
GetElementForEvalAddOrSub(c) ==
  IF Ext /\ c.level = 0 THEN GetScalingFactorRealBig(0)
  ELSE Power(GetScalingFactorReal(c.level), c.deg)
AddConst(c) == [c EXCEPT !.scale = Sum(@, GetElementForEvalAddOrSub(c))]

MultConst(c) ==
  LET Core(o) == Returns(EvalMultCoreInPlace(o, One)) IN Then(ToDegreeOne(c), Core)

(* The weighted sum of two ciphertexts: both are brought to the deeper one  *)
(* and to degree one, multiplied by their constants in place, and added.    *)
SecondDeeper(c1, c2) == c2.level > c1.level \/ (c2.level = c1.level /\ c2.deg = 2)
DeepestToOne(a, second) == BothToOne(a, IF second THEN a.c2 ELSE a.c1)
AdjustAll(c1, c2) ==
  IF Manual THEN Pair(TRUE, c1, c2)
  ELSE DeepestToOne(AdjustLevelsAndDepthInPlace(c1, c2), SecondDeeper(c1, c2))

MultSecond(o, c2) == IF o.ok THEN Second(o.c, MultConst(c2)) ELSE First(o, c2)
MultBoth(a) == IF a.ok THEN MultSecond(MultConst(a.c1), a.c2) ELSE a
SumIntoFirst(a, s) ==
  IF s.ok THEN First(ModReduceInPlace(s.res), a.c2) ELSE Pair(FALSE, a.c1, a.c2)
AddUp(a) == IF a.ok THEN SumIntoFirst(a, AddOrSub(a.c1, a.c2)) ELSE a

EvalLinearWSum(c1, c2) == AddUp(MultBoth(AdjustAll(c1, c2)))

(* Compress: a copy is rescaled while its degree exceeds deg, then loses    *)
(* the towers that are too many.                                            *)
Compress(c, towersLeft, deg) ==
  LET n == IF c.deg > deg THEN c.deg - deg ELSE 0
      rescaled[i \in 0 .. n] == IF i = 0 THEN Returns(c) ELSE Then(rescaled[i - 1], Rescale)
      Drop(r) ==
        IF towersLeft < r.towers
        THEN LevelReduceInternalInPlace([r EXCEPT !.status = "compressed"], r.towers - towersLeft)
        ELSE Returns(r)
  IN  IF towersLeft % Degree = 0 THEN Then(rescaled[n], Drop) ELSE Throws(c)

-----------------------------------------------------------------------------
(* The context is made with one technique; then the application calls.      *)

Init ==
  /\ scalTechnique \in Techniques
  /\ m_scalingFactorsReal = PrecomputeReal(scalTechnique)
  /\ m_scalingFactorsRealBig = PrecomputeRealBig(scalTechnique, m_scalingFactorsReal)
  /\ ct = [x \in Ciphertexts |-> NoCt]

(* What the application computes with.  A ciphertext that Compress dropped  *)
(* towers of is for decryption, except where scales are the same at all     *)
(* levels; so is an operand that a call threw on and left changed.          *)
Operand(x) ==
  ct[x] /= NoCt /\ (ct[x].status = "operand" \/ (Manual /\ ct[x].status = "compressed"))
Bounded(c1, c2) == c1.deg + c2.deg <= MaxDeg
(* Contract of FIXEDMANUAL: the application adds what has equal degrees.    *)
Addable(x, y) == Operand(x) /\ Operand(y) /\ (Manual => ct[x].deg = ct[y].deg)

Left(ok, old, new) == IF ok \/ new = old THEN new ELSE [new EXCEPT !.status = "torn"]
Deposits(r, f, d) == ct' = IF r.ok THEN [f EXCEPT ![d] = r.res] ELSE f
(* Operands passed by reference stay as the call left them.                 *)
KeepsFirst(r, x, d) == Deposits(r, [ct EXCEPT ![x] = Left(r.ok, @, r.c1)], d)
KeepsBoth(r, x, y, d) ==
  Deposits(r, [ct EXCEPT ![x] = Left(r.ok, @, r.c1), ![y] = Left(r.ok, @, r.c2)], d)
LeavesBoth(r, x, y) ==
  ct' = [ct EXCEPT ![x] = Left(r.ok, @, r.c1), ![y] = Left(r.ok, @, r.c2)]
(* The call works on ct[x] itself, or on a clone that goes to d.            *)
InPlace(o, x) == ct' = [ct EXCEPT ![x] = Left(o.ok, @, o.c)]
OnClone(o, d) == ct' = IF o.ok THEN [ct EXCEPT ![d] = o.c] ELSE ct

Encrypt(d, p) == ct' = [ct EXCEPT ![d] = p]

EvalAdd(x, y, d) == Addable(x, y) /\ Deposits(AddOrSub(ct[x], ct[y]), ct, d)
EvalAddInPlace(x, y) == Addable(x, y) /\ KeepsFirst(AddOrSub(ct[x], ct[y]), x, x)
(* With d = x, EvalAddMutableInPlace.                                       *)
EvalAddMutable(x, y, d) ==
  Addable(x, y) /\ x /= y /\ KeepsBoth(AddOrSub(ct[x], ct[y]), x, y, d)

EvalAddPlain(x, p, d) == Operand(x) /\ Deposits(AddOrSubPlain(ct[x], p), ct, d)
(* With d = x, EvalAddInPlace by a plaintext and its Mutable form.          *)
EvalAddPlainMutable(x, p, d) == Operand(x) /\ KeepsFirst(AddOrSubPlain(ct[x], p), x, d)

EvalMult(x, y, d) ==
  Operand(x) /\ Operand(y) /\ Bounded(ct[x], ct[y]) /\ Deposits(Mult(ct[x], ct[y]), ct, d)
EvalMultMutable(x, y, d) ==
  /\ Operand(x) /\ Operand(y) /\ x /= y /\ Bounded(ct[x], ct[y])
  /\ KeepsBoth(Mult(ct[x], ct[y]), x, y, d)

EvalMultPlain(x, p, d) ==
  Operand(x) /\ Bounded(ct[x], p) /\ Deposits(MultPlain(ct[x], p), ct, d)
EvalMultPlainInPlace(x, p) ==
  Operand(x) /\ Bounded(ct[x], p) /\ KeepsFirst(MultPlain(ct[x], p), x, x)
EvalMultPlainMutable(x, p, d) ==
  Operand(x) /\ Bounded(ct[x], p) /\ KeepsFirst(Mult(ct[x], p), x, d)

EvalSquare(x, d) == Operand(x) /\ Bounded(ct[x], ct[x]) /\ Deposits(Square(ct[x]), ct, d)
EvalSquareMutable(x, d) ==
  Operand(x) /\ Bounded(ct[x], ct[x]) /\ KeepsFirst(Square(ct[x]), x, d)

(* Multiply, relinearize, rescale.                                          *)
RescaleProduct(r) == IF r.ok THEN ModReduceInPlace(r.res) ELSE Throws(r.c1)
ComposedEvalMult(x, y, d) ==
  /\ Operand(x) /\ Operand(y) /\ Bounded(ct[x], ct[y])
  /\ OnClone(RescaleProduct(Mult(ct[x], ct[y])), d)

EvalAddConst(x, d) == Operand(x) /\ OnClone(Returns(AddConst(ct[x])), d)
EvalMultConst(x, d) == Operand(x) /\ ct[x].deg < MaxDeg /\ OnClone(MultConst(ct[x]), d)
EvalMultConstInPlace(x) == Operand(x) /\ ct[x].deg < MaxDeg /\ InPlace(MultConst(ct[x]), x)

EvalLinearWSumMutable(x, y) ==
  /\ Addable(x, y) /\ x /= y /\ ct[x].deg < MaxDeg
  /\ LeavesBoth(EvalLinearWSum(ct[x], ct[y]), x, y)

(* Contract of FIXEDMANUAL: what is rescaled is a product.                  *)
ModReduce(x, d) ==
  Operand(x) /\ Manual /\ ct[x].deg > 1 /\ OnClone(ModReduceInPlace(ct[x]), d)
RescaleInPlace(x) ==
  Operand(x) /\ Manual /\ ct[x].deg > 1 /\ InPlace(ModReduceInPlace(ct[x]), x)
LevelReduceInPlace(x, levels) ==
  Operand(x) /\ Manual /\ InPlace(LevelReduceInternalInPlace(ct[x], levels), x)
CompressCall(x, d, towersLeft, deg) ==
  Operand(x) /\ deg <= towersLeft /\ OnClone(Compress(ct[x], towersLeft, deg), d)

Unary(x, d) ==
  \/ EvalSquare(x, d) \/ EvalSquareMutable(x, d)
  \/ EvalAddConst(x, d) \/ EvalMultConst(x, d) \/ ModReduce(x, d)
  \/ \E towersLeft \in 1 .. SizeQ, deg \in {1, 2} : CompressCall(x, d, towersLeft, deg)

Manage(x) ==
  \/ EvalMultConstInPlace(x) \/ RescaleInPlace(x)
  \/ \E levels \in 1 .. SizeQ : LevelReduceInPlace(x, levels)

WithPlaintext(x, p, d) ==
  \/ EvalAddPlain(x, p, d) \/ EvalAddPlainMutable(x, p, d)
  \/ EvalMultPlain(x, p, d) \/ EvalMultPlainInPlace(x, p) \/ EvalMultPlainMutable(x, p, d)

Binary(x, y, d) ==
  \/ EvalAdd(x, y, d) \/ EvalAddInPlace(x, y) \/ EvalAddMutable(x, y, d)
  \/ EvalMult(x, y, d) \/ EvalMultMutable(x, y, d) \/ ComposedEvalMult(x, y, d)
  \/ EvalLinearWSumMutable(x, y)

Next ==
  /\ \/ \E d \in Ciphertexts, p \in Plaintexts : Encrypt(d, p)
     \/ \E x, d \in Ciphertexts : Unary(x, d)
     \/ \E x \in Ciphertexts : Manage(x)
     \/ \E x, d \in Ciphertexts, p \in Plaintexts : WithPlaintext(x, p, d)
     \/ \E x, y, d \in Ciphertexts : Binary(x, y, d)
  /\ UNCHANGED params

Spec == Init /\ [][Next]_vars

-----------------------------------------------------------------------------
(* Properties.                                                              *)

(* The factor that Decode divides by.  For the FIXED techniques it looks at *)
(* the degree only if the ciphertext has more than one tower.               *)
DecodeFactor(c) ==
  IF Flexible THEN c.sf
  ELSE IF c.towers = 1 THEN TwoToP ELSE Power(TwoToP, c.deg)

(* The remaining moduli have room for the message at its scale.             *)
Fits(c) == Degree * (c.deg - FirstRoom) <= c.towers - Degree

(* Types of the tables and the ciphertexts: in particular no ciphertext     *)
(* loses its last tower, and no degree exceeds its bound.                   *)
TypeOK ==
  /\ scalTechnique \in Techniques
  /\ m_scalingFactorsReal \in [Levels -> Factors]
  /\ m_scalingFactorsRealBig \in [0 .. SizeQ - 2 -> Factors]
  /\ ct \in [Ciphertexts -> CtType \cup {NoCt}]

(* Decode divides by the scale that the polynomials have, after every       *)
(* sequence of operations on operands of any levels and degrees.  With the  *)
(* FLEXIBLE techniques this is also so for an operand that a call threw on  *)
(* after it had changed degree and level.                                   *)
DecodesRight ==
  \A x \in Ciphertexts :
    (ct[x] /= NoCt /\ Fits(ct[x]) /\ (ct[x].status = "torn" => Flexible))
    => ct[x].scale = DecodeFactor(ct[x])

(* With an automatic technique, level and degree determine the scaling      *)
(* factor, and it is the one that plaintexts and constants are encoded      *)
(* with: EvalAdd compares levels and degrees, never factors.                *)
ScalesFromTable ==
  ~Manual =>
    \A x \in Ciphertexts :
      (ct[x] /= NoCt /\ ct[x].status = "operand")
      => ct[x].sf = GetElementForEvalAddOrSub(ct[x])

(* The level counts the dropped moduli.  The adjustment compares levels and *)
(* the polynomial arithmetic compares towers; ModReduceInternalInPlace      *)
(* changes one before the other.                                            *)
TowersMatchLevel ==
  \A x \in Ciphertexts :
    (ct[x] /= NoCt /\ ct[x].status /= "torn") => ct[x].towers + ct[x].level = SizeQ

(* With an automatic technique operands have degree 1 or 2, the only ones   *)
(* the adjustment tells apart, and in composite scaling a level that is a   *)
(* multiple of the composite degree.                                        *)
DegreeOneOrTwo ==
  ~Manual =>
    \A x \in Ciphertexts :
      Operand(x) => ct[x].deg \in {1, 2} /\ ct[x].level % Degree = 0
=============================================================================
