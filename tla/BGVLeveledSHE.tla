--------------------------- MODULE BGVLeveledSHE ---------------------------
(* The leveled operations of BGV in RNS form: encoding at a level, the      *)
(* ciphertext/ciphertext and ciphertext/plaintext operations with their     *)
(* automatic level and scale adjustment, rescaling, compression, and        *)
(* decryption, for the scaling techniques FIXEDMANUAL, FIXEDAUTO,           *)
(* FLEXIBLEAUTO and FLEXIBLEAUTOEXT.                                        *)
(*                                                                          *)
(* What decides correctness in this code is metadata: each ciphertext       *)
(* carries a level, a noise scale degree and an integer scaling factor      *)
(* modulo t, and the polynomials hold the message times that factor.  The   *)
(* polynomials are abstracted to the residue they encode (val); msg is the  *)
(* value the application computed, kept only to state correctness.  Noise   *)
(* is assumed to stay within the bound the parameters guarantee.            *)
EXTENDS PlaintextRing

CONSTANTS
  ScalTech,       \* the scaling technique of the crypto context
  SizeQ,          \* number of RNS moduli q_0 .. q_{SizeQ-1}
  qModt,          \* q_i % t
  Ciphertexts,    \* the ciphertext variables of the application
  EncodeLevels,   \* levels at which the application encodes plaintexts
  EncodeDegs,     \* noiseScaleDeg arguments it passes to MakePackedPlaintext
  Aliasing,       \* whether it passes one object as both mutable operands
  MaxDeg,         \* bound on the degree a multiplication may reach
  DegMod,         \* range of noiseScaleDeg (size_t in the code)
  NoCt            \* an unset ciphertext variable

FLEXIBLE == {"FLEXIBLEAUTO", "FLEXIBLEAUTOEXT"}
TECHNIQUES == FLEXIBLE \cup {"FIXEDMANUAL", "FIXEDAUTO"}
Flexible == ScalTech \in FLEXIBLE
Ext == ScalTech = "FLEXIBLEAUTOEXT"
Levels == 0 .. SizeQ - 1

ASSUME TechniqueAssumption == ScalTech \in TECHNIQUES
ASSUME SizeQAssumption == SizeQ \in Nat /\ SizeQ > (IF Ext THEN 2 ELSE 1)
(* Every q_i is a prime different from those dividing t; parameter          *)
(* generation makes q_i = 1 (mod t) for the FIXED techniques.               *)
ASSUME ModuliAssumption ==
  /\ qModt \in [Levels -> Units]
  /\ ~Flexible => \A i \in Levels : qModt[i] = One
ASSUME EncodeAssumption ==
  EncodeLevels \subseteq Levels /\ EncodeDegs \subseteq {1, 2}
ASSUME AliasingAssumption == Aliasing \in BOOLEAN
ASSUME DegAssumption == MaxDeg \in Nat /\ DegMod \in Nat /\ MaxDeg < DegMod /\ DegMod > 4

CtType ==
  [level : Levels, towers : 1 .. SizeQ, noiseScaleDeg : 0 .. DegMod - 1,
   scf : Zt, val : Zt, msg : Zt, compressed : BOOLEAN]
ASSUME NoCtAssumption == NoCt \notin CtType

VARIABLES
  scalingFactorsInt,     \* m_scalingFactorsInt
  scalingFactorsIntBig,  \* m_scalingFactorsIntBig
  ct,                    \* the ciphertext variables
  pc,                    \* where the running call is
  k,                     \* the loop index of the running call
  work,                  \* the ciphertext the running call works on
  arg,                   \* the arguments of a running Compress
  out                    \* what the running Decrypt returns

vars == <<scalingFactorsInt, scalingFactorsIntBig, ct, pc, k, work, arg, out>>

-----------------------------------------------------------------------------
(* The precomputed tables and their getters.                                *)

GetScalingFactorInt(l) == IF Flexible THEN scalingFactorsInt[l] ELSE One

WrongTable(l) ==              \* mutant: the other table
  IF Flexible /\ l < SizeQ - 1 THEN scalingFactorsInt[l] ELSE One

(* Past the end of the table the getter falls back to m_fixedSF = 1.        *)
GetScalingFactorIntBig(l) ==
  IF Flexible /\ l < SizeQ - 1 THEN scalingFactorsIntBig[l] ELSE One

GetModReduceFactorInt(i) == IF Flexible THEN qModt[i] ELSE One

-----------------------------------------------------------------------------
(* noiseScaleDeg is unsigned: sums and differences wrap around.             *)

DegPlus(a, b) == IF a + b < DegMod THEN a + b ELSE a + b - DegMod
DegMinus(a, b) == IF a >= b THEN a - b ELSE a - b + DegMod

-----------------------------------------------------------------------------
(* In-place operations on one ciphertext.  The outcome says whether the     *)
(* call returned or threw, and what it left in its operand.                 *)

Returns(c) == [ok |-> TRUE, c |-> c]
Throws(c) == [ok |-> FALSE, c |-> c]

(* The next statement of a call runs only if the previous one returned.     *)
Then(o, F(_)) == IF o.ok THEN F(o.c) ELSE o

(* Divides the encoded value by the last modulus and drops it; the tracked  *)
(* factor follows only for the FLEXIBLE techniques.                         *)
ModReduced(c) ==
  [c EXCEPT !.val = ModMul(@, ModInverse(qModt[c.towers - 1])),
            !.towers = @ - 1,
            !.level = @ + 1,
            !.noiseScaleDeg = DegMinus(@, 1),
            !.scf = IF Flexible
                    THEN ModMul(@, ModInverse(GetModReduceFactorInt(c.towers - 1)))
                    ELSE @]

ModReduceUnguarded(c) == Returns(ModReduced(c))   \* mutant: the last tower is dropped too

(* Dropping the last tower throws, before anything has changed.             *)
ModReduceInternalInPlace(c) ==
  IF c.towers > 1 THEN Returns(ModReduced(c)) ELSE Throws(c)

LevelForgotten(c, levels) ==                      \* mutant: the level is not updated
  IF c.towers > levels THEN Returns([c EXCEPT !.towers = @ - levels]) ELSE Throws(c)

(* Drops moduli without rescaling.                                          *)
LevelReduceInternalInPlace(c, levels) ==
  IF c.towers > levels
  THEN Returns([c EXCEPT !.towers = @ - levels, !.level = @ + levels])
  ELSE Throws(c)

(* Multiplies by an integer scalar.                                         *)
EvalMultCoreInPlace(c, scalar) ==
  [c EXCEPT !.val = ModMul(@, scalar),
            !.noiseScaleDeg = DegPlus(@, 1),
            !.scf = IF Flexible THEN ModMul(@, scalar) ELSE @]

EvalNegateInPlace(c) == [c EXCEPT !.val = ModNeg(@), !.msg = ModNeg(@)]

-----------------------------------------------------------------------------
(* Bringing two operands to one level, degree and scale.  Both branches of  *)
(* the code are the same with the operands exchanged: the operand lo that   *)
(* has more moduli is brought down to hi.                                   *)

SetScalingFactorInt(o, s) == IF o.ok THEN Returns([o.c EXCEPT !.scf = s]) ELSE o

(* lo 2, hi 2: one multiplication and one rescaling keep degree 2.          *)
RaiseDeep(lo, hi) ==
  LET f == ModMul(ModMul(hi.scf, ModInverse(lo.scf)),
                  GetModReduceFactorInt(lo.towers - 1))
      Drop(c) == LevelReduceInternalInPlace(c, hi.level - lo.level - 1)
  IN  SetScalingFactorInt(
        Then(ModReduceInternalInPlace(EvalMultCoreInPlace(lo, f)), Drop), hi.scf)

(* lo 2, hi 1, not adjacent: two rescalings around the dropped levels.      *)
RaiseTwice(lo, hi) ==
  LET f == ModMul(ModMul(GetScalingFactorIntBig(hi.level - 1), ModInverse(lo.scf)),
                  GetModReduceFactorInt(lo.towers - 1))
      Drop(c) == LevelReduceInternalInPlace(c, hi.level - lo.level - 2)
  IN  SetScalingFactorInt(
        Then(Then(ModReduceInternalInPlace(EvalMultCoreInPlace(lo, f)), Drop),
             ModReduceInternalInPlace), hi.scf)

(* lo 1, hi 2: one multiplication makes up for the missing degree.          *)
RaiseShallow(lo, hi) ==
  LET f == ModMul(hi.scf, ModInverse(lo.scf))
  IN  SetScalingFactorInt(
        LevelReduceInternalInPlace(EvalMultCoreInPlace(lo, f), hi.level - lo.level),
        hi.scf)

(* lo 1, hi 1: multiply, drop to the level above hi, rescale.               *)
RaiseOnce(lo, hi) ==
  LET f == ModMul(GetScalingFactorIntBig(hi.level - 1), ModInverse(lo.scf))
  IN  SetScalingFactorInt(
        Then(LevelReduceInternalInPlace(EvalMultCoreInPlace(lo, f),
                                        hi.level - lo.level - 1),
             ModReduceInternalInPlace), hi.scf)

Raise(lo, hi) ==
  IF lo.noiseScaleDeg = 2
  THEN IF hi.noiseScaleDeg = 2 THEN RaiseDeep(lo, hi)
       ELSE IF lo.level + 1 = hi.level THEN ModReduceInternalInPlace(lo)
       ELSE RaiseTwice(lo, hi)
  ELSE IF hi.noiseScaleDeg = 2 THEN RaiseShallow(lo, hi) ELSE RaiseOnce(lo, hi)

(* At equal levels the operand of smaller degree is multiplied by its own   *)
(* scaling factor.                                                          *)
Deepen(c, d) ==
  IF c.noiseScaleDeg < d.noiseScaleDeg THEN EvalMultCoreInPlace(c, c.scf) ELSE c

Pair(ok, c1, c2) == [ok |-> ok, c1 |-> c1, c2 |-> c2]

AdjustLevelsAndDepthInPlace(c1, c2) ==
  IF c1.level < c2.level
  THEN LET r == Raise(c1, c2) IN Pair(r.ok, r.c, c2)
  ELSE IF c1.level > c2.level
  THEN LET r == Raise(c2, c1) IN Pair(r.ok, c1, r.c)
  ELSE Pair(TRUE, Deepen(c1, c2), Deepen(c2, c1))

(* Rescales both operands of degree 2; the first throws before the second   *)
(* is touched.                                                              *)
RescaleBoth(a) ==
  LET r1 == ModReduceInternalInPlace(a.c1)
      r2 == ModReduceInternalInPlace(a.c2)
  IN  IF a.ok /\ a.c1.noiseScaleDeg = 2
      THEN Pair(r1.ok /\ r2.ok, r1.c, IF r1.ok THEN r2.c ELSE a.c2)
      ELSE a

AdjustLevelsAndDepthToOneInPlace(c1, c2) ==
  RescaleBoth(AdjustLevelsAndDepthInPlace(c1, c2))

(* FIXEDMANUAL aligns the moduli only.                                      *)
AdjustLevelsInPlace(c1, c2) ==
  LET r1 == LevelReduceInternalInPlace(c1, c1.towers - c2.towers)
      r2 == LevelReduceInternalInPlace(c2, c2.towers - c1.towers)
  IN  IF c1.towers < c2.towers THEN Pair(r2.ok, c1, r2.c)
      ELSE IF c1.towers > c2.towers THEN Pair(r1.ok, r1.c, c2)
      ELSE Pair(TRUE, c1, c2)

AdjustForAddOrSubInPlace(c1, c2) ==
  IF ScalTech = "FIXEDMANUAL" THEN AdjustLevelsInPlace(c1, c2)
  ELSE AdjustLevelsAndDepthInPlace(c1, c2)

AdjustForMultInPlace(c1, c2) ==
  IF ScalTech = "FIXEDMANUAL" THEN AdjustLevelsInPlace(c1, c2)
  ELSE AdjustLevelsAndDepthToOneInPlace(c1, c2)

-----------------------------------------------------------------------------
(* Encoding, the core operations, and what each public call computes from   *)
(* its operands: its outcome, the operands as it leaves them, its result.   *)

(* MakePlaintext picks the factor of the level, Encode raises it to the     *)
(* degree; a FLEXIBLEAUTOEXT plaintext at level 0 is encoded at degree 2    *)
(* with the big factor.                                                     *)
MakePackedPlaintext(l, deg, m) ==
  LET top == Ext /\ l = 0
      s0  == IF top THEN GetScalingFactorIntBig(0) ELSE GetScalingFactorInt(l)
      s   == IF top \/ deg = 1 THEN s0 ELSE ModMul(s0, s0)
  IN  [level |-> l, towers |-> SizeQ - l, noiseScaleDeg |-> IF top THEN 2 ELSE deg,
       scf |-> s, val |-> ModMul(m, s), msg |-> m, compressed |-> FALSE]

Plaintexts ==
  {MakePackedPlaintext(l, d, m) : l \in EncodeLevels, d \in EncodeDegs, m \in Zt}

EvalAddCore(c1, c2) ==
  [c1 EXCEPT !.val = ModAdd(@, c2.val), !.msg = ModAdd(@, c2.msg)]

EvalSubCore(c1, c2) ==
  [c1 EXCEPT !.val = ModSub(@, c2.val), !.msg = ModSub(@, c2.msg)]

EvalMultCore(c1, c2) ==
  [c1 EXCEPT !.val = ModMul(@, c2.val), !.msg = ModMul(@, c2.msg),
             !.noiseScaleDeg = DegPlus(@, c2.noiseScaleDeg),
             !.scf = ModMul(@, c2.scf)]

FactorNotSquared(c1, p) ==    \* mutant: the product keeps the factor of one operand
  [EvalMultCore(c1, p) EXCEPT !.scf = c1.scf]

(* BGV's EvalMultInPlace by a plaintext squares the ciphertext's own factor *)
(* instead of multiplying the two.                                          *)
EvalMultPlainCore(c1, p) ==
  [EvalMultCore(c1, p) EXCEPT !.scf = IF Flexible THEN ModMul(c1.scf, c1.scf) ELSE c1.scf]

(* Adjust both operands, verify that they have the same number of towers,   *)
(* apply the core operation.                                                *)
Apply(a, res) ==
  [ok |-> a.ok /\ a.c1.towers = a.c2.towers, c1 |-> a.c1, c2 |-> a.c2, res |-> res]

ApplySum(op, a) ==
  Apply(a, IF op = "add" THEN EvalAddCore(a.c1, a.c2) ELSE EvalSubCore(a.c1, a.c2))
ApplyProduct(a) == Apply(a, EvalMultCore(a.c1, a.c2))
ApplyPlainProduct(a) == Apply(a, EvalMultPlainCore(a.c1, a.c2))

AddOrSub(op, c1, c2) == ApplySum(op, AdjustForAddOrSubInPlace(c1, c2))
Mult(c1, c2) == ApplyProduct(AdjustForMultInPlace(c1, c2))
MultPlain(c1, p) == ApplyPlainProduct(AdjustForMultInPlace(c1, p))

(* The rescaling that comes before a squaring.                              *)
SquareOperand(c) ==
  IF ScalTech = "FIXEDMANUAL" \/ c.noiseScaleDeg = 1 THEN Returns(c)
  ELSE ModReduceInternalInPlace(c)

SquareUnscaled(c) == Returns(c)  \* mutant: no rescaling before the squaring

SquareOperandMutable(c) ==
  IF ScalTech /= "FIXEDMANUAL" /\ c.noiseScaleDeg = 2
  THEN ModReduceInternalInPlace(c) ELSE Returns(c)

-----------------------------------------------------------------------------
(* The tables: PrecomputeCRTTables fills them one level at a time.  For     *)
(* FLEXIBLEAUTOEXT the loop stops one level early, so the factor of the     *)
(* last level keeps the zero that resize() gave it.                         *)

Init ==
  /\ scalingFactorsInt =
       [l \in Levels |->
          IF ~Flexible THEN One
          ELSE IF l = 0 THEN qModt[SizeQ - 1]
          ELSE IF l = 1 /\ Ext THEN qModt[SizeQ - 2] ELSE Zero]
  /\ scalingFactorsIntBig = [l \in 0 .. SizeQ - 2 |-> IF Flexible THEN Zero ELSE One]
  /\ ct = [x \in Ciphertexts |-> NoCt]
  /\ pc = IF Flexible THEN "factors" ELSE "ready"
  /\ k = IF Ext THEN 2 ELSE IF Flexible THEN 1 ELSE 0
  /\ work = NoCt
  /\ arg = NoCt
  /\ out = One

LastFactor == IF Ext THEN SizeQ - 2 ELSE SizeQ - 1

PrecomputeFactor ==
  /\ pc = "factors"
  /\ k <= LastFactor
  /\ LET prevSF == scalingFactorsInt[k - 1]
         qInv   == ModInverse(qModt[SizeQ - k])
     IN  scalingFactorsInt' =
           [scalingFactorsInt EXCEPT ![k] = ModMul(ModMul(prevSF, prevSF), qInv)]
  /\ k' = k + 1
  /\ UNCHANGED <<scalingFactorsIntBig, ct, pc, work, arg, out>>

PrecomputeSquares ==          \* mutant: no special entry for FLEXIBLEAUTOEXT
  /\ pc = "factors"
  /\ k > LastFactor
  /\ scalingFactorsIntBig' =
       [l \in 0 .. SizeQ - 2 |-> ModMul(scalingFactorsInt[l], scalingFactorsInt[l])]
  /\ pc' = "ready" /\ k' = 0
  /\ UNCHANGED <<scalingFactorsInt, ct, work, arg, out>>

PrecomputeBigFactors ==
  /\ pc = "factors"
  /\ k > LastFactor
  /\ scalingFactorsIntBig' =
       [l \in 0 .. SizeQ - 2 |->
          ModMul(scalingFactorsInt[l], scalingFactorsInt[IF Ext /\ l = 0 THEN 1 ELSE l])]
  /\ pc' = "ready" /\ k' = 0
  /\ UNCHANGED <<scalingFactorsInt, ct, work, arg, out>>

-----------------------------------------------------------------------------
(* The public calls.  One application thread issues them one at a time.     *)

Ready == pc = "ready"
Set(x) == ct[x] /= NoCt
(* Compress is for a ciphertext about to be decrypted: with a FLEXIBLE      *)
(* technique it leaves a scale that no other ciphertext of its level has.   *)
Operand(x) == Set(x) /\ (ct[x].compressed => ~Flexible)
Bounded(c1, c2) == c1.noiseScaleDeg + c2.noiseScaleDeg <= MaxDeg
Deposits(r, f, d) == ct' = IF r.ok THEN [f EXCEPT ![d] = r.res] ELSE f
(* Operands passed by reference stay as the adjustment left them.           *)
KeepsFirst(r, x, d) == Deposits(r, [ct EXCEPT ![x] = r.c1], d)
KeepsBoth(r, x, y, d) == Deposits(r, [ct EXCEPT ![x] = r.c1, ![y] = r.c2], d)
Only == UNCHANGED <<scalingFactorsInt, scalingFactorsIntBig, pc, k, work, arg, out>>

Encrypt(d, p) == Ready /\ ct' = [ct EXCEPT ![d] = p] /\ Only

(* EvalAdd, EvalSub: on clones; a call that throws changes nothing.         *)
EvalAddOrSub(op, x, y, d) ==
  /\ Ready /\ Operand(x) /\ Operand(y)
  /\ Deposits(AddOrSub(op, ct[x], ct[y]), ct, d)
  /\ Only

(* EvalAddInPlace, EvalSubInPlace: the second operand is cloned.            *)
EvalAddOrSubInPlace(op, x, y) ==
  /\ Ready /\ Operand(x) /\ Operand(y)
  /\ KeepsFirst(AddOrSub(op, ct[x], ct[y]), x, x)
  /\ Only

(* EvalAddMutable, EvalSubMutable and, with d = x, their InPlace forms:     *)
(* both operands stay adjusted.                                             *)
EvalAddOrSubMutable(op, x, y, d) ==
  /\ Ready /\ Operand(x) /\ Operand(y) /\ x /= y
  /\ KeepsBoth(AddOrSub(op, ct[x], ct[y]), x, y, d)
  /\ Only

(* The ciphertext/plaintext forms: with d = x the InPlace forms.            *)
EvalAddOrSubPlain(op, x, p, d) ==
  /\ Ready /\ Operand(x)
  /\ Deposits(AddOrSub(op, ct[x], p), ct, d)
  /\ Only

EvalAddOrSubPlainMutable(op, x, p, d) ==
  /\ Ready /\ Operand(x)
  /\ KeepsFirst(AddOrSub(op, ct[x], p), x, d)
  /\ Only

(* EvalMult and, with d = x, EvalMultInPlace.                               *)
EvalMult(x, y, d) ==
  /\ Ready /\ Operand(x) /\ Operand(y) /\ Bounded(ct[x], ct[y])
  /\ Deposits(Mult(ct[x], ct[y]), ct, d)
  /\ Only

EvalMultMutable(x, y, d) ==
  /\ Ready /\ Operand(x) /\ Operand(y) /\ x /= y /\ Bounded(ct[x], ct[y])
  /\ KeepsBoth(Mult(ct[x], ct[y]), x, y, d)
  /\ Only

(* Both operands are one object: each rescaling of the adjustment hits it.  *)
EvalMultMutableAliased(x, d) ==
  /\ Aliasing /\ Ready /\ Operand(x) /\ Bounded(ct[x], ct[x])
  /\ LET a == IF ScalTech /= "FIXEDMANUAL" /\ ct[x].noiseScaleDeg = 2
              THEN Then(ModReduceInternalInPlace(ct[x]), ModReduceInternalInPlace)
              ELSE Returns(ct[x])
     IN  Deposits(Apply(Pair(a.ok, a.c, a.c), EvalMultCore(a.c, a.c)),
                  [ct EXCEPT ![x] = a.c], d)
  /\ Only

(* EvalMult by a plaintext; the InPlace form works on the operand itself.   *)
EvalMultPlain(x, p, d) ==
  /\ Ready /\ Operand(x) /\ Bounded(ct[x], p)
  /\ Deposits(MultPlain(ct[x], p), ct, d)
  /\ Only

EvalMultPlainInPlace(x, p) ==
  /\ Ready /\ Operand(x) /\ Bounded(ct[x], p)
  /\ KeepsFirst(MultPlain(ct[x], p), x, x)
  /\ Only

(* EvalMultMutable by a plaintext and, with d = x, EvalMultMutableInPlace.  *)
EvalMultPlainMutable(x, p, d) ==
  /\ Ready /\ Operand(x) /\ Bounded(ct[x], p)
  /\ KeepsFirst(Mult(ct[x], p), x, d)
  /\ Only

EvalSquare(x, d) ==
  /\ Ready /\ Operand(x) /\ Bounded(ct[x], ct[x])
  /\ LET a == SquareOperand(ct[x])
     IN  Deposits([ok |-> a.ok, res |-> EvalMultCore(a.c, a.c)], ct, d)
  /\ Only

EvalSquareMutable(x, d) ==
  /\ Ready /\ Operand(x) /\ Bounded(ct[x], ct[x])
  /\ LET a == SquareOperandMutable(ct[x])
     IN  Deposits([ok |-> a.ok, res |-> EvalMultCore(a.c, a.c)],
                  [ct EXCEPT ![x] = a.c], d)
  /\ Only

(* Multiply, relinearize, rescale; the rescaling acts in FIXEDMANUAL only.  *)
RescaleProduct(r) ==
  LET m == IF ScalTech = "FIXEDMANUAL" THEN ModReduceInternalInPlace(r.res)
           ELSE Returns(r.res)
  IN  [ok |-> r.ok /\ m.ok, res |-> m.c]

ComposedEvalMult(x, y, d) ==
  /\ Ready /\ Operand(x) /\ Operand(y) /\ Bounded(ct[x], ct[y])
  /\ Deposits(RescaleProduct(Mult(ct[x], ct[y])), ct, d)
  /\ Only

EvalNegate(x, d) ==
  /\ Ready /\ Set(x)
  /\ ct' = [ct EXCEPT ![d] = EvalNegateInPlace(ct[x])]
  /\ Only

(* ModReduce, ModReduceInPlace: the application's own rescaling.            *)
ModReduceInPlace(x) ==
  /\ Ready /\ Set(x)
  /\ ScalTech = "FIXEDMANUAL"
  /\ ct' = [ct EXCEPT ![x] = ModReduceInternalInPlace(ct[x]).c]
  /\ Only

LevelReduceInPlace(x, levels) ==
  /\ Ready /\ Set(x)
  /\ ScalTech = "FIXEDMANUAL" /\ levels > 0
  /\ ct' = [ct EXCEPT ![x] = LevelReduceInternalInPlace(ct[x], levels).c]
  /\ Only

(* Compress: rescale a copy until its degree is low enough, drop the towers *)
(* that are too many.                                                       *)
CompressCall(x, d, towersLeft, deg) ==
  /\ Ready /\ Set(x)
  /\ towersLeft >= deg
  /\ work' = ct[x]
  /\ arg' = [dst |-> d, towersLeft |-> towersLeft, deg |-> deg]
  /\ pc' = "compress"
  /\ UNCHANGED <<scalingFactorsInt, scalingFactorsIntBig, ct, k, out>>

CompressModReduce ==
  /\ pc = "compress"
  /\ work.noiseScaleDeg > arg.deg
  /\ LET r == ModReduceInternalInPlace(work)
     IN  IF r.ok THEN work' = r.c /\ UNCHANGED <<pc, arg>>
         ELSE work' = NoCt /\ pc' = "ready" /\ arg' = NoCt
  /\ UNCHANGED <<scalingFactorsInt, scalingFactorsIntBig, ct, k, out>>

CompressReturn ==
  /\ pc = "compress"
  /\ work.noiseScaleDeg <= arg.deg
  /\ LET drop == arg.towersLeft < work.towers
         r == IF drop
              THEN LevelReduceInternalInPlace([work EXCEPT !.compressed = TRUE],
                                              work.towers - arg.towersLeft)
              ELSE Returns(work)
     IN  ct' = IF r.ok THEN [ct EXCEPT ![arg.dst] = r.c] ELSE ct
  /\ work' = NoCt /\ pc' = "ready" /\ arg' = NoCt
  /\ UNCHANGED <<scalingFactorsInt, scalingFactorsIntBig, k, out>>

(* Decrypt: switch the decrypted polynomial down to one tower, its scaling  *)
(* factor with it, then Decode.                                             *)
DecryptCall(x) ==
  /\ Ready /\ Set(x)
  /\ work' = ct[x]
  /\ k' = ct[x].towers - 1
  /\ pc' = "decrypt"
  /\ UNCHANGED <<scalingFactorsInt, scalingFactorsIntBig, ct, arg, out>>

DecryptSameTower ==           \* mutant: the loop index does not move
  /\ pc = "decrypt" /\ k > 0
  /\ UNCHANGED vars

DecryptModReduce ==
  /\ pc = "decrypt"
  /\ k > 0
  /\ work' = [work EXCEPT
       !.val = ModMul(@, ModInverse(qModt[k])),
       !.scf = IF Flexible THEN ModMul(@, ModInverse(GetModReduceFactorInt(k))) ELSE @]
  /\ k' = k - 1
  /\ UNCHANGED <<scalingFactorsInt, scalingFactorsIntBig, ct, pc, arg, out>>

(* Decode multiplies by the inverse of the factor; ModInverse throws when   *)
(* there is none.                                                           *)
Decode ==
  /\ pc = "decrypt"
  /\ k = 0
  /\ IF work.scf \in Units
     THEN out' = ModMul(work.val, ModInverse(work.scf)) /\ pc' = "decoded"
     ELSE out' = out /\ pc' = "undecodable"
  /\ UNCHANGED <<scalingFactorsInt, scalingFactorsIntBig, ct, k, work, arg>>

DecryptReturn ==
  /\ pc \in {"decoded", "undecodable"}
  /\ pc' = "ready" /\ work' = NoCt /\ out' = One
  /\ UNCHANGED <<scalingFactorsInt, scalingFactorsIntBig, ct, k, arg>>

Precompute == PrecomputeFactor \/ PrecomputeBigFactors

Unary(x, d) ==
  \/ EvalMultMutableAliased(x, d)
  \/ EvalSquare(x, d)
  \/ EvalSquareMutable(x, d)
  \/ EvalNegate(x, d)
  \/ \E towersLeft \in 1 .. SizeQ, deg \in {1, 2} : CompressCall(x, d, towersLeft, deg)

Manage(x) ==
  \/ ModReduceInPlace(x)
  \/ \E levels \in 1 .. SizeQ : LevelReduceInPlace(x, levels)
  \/ DecryptCall(x)

WithPlaintext(x, p, d) ==
  \/ Encrypt(d, p)
  \/ \E op \in {"add", "sub"} : EvalAddOrSubPlain(op, x, p, d)
  \/ \E op \in {"add", "sub"} : EvalAddOrSubPlainMutable(op, x, p, d)
  \/ EvalMultPlain(x, p, d)
  \/ EvalMultPlainInPlace(x, p)
  \/ EvalMultPlainMutable(x, p, d)

Binary(x, y, d) ==
  \/ \E op \in {"add", "sub"} : EvalAddOrSub(op, x, y, d)
  \/ \E op \in {"add", "sub"} : EvalAddOrSubInPlace(op, x, y)
  \/ \E op \in {"add", "sub"} : EvalAddOrSubMutable(op, x, y, d)
  \/ EvalMult(x, y, d)
  \/ EvalMultMutable(x, y, d)
  \/ ComposedEvalMult(x, y, d)

Running ==
  CompressModReduce \/ CompressReturn \/ DecryptModReduce \/ Decode \/ DecryptReturn

Next ==
  \/ Precompute
  \/ \E x, d \in Ciphertexts : Unary(x, d)
  \/ \E x \in Ciphertexts : Manage(x)
  \/ \E x, d \in Ciphertexts, p \in Plaintexts : WithPlaintext(x, p, d)
  \/ \E x, y, d \in Ciphertexts : Binary(x, y, d)
  \/ Running

(* A call that has been entered runs to its end.                            *)
Spec == Init /\ [][Next]_vars /\ WF_vars(Precompute \/ Running)

-----------------------------------------------------------------------------
(* Properties.                                                              *)

(* Types of the tables, the ciphertexts and the locals of a running call.   *)
TypeOK ==
  /\ scalingFactorsInt \in [Levels -> Zt]
  /\ scalingFactorsIntBig \in [0 .. SizeQ - 2 -> Zt]
  /\ ct \in [Ciphertexts -> CtType \cup {NoCt}]
  /\ pc \in {"factors", "ready", "compress", "decrypt", "decoded", "undecodable"}
  /\ k \in 0 .. SizeQ
  /\ work \in CtType \cup {NoCt}
  /\ out \in Zt

(* What Decrypt returns is what the application computed, after every       *)
(* sequence of operations, whatever levels and degrees they combined and    *)
(* whichever of them threw half-way through an adjustment; and Decode       *)
(* always finds an inverse of the scaling factor.                           *)
DecryptCorrect ==
  /\ pc /= "undecodable"
  /\ pc = "decoded" => out = work.msg

(* EvalAdd adds polynomials without looking at their scaling factors, so    *)
(* two ciphertexts of one level and degree must carry the same factor.      *)
ScaleAgreement ==
  \A x, y \in Ciphertexts :
    (Set(x) /\ Set(y) /\ ~ct[x].compressed /\ ~ct[y].compressed
      /\ ct[x].level = ct[y].level /\ ct[x].noiseScaleDeg = ct[y].noiseScaleDeg)
    => ct[x].scf = ct[y].scf

(* The level counts the dropped moduli: the adjustments compare levels, the *)
(* FIXEDMANUAL one and the polynomial arithmetic compare towers.            *)
TowersMatchLevel ==
  \A x \in Ciphertexts : Set(x) => ct[x].towers + ct[x].level = SizeQ

(* With an automatic technique no ciphertext ever leaves degrees 1 and 2,   *)
(* the only ones the adjustment code tells apart: the unsigned subtraction  *)
(* of ModReduce does not wrap around and no third factor accumulates.       *)
DegreeOneOrTwo ==
  ScalTech /= "FIXEDMANUAL" =>
    \A x \in Ciphertexts : Set(x) => ct[x].noiseScaleDeg \in {1, 2}

(* A call entered with the tables ready returns: the rescaling loops of     *)
(* Compress and Decrypt end.                                                *)
CallsReturn == []<>(pc = "ready")

-----------------------------------------------------------------------------
(* The inductive invariant.  sf and big are the two tables.                 *)

(* The factor every ciphertext of level l and degree 1 or 2 must carry.     *)
(* FLEXIBLEAUTOEXT has no table entry for the last level, which rescaling   *)
(* still reaches.                                                           *)
Scale1(sf, big, l) ==
  IF l <= LastFactor THEN sf[l]
  ELSE ModMul(big[l - 1], ModInverse(qModt[SizeQ - l]))
Scale2(sf, big, l) ==
  IF l < SizeQ - 1 THEN big[l]
  ELSE ModMul(Scale1(sf, big, l), Scale1(sf, big, l))
Scale(sf, big, l, d) == IF d = 1 THEN Scale1(sf, big, l) ELSE Scale2(sf, big, l)

(* A ciphertext that decodes to its message and carries the factor of its   *)
(* level and degree.                                                        *)
Decodes(c) == c.scf \in Units /\ c.val = ModMul(c.scf, c.msg)

Good(sf, big, c) ==
  /\ c \in CtType
  /\ c.towers + c.level = SizeQ
  /\ Decodes(c)
  /\ ~Flexible => c.scf = One
  /\ ScalTech /= "FIXEDMANUAL" => c.noiseScaleDeg \in {1, 2}
  /\ (Flexible /\ ~c.compressed) =>
       /\ c.scf = Scale(sf, big, c.level, c.noiseScaleDeg)
       /\ (Ext /\ c.level = 0) => c.noiseScaleDeg = 2

(* Rescaling a ciphertext of degree 2 meets the factor of the next level.   *)
TablesOK(sf, big) ==
  /\ \A l \in Levels : Scale1(sf, big, l) \in Units /\ Scale2(sf, big, l) \in Units
  /\ \A l \in 0 .. SizeQ - 2 :
       Scale1(sf, big, l + 1) = ModMul(big[l], ModInverse(qModt[SizeQ - 1 - l]))
  /\ \A l \in Levels :
       (Ext /\ l = 0) \/
       Scale2(sf, big, l) = ModMul(Scale1(sf, big, l), Scale1(sf, big, l))

(* The loop of PrecomputeCRTTables has filled the entries below k.          *)
TablesPartial ==
  /\ Flexible
  /\ k \in (IF Ext THEN 2 ELSE 1) .. LastFactor + 1
  /\ scalingFactorsInt[0] = qModt[SizeQ - 1]
  /\ Ext => scalingFactorsInt[1] = qModt[SizeQ - 2]
  /\ \A l \in 0 .. k - 1 : scalingFactorsInt[l] \in Units
  /\ \A l \in (IF Ext THEN 2 ELSE 1) .. k - 1 :
       scalingFactorsInt[l] =
         ModMul(ModMul(scalingFactorsInt[l - 1], scalingFactorsInt[l - 1]),
                ModInverse(qModt[SizeQ - l]))
  /\ \A x \in Ciphertexts : ct[x] = NoCt

(* The locals of a running Compress or Decrypt.                             *)
CallOK ==
  /\ pc /= "undecodable"
  /\ pc = "compress" =>
       /\ Good(scalingFactorsInt, scalingFactorsIntBig, work)
       /\ arg \in [dst : Ciphertexts, towersLeft : 1 .. SizeQ, deg : {1, 2}]
  /\ pc = "decrypt" => work \in CtType /\ Decodes(work) /\ k < SizeQ
  /\ pc = "decoded" => work \in CtType /\ out = work.msg

(* Every ciphertext variable decodes and has the canonical scale.  Stronger *)
(* than ScaleAgreement and DecryptCorrect, and preserved by every step.     *)
IInv ==
  /\ TypeOK
  /\ IF pc = "factors" THEN TablesPartial
     ELSE /\ TablesOK(scalingFactorsInt, scalingFactorsIntBig)
          /\ \A x \in Ciphertexts :
               Set(x) => Good(scalingFactorsInt, scalingFactorsIntBig, ct[x])
  /\ CallOK

(* Where the inductive invariant holds: a plaintext is encoded at a level   *)
(* that has a table entry, and no object is passed as both operands of a    *)
(* mutable multiplication that rescales.                                    *)
Contract ==
  /\ EncodeLevels \subseteq 0 .. LastFactor
  /\ Aliasing => ScalTech = "FIXEDMANUAL"
=============================================================================
