------------------------ MODULE BGVLeveledSHE_proof ------------------------
(* The proof that BGV's scale bookkeeping is right for every plaintext      *)
(* modulus, every number of moduli and every scaling technique.             *)
EXTENDS BGVLeveledSHE, TLAPS

-----------------------------------------------------------------------------
(* Consequences of the ring laws that the scale bookkeeping rests on.       *)

(* Multiplying by a unit and by its inverse changes nothing: the effect of  *)
(* pre-multiplying by q_l % t what ModReduce then divides by q_l.           *)
LEMMA MulDiv ==
  ASSUME NEW a \in Zt, NEW u \in Units
  PROVE  /\ ModMul(ModMul(a, u), ModInverse(u)) = a
         /\ ModMul(ModMul(a, ModInverse(u)), u) = a
<1> DEFINE i == ModInverse(u)
<1>1. u \in Zt /\ i \in Zt /\ ModMul(u, i) = One /\ One \in Zt
  BY RingClosed, UnitLaws
<1>2. ModMul(i, u) = One /\ ModMul(a, One) = a
  BY <1>1, RingLaws
<1>3. ModMul(ModMul(a, u), i) = ModMul(a, ModMul(u, i))
  BY <1>1, RingLaws
<1>4. ModMul(ModMul(a, i), u) = ModMul(a, ModMul(i, u))
  BY <1>1, RingLaws
<1> QED BY <1>1, <1>2, <1>3, <1>4

(* A product of products may be regrouped.                                  *)
LEMMA MulSwap ==
  ASSUME NEW a \in Zt, NEW b \in Zt, NEW c \in Zt, NEW d \in Zt
  PROVE  ModMul(ModMul(a, b), ModMul(c, d)) = ModMul(ModMul(a, c), ModMul(b, d))
<1>1. /\ ModMul(c, d) \in Zt /\ ModMul(b, d) \in Zt
      /\ ModMul(b, c) \in Zt /\ ModMul(c, b) \in Zt
  BY RingClosed
<1>2. ModMul(ModMul(a, b), ModMul(c, d)) = ModMul(a, ModMul(b, ModMul(c, d)))
  BY <1>1, RingLaws
<1>3. ModMul(b, ModMul(c, d)) = ModMul(ModMul(b, c), d)
  BY RingLaws
<1>4. ModMul(ModMul(b, c), d) = ModMul(ModMul(c, b), d)
  BY RingLaws
<1>5. ModMul(ModMul(c, b), d) = ModMul(c, ModMul(b, d))
  BY RingLaws
<1>6. ModMul(a, ModMul(c, ModMul(b, d))) = ModMul(ModMul(a, c), ModMul(b, d))
  BY <1>1, RingLaws
<1> QED BY <1>2, <1>3, <1>4, <1>5, <1>6

(* Scaling s * m by f gives a value with factor s * f.                      *)
LEMMA ScaleValue ==
  ASSUME NEW s \in Zt, NEW m \in Zt, NEW f \in Zt
  PROVE  ModMul(ModMul(s, m), f) = ModMul(ModMul(s, f), m)
<1>1. ModMul(ModMul(s, m), f) = ModMul(s, ModMul(m, f))
  BY RingLaws
<1>2. ModMul(m, f) = ModMul(f, m)
  BY RingLaws
<1>3. ModMul(s, ModMul(f, m)) = ModMul(ModMul(s, f), m)
  BY RingLaws
<1> QED BY <1>1, <1>2, <1>3

(* The factor h / s takes a scaling factor s to h.                          *)
LEMMA Retarget ==
  ASSUME NEW s \in Units, NEW h \in Zt
  PROVE  ModMul(s, ModMul(h, ModInverse(s))) = h
<1> DEFINE i == ModInverse(s)
<1>1. s \in Zt /\ i \in Zt /\ ModMul(h, i) \in Zt
  BY RingClosed, UnitLaws
<1>2. ModMul(s, ModMul(h, i)) = ModMul(ModMul(h, i), s)
  BY <1>1, RingLaws
<1> QED BY <1>2, MulDiv

(* The same when the value is then divided by a modulus that was multiplied *)
(* in beforehand.                                                           *)
LEMMA RetargetThrough ==
  ASSUME NEW s \in Units, NEW h \in Zt, NEW q \in Units
  PROVE  ModMul(ModMul(s, ModMul(ModMul(h, ModInverse(s)), q)), ModInverse(q)) = h
<1> DEFINE f == ModMul(h, ModInverse(s))
<1>1. s \in Zt /\ q \in Zt /\ ModInverse(s) \in Zt
  BY RingClosed, UnitLaws
<1>2. f \in Zt
  BY <1>1, RingClosed
<1>3. ModMul(s, f) = h
  BY Retarget
<1> HIDE DEF f
<1>4. ModMul(s, ModMul(f, q)) = ModMul(ModMul(s, f), q)
  BY <1>1, <1>2, RingLaws
<1>5. ModMul(s, ModMul(f, q)) = ModMul(h, q)
  BY <1>3, <1>4
<1>6. ModMul(ModMul(h, q), ModInverse(q)) = h
  BY MulDiv
<1> QED BY <1>5, <1>6 DEF f

(* Decoding with the tracked factor returns the message.                    *)
LEMMA DecodeValue ==
  ASSUME NEW s \in Units, NEW m \in Zt
  PROVE  ModMul(ModMul(s, m), ModInverse(s)) = m
<1> DEFINE i == ModInverse(s)
<1>1. s \in Zt /\ i \in Zt
  BY RingClosed, UnitLaws
<1>2. ModMul(s, m) = ModMul(m, s)
  BY <1>1, RingLaws
<1> QED BY <1>2, MulDiv

(* The inverse of one is one.                                               *)
LEMMA InverseOne == ModInverse(One) = One
<1>1. ModInverse(One) \in Zt /\ ModMul(One, ModInverse(One)) = One
  BY RingClosed, UnitLaws
<1> QED BY <1>1, RingLaws

-----------------------------------------------------------------------------

sf == scalingFactorsInt
big == scalingFactorsIntBig
Automatic == ScalTech /= "FIXEDMANUAL"

(* What stays true of a ciphertext in the middle of an adjustment, when its *)
(* degree and factor are not those of a level.                              *)
Sound(c) ==
  /\ c \in CtType
  /\ c.towers + c.level = SizeQ
  /\ Decodes(c)
  /\ ~Flexible => c.scf = One

-----------------------------------------------------------------------------
(* Lemmas about the in-place operations.                                    *)

(* The moduli: units, and 1 (mod t) unless the technique is FLEXIBLE.       *)
LEMMA ModulusUnit ==
  ASSUME NEW i \in Levels
  PROVE  /\ qModt[i] \in Units /\ qModt[i] \in Zt
         /\ ModInverse(qModt[i]) \in Units /\ ModInverse(qModt[i]) \in Zt
         /\ ~Flexible => ModInverse(qModt[i]) = One
         /\ GetModReduceFactorInt(i) = qModt[i]
BY ModuliAssumption, RingClosed, UnitLaws, InverseOne DEF GetModReduceFactorInt

(* ModReduce keeps the tracked factor in step with the encoded value.       *)
LEMMA ModReduceSound ==
  ASSUME NEW c, Sound(c), c.towers > 1
  PROVE  LET r == ModReduceInternalInPlace(c) IN
         /\ r.ok
         /\ Sound(r.c)
         /\ r.c.level = c.level + 1 /\ r.c.towers = c.towers - 1
         /\ r.c.noiseScaleDeg = DegMinus(c.noiseScaleDeg, 1)
         /\ r.c.msg = c.msg /\ r.c.compressed = c.compressed
         /\ r.c.scf = ModMul(c.scf, ModInverse(qModt[c.towers - 1]))
<1> DEFINE i == ModInverse(qModt[c.towers - 1])
           d == ModReduceInternalInPlace(c).c
           f == IF Flexible THEN ModMul(c.scf, i) ELSE c.scf
<1>1. c.towers - 1 \in Levels /\ c.level + 1 \in Levels /\ c.towers - 1 \in 1 .. SizeQ
  BY SizeQAssumption DEF Sound, CtType, Levels
<1>2. i \in Units /\ i \in Zt /\ (~Flexible => i = One)
      /\ GetModReduceFactorInt(c.towers - 1) = qModt[c.towers - 1]
  BY <1>1, ModulusUnit
<1>3. c.scf \in Units /\ c.scf \in Zt /\ c.msg \in Zt /\ c.val = ModMul(c.scf, c.msg)
  BY RingClosed DEF Sound, Decodes, CtType
<1>4. ModMul(c.scf, One) = c.scf
  BY <1>3, RingClosed, RingLaws
<1>5. f = ModMul(c.scf, i) /\ f \in Units /\ f \in Zt
  BY <1>2, <1>3, <1>4, UnitLaws, RingClosed
<1> HIDE DEF i, f
<1>6. ModMul(c.val, i) = ModMul(f, c.msg) /\ ModMul(c.val, i) \in Zt
  <2>1. ModMul(ModMul(c.scf, c.msg), i) = ModMul(ModMul(c.scf, i), c.msg)
    BY <1>2, <1>3, ScaleValue
  <2>2. ModMul(f, c.msg) \in Zt
    BY <1>3, <1>5, RingClosed
  <2> QED BY <2>1, <2>2, <1>3, <1>5
<1>7. DegMinus(c.noiseScaleDeg, 1) \in 0 .. DegMod - 1
  BY DegAssumption DEF Sound, CtType, DegMinus
<1>8. ModReduceInternalInPlace(c) =
        [ok |-> TRUE,
         c |-> [c EXCEPT !.val = ModMul(c.val, i), !.towers = c.towers - 1,
                         !.level = c.level + 1,
                         !.noiseScaleDeg = DegMinus(c.noiseScaleDeg, 1), !.scf = f]]
  BY <1>2 DEF ModReduceInternalInPlace, ModReduced, Returns, Sound, CtType, i, f
<1> HIDE DEF d
<1>9. /\ d \in CtType
      /\ d.val = ModMul(c.val, i) /\ d.towers = c.towers - 1 /\ d.level = c.level + 1
      /\ d.noiseScaleDeg = DegMinus(c.noiseScaleDeg, 1) /\ d.scf = f
      /\ d.msg = c.msg /\ d.compressed = c.compressed
  <2>1. d = [c EXCEPT !.val = ModMul(c.val, i), !.towers = c.towers - 1,
                      !.level = c.level + 1,
                      !.noiseScaleDeg = DegMinus(c.noiseScaleDeg, 1), !.scf = f]
    BY <1>8 DEF d
  <2>2. c \in CtType
    BY DEF Sound
  <2>3. ModMul(c.val, i) \in Zt
    BY <1>6
  <2>4. d \in CtType
    BY <2>1, <2>2, <2>3, <1>1, <1>5, <1>7 DEF CtType
  <2>5. /\ d.val = ModMul(c.val, i) /\ d.towers = c.towers - 1 /\ d.level = c.level + 1
        /\ d.noiseScaleDeg = DegMinus(c.noiseScaleDeg, 1) /\ d.scf = f
        /\ d.msg = c.msg /\ d.compressed = c.compressed
    BY <2>1, <2>2 DEF CtType
  <2> QED BY <2>4, <2>5
<1>10. Sound(d)
  <2>1. d.towers + d.level = SizeQ
    BY <1>9, SizeQAssumption DEF Sound, CtType, Levels
  <2>2. ~Flexible => d.scf = One
    BY <1>9 DEF Sound, f
  <2> QED BY <2>1, <2>2, <1>5, <1>6, <1>9 DEF Sound, Decodes
<1> QED BY <1>5, <1>8, <1>9, <1>10 DEF i, d

(* Dropping moduli changes the level and the towers together.               *)
LEMMA LevelReduceSound ==
  ASSUME NEW c, Sound(c), NEW n \in Nat, n < c.towers
  PROVE  LET r == LevelReduceInternalInPlace(c, n) IN
         /\ r.ok
         /\ Sound(r.c)
         /\ r.c.level = c.level + n /\ r.c.towers = c.towers - n
         /\ r.c.noiseScaleDeg = c.noiseScaleDeg /\ r.c.scf = c.scf
         /\ r.c.msg = c.msg /\ r.c.compressed = c.compressed
<1> DEFINE d == [c EXCEPT !.towers = c.towers - n, !.level = c.level + n]
<1>1. c \in CtType /\ c.towers + c.level = SizeQ
  BY DEF Sound
<1>2. LevelReduceInternalInPlace(c, n) = [ok |-> TRUE, c |-> d]
  BY <1>1 DEF LevelReduceInternalInPlace, Returns, CtType
<1>3. c.towers - n \in 1 .. SizeQ /\ c.level + n \in Levels
  BY <1>1, SizeQAssumption DEF CtType, Levels
<1>4. d \in CtType
  BY <1>1, <1>3 DEF CtType
<1>5. /\ d.level = c.level + n /\ d.towers = c.towers - n
      /\ d.noiseScaleDeg = c.noiseScaleDeg /\ d.scf = c.scf /\ d.val = c.val
      /\ d.msg = c.msg /\ d.compressed = c.compressed
  BY <1>1 DEF CtType
<1> HIDE DEF d
<1>6. d.towers + d.level = SizeQ
  BY <1>1, <1>5, SizeQAssumption DEF CtType, Levels
<1>7. Sound(d)
  BY <1>4, <1>5, <1>6 DEF Sound, Decodes
<1> QED BY <1>2, <1>5, <1>7

(* Multiplying by a scalar multiplies the factor too.                       *)
LEMMA ScalarSound ==
  ASSUME NEW c, Sound(c), NEW f \in Units, ~Flexible => f = One
  PROVE  LET d == EvalMultCoreInPlace(c, f) IN
         /\ Sound(d)
         /\ d.level = c.level /\ d.towers = c.towers
         /\ d.noiseScaleDeg = DegPlus(c.noiseScaleDeg, 1)
         /\ d.scf = ModMul(c.scf, f)
         /\ d.msg = c.msg /\ d.compressed = c.compressed
<1> DEFINE g == DegPlus(c.noiseScaleDeg, 1)
           s == ModMul(c.scf, f)
           d == [c EXCEPT !.val = ModMul(c.val, f), !.noiseScaleDeg = g, !.scf = s]
<1>1. c \in CtType /\ c.towers + c.level = SizeQ /\ (~Flexible => c.scf = One)
  BY DEF Sound
<1>2. c.scf \in Units /\ c.scf \in Zt /\ c.msg \in Zt /\ c.val = ModMul(c.scf, c.msg)
      /\ f \in Zt
  BY <1>1, RingClosed DEF Sound, Decodes, CtType
<1>3. ModMul(c.scf, One) = c.scf
  BY <1>2, RingClosed, RingLaws
<1>4. s \in Units /\ s \in Zt /\ s = (IF Flexible THEN ModMul(c.scf, f) ELSE c.scf)
  BY <1>2, <1>3, UnitLaws, RingClosed
<1>5. g \in 0 .. DegMod - 1
  BY <1>1, DegAssumption DEF CtType, DegPlus
<1> HIDE DEF g
<1>6. EvalMultCoreInPlace(c, f) = d
  BY <1>1, <1>4 DEF EvalMultCoreInPlace, CtType, g
<1> HIDE DEF s
<1>7. ModMul(c.val, f) = ModMul(s, c.msg)
  <2>1. ModMul(ModMul(c.scf, c.msg), f) = ModMul(ModMul(c.scf, f), c.msg)
    BY <1>2, ScaleValue
  <2> QED BY <2>1, <1>2 DEF s
<1>8. ModMul(c.val, f) \in Zt
  BY <1>2, <1>4, <1>7, RingClosed
<1>9. d \in CtType
  BY <1>1, <1>4, <1>5, <1>8 DEF CtType
<1>10. /\ d.level = c.level /\ d.towers = c.towers /\ d.noiseScaleDeg = g
       /\ d.scf = s /\ d.val = ModMul(c.val, f)
       /\ d.msg = c.msg /\ d.compressed = c.compressed
  BY <1>1 DEF CtType
<1> HIDE DEF d
<1>11. ~Flexible => d.scf = One
  BY <1>1, <1>4, <1>10
<1>12. Sound(d)
  BY <1>1, <1>4, <1>7, <1>9, <1>10, <1>11 DEF Sound, Decodes
<1> QED BY <1>6, <1>10, <1>12 DEF g, s

(* Setting the factor to what it already is changes nothing.                *)
LEMMA SetScaleSame ==
  ASSUME NEW o, o.ok, Sound(o.c)
  PROVE  SetScalingFactorInt(o, o.c.scf) = [ok |-> TRUE, c |-> o.c]
<1>1. o.c \in CtType
  BY DEF Sound
<1>2. [o.c EXCEPT !.scf = o.c.scf] = o.c
  BY <1>1 DEF CtType
<1> QED BY <1>2 DEF SetScalingFactorInt, Returns

-----------------------------------------------------------------------------
(* Lemmas about the adjustment.                                             *)

Usable(c) == c.compressed => ~Flexible

(* A good ciphertext in the terms the adjustment lemmas use.                *)
LEMMA GoodFacts ==
  ASSUME NEW c, Good(sf, big, c)
  PROVE  /\ Sound(c)
         /\ c \in CtType /\ c.level \in Levels /\ c.towers \in 1 .. SizeQ
         /\ c.towers + c.level = SizeQ
         /\ c.scf \in Units /\ c.scf \in Zt /\ ModInverse(c.scf) \in Units
         /\ ~Flexible => c.scf = One /\ ModInverse(c.scf) = One
         /\ Automatic => c.noiseScaleDeg \in {1, 2}
<1>1. c \in CtType /\ c.scf \in Units
  BY DEF Good, Decodes
<1>2. c.scf \in Zt /\ ModInverse(c.scf) \in Units
  BY <1>1, RingClosed, UnitLaws
<1>3. ~Flexible => c.scf = One /\ ModInverse(c.scf) = One
  BY InverseOne DEF Good
<1> QED BY <1>1, <1>2, <1>3 DEF Good, Sound, CtType, Automatic

(* A sound ciphertext with the factor of its level and degree is good.      *)
LEMMA GoodFromSound ==
  ASSUME NEW c, NEW hi, Sound(c), Good(sf, big, hi), Usable(hi),
         c.level = hi.level, c.noiseScaleDeg = hi.noiseScaleDeg, c.scf = hi.scf
  PROVE  Good(sf, big, c)
BY DEF Good, Sound, Usable

(* Rescaling from level h - 1 with the big factor of that level gives the   *)
(* factor of level h.                                                       *)
LEMMA BigFactor ==
  ASSUME TablesOK(sf, big), NEW h \in Levels, h > 0
  PROVE  LET B == GetScalingFactorIntBig(h - 1) IN
         /\ B \in Units /\ B \in Zt
         /\ ~Flexible => B = One
         /\ Flexible => ModMul(B, ModInverse(qModt[SizeQ - h])) = Scale1(sf, big, h)
<1>1. h - 1 \in 0 .. SizeQ - 2 /\ h - 1 \in Levels /\ h - 1 < SizeQ - 1
      /\ SizeQ - 1 - (h - 1) = SizeQ - h /\ h - 1 + 1 = h
  BY SizeQAssumption DEF Levels
<1>2. Flexible => GetScalingFactorIntBig(h - 1) = big[h - 1]
  BY <1>1 DEF GetScalingFactorIntBig, big
<1>3. ~Flexible => GetScalingFactorIntBig(h - 1) = One
  BY DEF GetScalingFactorIntBig
<1>4. Scale2(sf, big, h - 1) = big[h - 1] /\ Scale2(sf, big, h - 1) \in Units
  BY <1>1 DEF TablesOK, Scale2
<1>5. Scale1(sf, big, h - 1 + 1) = ModMul(big[h - 1], ModInverse(qModt[SizeQ - 1 - (h - 1)]))
  BY <1>1 DEF TablesOK
<1> QED BY <1>1, <1>2, <1>3, <1>4, <1>5, RingClosed

(* The factors the adjustment multiplies by are units, and 1 unless the     *)
(* technique is FLEXIBLE.                                                   *)
LEMMA AdjustFactor ==
  ASSUME NEW h \in Units, NEW s \in Units, NEW q \in Units,
         ~Flexible => h = One /\ s = One /\ q = One
  PROVE  /\ ModMul(h, ModInverse(s)) \in Units
         /\ ModMul(ModMul(h, ModInverse(s)), q) \in Units
         /\ ~Flexible => /\ ModMul(h, ModInverse(s)) = One
                         /\ ModMul(ModMul(h, ModInverse(s)), q) = One
<1>1. ModMul(One, One) = One
  BY RingClosed, RingLaws
<1>2. ~Flexible => ModMul(h, ModInverse(s)) = One
  BY <1>1, InverseOne
<1>3. ModMul(h, ModInverse(s)) \in Units
  BY UnitLaws
<1>4. ~Flexible => ModMul(ModMul(h, ModInverse(s)), q) = One
  BY <1>1, <1>2
<1> QED BY <1>2, <1>3, <1>4, UnitLaws

(* What raising lo to hi must produce.                                      *)
Raised(r, lo, hi) ==
  /\ r.ok
  /\ Sound(r.c)
  /\ r.c.level = hi.level /\ r.c.towers = hi.towers
  /\ r.c.noiseScaleDeg = hi.noiseScaleDeg
  /\ r.c.scf = hi.scf
  /\ r.c.msg = lo.msg /\ r.c.compressed = lo.compressed

(* Both operands of degree 2: the multiplication by the quotient of the     *)
(* factors and the rescaling bring lo to hi's factor.                       *)
LEMMA RaiseDeepOK ==
  ASSUME NEW lo, NEW hi, Good(sf, big, lo), Good(sf, big, hi),
         lo.level < hi.level, lo.noiseScaleDeg = 2, hi.noiseScaleDeg = 2
  PROVE  Raised(RaiseDeep(lo, hi), lo, hi)
<1> DEFINE q == qModt[lo.towers - 1]
           f == ModMul(ModMul(hi.scf, ModInverse(lo.scf)),
                       GetModReduceFactorInt(lo.towers - 1))
           a == EvalMultCoreInPlace(lo, f)
           b == ModReduceInternalInPlace(a)
           n == hi.level - lo.level - 1
           e == LevelReduceInternalInPlace(b.c, n)
<1>1. lo.towers - 1 \in Levels /\ lo.towers > 1 /\ n \in Nat /\ n < lo.towers - 1
      /\ lo.level + 1 + n = hi.level /\ lo.towers - 1 - n = hi.towers
  <2>1. /\ lo.level \in Levels /\ lo.towers \in 1 .. SizeQ /\ lo.towers + lo.level = SizeQ
        /\ hi.level \in Levels /\ hi.towers \in 1 .. SizeQ /\ hi.towers + hi.level = SizeQ
    BY GoodFacts
  <2> QED BY <2>1, SizeQAssumption DEF Levels
<1>2. q \in Units /\ GetModReduceFactorInt(lo.towers - 1) = q /\ (~Flexible => q = One)
  BY <1>1, ModulusUnit, ModuliAssumption
<1>3. f = ModMul(ModMul(hi.scf, ModInverse(lo.scf)), q)
  BY <1>2
<1>4. f \in Units /\ (~Flexible => f = One)
  BY <1>2, <1>3, GoodFacts, AdjustFactor
<1> HIDE DEF f
<1>5. /\ Sound(a) /\ a.level = lo.level /\ a.towers = lo.towers
      /\ a.noiseScaleDeg = DegPlus(2, 1) /\ a.scf = ModMul(lo.scf, f)
      /\ a.msg = lo.msg /\ a.compressed = lo.compressed
  <2>1. Sound(lo)
    BY GoodFacts
  <2> QED BY <2>1, <1>4, ScalarSound
<1> HIDE DEF a
<1>6. /\ b.ok /\ Sound(b.c) /\ b.c.level = lo.level + 1 /\ b.c.towers = lo.towers - 1
      /\ b.c.noiseScaleDeg = DegMinus(DegPlus(2, 1), 1)
      /\ b.c.scf = ModMul(ModMul(lo.scf, f), ModInverse(q))
      /\ b.c.msg = lo.msg /\ b.c.compressed = lo.compressed
  BY <1>1, <1>5, ModReduceSound
<1>7. b.c.noiseScaleDeg = 2
  BY <1>6, DegAssumption DEF DegPlus, DegMinus
<1>8. b.c.scf = hi.scf
  <2>1. lo.scf \in Units /\ hi.scf \in Zt
    BY GoodFacts
  <2>2. ModMul(ModMul(lo.scf, ModMul(ModMul(hi.scf, ModInverse(lo.scf)), q)), ModInverse(q))
          = hi.scf
    BY <2>1, <1>2, RetargetThrough
  <2> QED BY <2>2, <1>3, <1>6
<1> HIDE DEF b
<1>9. /\ e.ok /\ Sound(e.c) /\ e.c.level = hi.level /\ e.c.towers = hi.towers
      /\ e.c.noiseScaleDeg = 2 /\ e.c.scf = hi.scf
      /\ e.c.msg = lo.msg /\ e.c.compressed = lo.compressed
  BY <1>1, <1>6, <1>7, <1>8, LevelReduceSound
<1>10. RaiseDeep(lo, hi) = SetScalingFactorInt(e, e.c.scf)
  BY <1>6, <1>9 DEF RaiseDeep, Then, f, a, b
<1> HIDE DEF e
<1>11. RaiseDeep(lo, hi) = [ok |-> TRUE, c |-> e.c]
  BY <1>9, <1>10, SetScaleSame
<1> QED BY <1>9, <1>11 DEF Raised

(* An operand of degree 1 reaches hi's degree 2 and factor by the           *)
(* multiplication alone.                                                    *)
LEMMA RaiseShallowOK ==
  ASSUME NEW lo, NEW hi, Good(sf, big, lo), Good(sf, big, hi),
         lo.level < hi.level, lo.noiseScaleDeg = 1, hi.noiseScaleDeg = 2
  PROVE  Raised(RaiseShallow(lo, hi), lo, hi)
<1> DEFINE f == ModMul(hi.scf, ModInverse(lo.scf))
           a == EvalMultCoreInPlace(lo, f)
           n == hi.level - lo.level
           e == LevelReduceInternalInPlace(a, n)
<1>1. n \in Nat /\ n < lo.towers /\ lo.level + n = hi.level /\ lo.towers - n = hi.towers
  <2>1. /\ lo.level \in Levels /\ lo.towers \in 1 .. SizeQ /\ lo.towers + lo.level = SizeQ
        /\ hi.level \in Levels /\ hi.towers \in 1 .. SizeQ /\ hi.towers + hi.level = SizeQ
    BY GoodFacts
  <2> QED BY <2>1, SizeQAssumption DEF Levels
<1>2. f \in Units /\ (~Flexible => f = One)
  BY GoodFacts, AdjustFactor
<1>3. ModMul(lo.scf, f) = hi.scf
  BY GoodFacts, Retarget
<1> HIDE DEF f
<1>4. /\ Sound(a) /\ a.level = lo.level /\ a.towers = lo.towers
      /\ a.noiseScaleDeg = DegPlus(1, 1) /\ a.scf = ModMul(lo.scf, f)
      /\ a.msg = lo.msg /\ a.compressed = lo.compressed
  <2>1. Sound(lo)
    BY GoodFacts
  <2> QED BY <2>1, <1>2, ScalarSound
<1>5. a.noiseScaleDeg = 2
  BY <1>4, DegAssumption DEF DegPlus
<1> HIDE DEF a
<1>6. /\ e.ok /\ Sound(e.c) /\ e.c.level = hi.level /\ e.c.towers = hi.towers
      /\ e.c.noiseScaleDeg = 2 /\ e.c.scf = hi.scf
      /\ e.c.msg = lo.msg /\ e.c.compressed = lo.compressed
  BY <1>1, <1>3, <1>4, <1>5, LevelReduceSound
<1>7. RaiseShallow(lo, hi) = SetScalingFactorInt(e, e.c.scf)
  BY <1>6 DEF RaiseShallow, f, a
<1> HIDE DEF e
<1>8. RaiseShallow(lo, hi) = [ok |-> TRUE, c |-> e.c]
  BY <1>6, <1>7, SetScaleSame
<1> QED BY <1>6, <1>8 DEF Raised

(* Degree 1 to degree 1: the rescaling from the level above hi turns that   *)
(* level's big factor into hi's factor.                                     *)
LEMMA RaiseOnceOK ==
  ASSUME NEW lo, NEW hi, Good(sf, big, lo), Good(sf, big, hi), TablesOK(sf, big), Usable(hi),
         lo.level < hi.level, lo.noiseScaleDeg = 1, hi.noiseScaleDeg = 1
  PROVE  Raised(RaiseOnce(lo, hi), lo, hi)
<1> DEFINE B == GetScalingFactorIntBig(hi.level - 1)
           f == ModMul(B, ModInverse(lo.scf))
           a == EvalMultCoreInPlace(lo, f)
           n == hi.level - lo.level - 1
           b == LevelReduceInternalInPlace(a, n)
           e == ModReduceInternalInPlace(b.c)
<1>1. n \in Nat /\ n < lo.towers /\ lo.level + n + 1 = hi.level
      /\ lo.towers - n - 1 = hi.towers /\ lo.towers - n > 1 /\ lo.towers - n - 1 = SizeQ - hi.level
      /\ hi.level > 0 /\ hi.level \in Levels
  <2>1. /\ lo.level \in Levels /\ lo.towers \in 1 .. SizeQ /\ lo.towers + lo.level = SizeQ
        /\ hi.level \in Levels /\ hi.towers \in 1 .. SizeQ /\ hi.towers + hi.level = SizeQ
    BY GoodFacts
  <2>2. lo.level \in Int /\ lo.towers \in Int /\ hi.level \in Int /\ hi.towers \in Int
        /\ SizeQ \in Int /\ hi.towers > 0 /\ lo.level >= 0
    BY <2>1, SizeQAssumption DEF Levels
  <2> QED BY <2>1, <2>2
<1>2. B \in Units /\ B \in Zt /\ (~Flexible => B = One)
      /\ (Flexible => ModMul(B, ModInverse(qModt[SizeQ - hi.level])) = hi.scf)
  <2>1. Flexible => Scale1(sf, big, hi.level) = hi.scf
    BY DEF Good, Scale, Usable
  <2> QED BY <2>1, <1>1, BigFactor
<1> HIDE DEF B
<1>3. f \in Units /\ (~Flexible => f = One)
  BY <1>2, GoodFacts, AdjustFactor
<1>4. ModMul(lo.scf, f) = B
  BY <1>2, GoodFacts, Retarget
<1> HIDE DEF f
<1>5. /\ Sound(a) /\ a.level = lo.level /\ a.towers = lo.towers
      /\ a.noiseScaleDeg = DegPlus(1, 1) /\ a.scf = B
      /\ a.msg = lo.msg /\ a.compressed = lo.compressed
  <2>1. Sound(lo)
    BY GoodFacts
  <2> QED BY <2>1, <1>3, <1>4, ScalarSound
<1> HIDE DEF a
<1>6. /\ b.ok /\ Sound(b.c) /\ b.c.level = lo.level + n /\ b.c.towers = lo.towers - n
      /\ b.c.noiseScaleDeg = DegPlus(1, 1) /\ b.c.scf = B
      /\ b.c.msg = lo.msg /\ b.c.compressed = lo.compressed
  BY <1>1, <1>5, LevelReduceSound
<1> HIDE DEF b
<1>7. /\ e.ok /\ Sound(e.c) /\ e.c.level = hi.level /\ e.c.towers = hi.towers
      /\ e.c.noiseScaleDeg = DegMinus(DegPlus(1, 1), 1)
      /\ e.c.scf = ModMul(B, ModInverse(qModt[SizeQ - hi.level]))
      /\ e.c.msg = lo.msg /\ e.c.compressed = lo.compressed
  BY <1>1, <1>6, ModReduceSound
<1>8. e.c.noiseScaleDeg = 1
  BY <1>7, DegAssumption DEF DegPlus, DegMinus
<1>9. e.c.scf = hi.scf
  <2>1. ~Flexible => e.c.scf = One /\ hi.scf = One
    BY <1>7, GoodFacts DEF Sound
  <2> QED BY <2>1, <1>2, <1>7
<1>10. RaiseOnce(lo, hi) = SetScalingFactorInt(e, e.c.scf)
  BY <1>6, <1>9 DEF RaiseOnce, Then, B, f, a, b
<1> HIDE DEF e
<1>11. RaiseOnce(lo, hi) = [ok |-> TRUE, c |-> e.c]
  BY <1>7, <1>10, SetScaleSame
<1> QED BY <1>7, <1>8, <1>9, <1>11 DEF Raised

(* Degree 2 to degree 1 across several levels: the second rescaling is done *)
(* at the level above hi, so it leaves hi's factor.                         *)
LEMMA RaiseTwiceOK ==
  ASSUME NEW lo, NEW hi, Good(sf, big, lo), Good(sf, big, hi), TablesOK(sf, big), Usable(hi),
         lo.level + 1 < hi.level, lo.noiseScaleDeg = 2, hi.noiseScaleDeg = 1
  PROVE  Raised(RaiseTwice(lo, hi), lo, hi)
<1> DEFINE B == GetScalingFactorIntBig(hi.level - 1)
           q == qModt[lo.towers - 1]
           f == ModMul(ModMul(B, ModInverse(lo.scf)), GetModReduceFactorInt(lo.towers - 1))
           a == EvalMultCoreInPlace(lo, f)
           b == ModReduceInternalInPlace(a)
           n == hi.level - lo.level - 2
           d == LevelReduceInternalInPlace(b.c, n)
           e == ModReduceInternalInPlace(d.c)
<1>1. n \in Nat /\ n < lo.towers - 1 /\ lo.level + 1 + n + 1 = hi.level
      /\ lo.towers - 1 - n - 1 = hi.towers /\ lo.towers - 1 - n > 1
      /\ lo.towers - 1 - n - 1 = SizeQ - hi.level
      /\ hi.level > 0 /\ hi.level \in Levels /\ lo.towers - 1 \in Levels /\ lo.towers > 1
  <2>1. /\ lo.level \in Levels /\ lo.towers \in 1 .. SizeQ /\ lo.towers + lo.level = SizeQ
        /\ hi.level \in Levels /\ hi.towers \in 1 .. SizeQ /\ hi.towers + hi.level = SizeQ
    BY GoodFacts
  <2> QED BY <2>1, SizeQAssumption DEF Levels
<1>2. B \in Units /\ B \in Zt /\ (~Flexible => B = One)
      /\ (Flexible => ModMul(B, ModInverse(qModt[SizeQ - hi.level])) = hi.scf)
  <2>1. Flexible => Scale1(sf, big, hi.level) = hi.scf
    BY DEF Good, Scale, Usable
  <2> QED BY <2>1, <1>1, BigFactor
<1> HIDE DEF B
<1>3. q \in Units /\ GetModReduceFactorInt(lo.towers - 1) = q /\ (~Flexible => q = One)
  BY <1>1, ModulusUnit, ModuliAssumption
<1>4. f = ModMul(ModMul(B, ModInverse(lo.scf)), q)
  BY <1>3
<1>5. f \in Units /\ (~Flexible => f = One)
  BY <1>2, <1>3, <1>4, GoodFacts, AdjustFactor
<1> HIDE DEF f
<1>6. /\ Sound(a) /\ a.level = lo.level /\ a.towers = lo.towers
      /\ a.noiseScaleDeg = DegPlus(2, 1) /\ a.scf = ModMul(lo.scf, f)
      /\ a.msg = lo.msg /\ a.compressed = lo.compressed
  <2>1. Sound(lo)
    BY GoodFacts
  <2> QED BY <2>1, <1>5, ScalarSound
<1> HIDE DEF a
<1>7. /\ b.ok /\ Sound(b.c) /\ b.c.level = lo.level + 1 /\ b.c.towers = lo.towers - 1
      /\ b.c.noiseScaleDeg = DegMinus(DegPlus(2, 1), 1)
      /\ b.c.scf = ModMul(ModMul(lo.scf, f), ModInverse(q))
      /\ b.c.msg = lo.msg /\ b.c.compressed = lo.compressed
  BY <1>1, <1>6, ModReduceSound
<1>8. b.c.noiseScaleDeg = 2
  BY <1>7, DegAssumption DEF DegPlus, DegMinus
<1>9. b.c.scf = B
  <2>1. lo.scf \in Units
    BY GoodFacts
  <2>2. ModMul(ModMul(lo.scf, ModMul(ModMul(B, ModInverse(lo.scf)), q)), ModInverse(q)) = B
    BY <2>1, <1>2, <1>3, RetargetThrough
  <2> QED BY <2>2, <1>4, <1>7
<1> HIDE DEF b
<1>10. /\ d.ok /\ Sound(d.c) /\ d.c.level = lo.level + 1 + n /\ d.c.towers = lo.towers - 1 - n
       /\ d.c.noiseScaleDeg = 2 /\ d.c.scf = B
       /\ d.c.msg = lo.msg /\ d.c.compressed = lo.compressed
  BY <1>1, <1>7, <1>8, <1>9, LevelReduceSound
<1> HIDE DEF d
<1>11. /\ e.ok /\ Sound(e.c) /\ e.c.level = hi.level /\ e.c.towers = hi.towers
       /\ e.c.noiseScaleDeg = DegMinus(2, 1)
       /\ e.c.scf = ModMul(B, ModInverse(qModt[SizeQ - hi.level]))
       /\ e.c.msg = lo.msg /\ e.c.compressed = lo.compressed
  BY <1>1, <1>10, ModReduceSound
<1>12. e.c.noiseScaleDeg = 1
  BY <1>11, DegAssumption DEF DegMinus
<1>13. e.c.scf = hi.scf
  <2>1. ~Flexible => e.c.scf = One /\ hi.scf = One
    BY <1>11, GoodFacts DEF Sound
  <2> QED BY <2>1, <1>2, <1>11
<1>14. RaiseTwice(lo, hi) = SetScalingFactorInt(e, e.c.scf)
  BY <1>7, <1>10, <1>13 DEF RaiseTwice, Then, B, f, a, b, d
<1> HIDE DEF e
<1>15. RaiseTwice(lo, hi) = [ok |-> TRUE, c |-> e.c]
  BY <1>11, <1>14, SetScaleSame
<1> QED BY <1>11, <1>12, <1>13, <1>15 DEF Raised

(* Rescaling a ciphertext of degree 2 gives one of degree 1 with the factor *)
(* of the next level; with the manual technique the degree does not matter. *)
LEMMA ModReduceGood ==
  ASSUME NEW c, Good(sf, big, c), TablesOK(sf, big), c.towers > 1,
         Automatic => c.noiseScaleDeg = 2
  PROVE  LET r == ModReduceInternalInPlace(c) IN
         /\ r.ok
         /\ Good(sf, big, r.c)
         /\ r.c.level = c.level + 1 /\ r.c.towers = c.towers - 1
         /\ Automatic => r.c.noiseScaleDeg = 1
         /\ r.c.msg = c.msg /\ r.c.compressed = c.compressed
         /\ (Flexible /\ ~c.compressed) => r.c.scf = Scale1(sf, big, c.level + 1)
<1> DEFINE r == ModReduceInternalInPlace(c)
           h == c.level + 1
<1>1. /\ Sound(c) /\ c.level \in Levels /\ c.towers \in 1 .. SizeQ
      /\ c.towers + c.level = SizeQ
  BY GoodFacts
<1>2. h \in Levels /\ h > 0 /\ h - 1 = c.level /\ SizeQ - h = c.towers - 1 /\ c.level < SizeQ - 1
  BY <1>1, SizeQAssumption DEF Levels
<1>3. /\ r.ok /\ Sound(r.c)
      /\ r.c.level = c.level + 1 /\ r.c.towers = c.towers - 1
      /\ r.c.noiseScaleDeg = DegMinus(c.noiseScaleDeg, 1)
      /\ r.c.msg = c.msg /\ r.c.compressed = c.compressed
      /\ r.c.scf = ModMul(c.scf, ModInverse(qModt[c.towers - 1]))
  BY <1>1, ModReduceSound
<1> HIDE DEF r
<1>4. Automatic => r.c.noiseScaleDeg = 1
  BY <1>3, DegAssumption DEF DegMinus
<1>5. (Flexible /\ ~c.compressed) => r.c.scf = Scale1(sf, big, h)
  <2> SUFFICES ASSUME Flexible, ~c.compressed PROVE r.c.scf = Scale1(sf, big, h)
    OBVIOUS
  <2>1. Automatic
    BY DEF Automatic, Flexible, FLEXIBLE
  <2>2. c.scf = Scale2(sf, big, c.level)
    BY <2>1 DEF Good, Scale
  <2>3. c.scf = GetScalingFactorIntBig(h - 1)
    BY <2>2, <1>2 DEF Scale2, GetScalingFactorIntBig, big
  <2>4. ModMul(GetScalingFactorIntBig(h - 1), ModInverse(qModt[SizeQ - h])) = Scale1(sf, big, h)
    BY <1>2, BigFactor
  <2> QED BY <2>3, <2>4, <1>2, <1>3
<1>6. Flexible => Automatic
  BY DEF Automatic, Flexible, FLEXIBLE
<1>7. Good(sf, big, r.c)
  BY <1>1, <1>2, <1>3, <1>4, <1>5, <1>6 DEF Good, Sound, Scale, Automatic, Levels
<1> QED BY <1>3, <1>4, <1>5, <1>7 DEF r

(* Whatever the two degrees are, the adjustment brings the operand with more*)
(* moduli to the level, degree and factor of the other.                     *)
LEMMA RaiseOK ==
  ASSUME NEW lo, NEW hi, Automatic, Good(sf, big, lo), Good(sf, big, hi), TablesOK(sf, big),
         Usable(lo), Usable(hi), lo.level < hi.level
  PROVE  Raised(Raise(lo, hi), lo, hi)
<1>1. lo.noiseScaleDeg \in {1, 2} /\ hi.noiseScaleDeg \in {1, 2}
      /\ lo.level \in Nat /\ hi.level \in Nat
  BY GoodFacts DEF Levels
<1>2. CASE lo.noiseScaleDeg = 2 /\ hi.noiseScaleDeg = 2
  BY <1>2, RaiseDeepOK DEF Raise
<1>3. CASE lo.noiseScaleDeg = 2 /\ hi.noiseScaleDeg = 1 /\ lo.level + 1 = hi.level
  <2> DEFINE r == ModReduceInternalInPlace(lo)
  <2>1. /\ lo.level \in Levels /\ lo.towers \in 1 .. SizeQ /\ lo.towers + lo.level = SizeQ
        /\ hi.level \in Levels /\ hi.towers \in 1 .. SizeQ /\ hi.towers + hi.level = SizeQ
    BY GoodFacts
  <2>2. lo.towers > 1 /\ lo.towers - 1 = hi.towers
    BY <1>3, <2>1, SizeQAssumption DEF Levels
  <2>3. /\ r.ok /\ Good(sf, big, r.c)
        /\ r.c.level = lo.level + 1 /\ r.c.towers = lo.towers - 1
        /\ r.c.noiseScaleDeg = 1
        /\ r.c.msg = lo.msg /\ r.c.compressed = lo.compressed
        /\ (Flexible /\ ~lo.compressed) => r.c.scf = Scale1(sf, big, lo.level + 1)
    BY <1>3, <2>2, ModReduceGood
  <2> HIDE DEF r
  <2>4. Sound(r.c) /\ (~Flexible => r.c.scf = One /\ hi.scf = One)
    BY <2>3, GoodFacts
  <2>5. Flexible => hi.scf = Scale1(sf, big, hi.level)
    BY <1>3 DEF Good, Scale, Usable
  <2>6. r.c.scf = hi.scf
    BY <1>3, <2>3, <2>4, <2>5 DEF Usable
  <2>7. Raise(lo, hi) = r
    BY <1>3 DEF Raise, r
  <2> QED BY <1>3, <2>2, <2>3, <2>4, <2>6, <2>7 DEF Raised
<1>4. CASE lo.noiseScaleDeg = 2 /\ hi.noiseScaleDeg = 1 /\ lo.level + 1 /= hi.level
  <2>1. lo.level + 1 < hi.level
    BY <1>1, <1>4
  <2> QED BY <1>4, <2>1, RaiseTwiceOK DEF Raise
<1>5. CASE lo.noiseScaleDeg = 1 /\ hi.noiseScaleDeg = 2
  BY <1>5, RaiseShallowOK DEF Raise
<1>6. CASE lo.noiseScaleDeg = 1 /\ hi.noiseScaleDeg = 1
  BY <1>6, RaiseOnceOK DEF Raise
<1> QED BY <1>1, <1>2, <1>3, <1>4, <1>5, <1>6

(* After the adjustment both operands are good and alike, and each still    *)
(* holds its message.                                                       *)
Alike(a) ==
  /\ a.c1.level = a.c2.level /\ a.c1.towers = a.c2.towers
  /\ a.c1.noiseScaleDeg = a.c2.noiseScaleDeg
  /\ a.c1.scf = a.c2.scf

Kept(a, c1, c2) ==
  /\ Good(sf, big, a.c1) /\ Good(sf, big, a.c2)
  /\ a.c1.msg = c1.msg /\ a.c1.compressed = c1.compressed
  /\ a.c2.msg = c2.msg /\ a.c2.compressed = c2.compressed

(* The automatic adjustment never throws, leaves two operands alike and     *)
(* changes neither message.                                                 *)
LEMMA AdjustOK ==
  ASSUME NEW c1, NEW c2, Automatic, Good(sf, big, c1), Good(sf, big, c2), TablesOK(sf, big),
         Usable(c1), Usable(c2)
  PROVE  LET a == AdjustLevelsAndDepthInPlace(c1, c2) IN
         a.ok /\ Alike(a) /\ Kept(a, c1, c2)
<1> DEFINE a == AdjustLevelsAndDepthInPlace(c1, c2)
<1>1. /\ c1.level \in Int /\ c1.noiseScaleDeg \in {1, 2} /\ c1.towers \in Int
      /\ c2.level \in Int /\ c2.noiseScaleDeg \in {1, 2} /\ c2.towers \in Int
      /\ c1.towers + c1.level = SizeQ /\ c2.towers + c2.level = SizeQ
  BY GoodFacts DEF Levels
<1>2. CASE c1.level < c2.level
  <2> DEFINE r == Raise(c1, c2)
  <2>1. Raised(r, c1, c2)
    BY <1>2, RaiseOK
  <2> HIDE DEF r
  <2>2. Good(sf, big, r.c)
    BY <2>1, GoodFromSound DEF Raised
  <2>3. a = Pair(r.ok, r.c, c2)
    BY <1>2 DEF AdjustLevelsAndDepthInPlace, r
  <2> QED BY <2>1, <2>2, <2>3 DEF Raised, Alike, Kept, Pair
<1>3. CASE c1.level > c2.level
  <2> DEFINE r == Raise(c2, c1)
  <2>1. Raised(r, c2, c1)
    BY <1>1, <1>3, RaiseOK
  <2> HIDE DEF r
  <2>2. Good(sf, big, r.c)
    BY <2>1, GoodFromSound DEF Raised
  <2>3. a = Pair(r.ok, c1, r.c)
    BY <1>1, <1>3 DEF AdjustLevelsAndDepthInPlace, r
  <2> QED BY <2>1, <2>2, <2>3 DEF Raised, Alike, Kept, Pair
<1>4. CASE c1.level = c2.level
  <2>1. a = Pair(TRUE, Deepen(c1, c2), Deepen(c2, c1))
    <3>1. ~(c1.level < c2.level) /\ ~(c1.level > c2.level)
      BY <1>1, <1>4
    <3> QED BY <3>1 DEF AdjustLevelsAndDepthInPlace
  <2>2. c1.towers = c2.towers
    BY <1>1, <1>4, SizeQAssumption
  <2>3. ASSUME NEW c, NEW d, Good(sf, big, c), Good(sf, big, d), Usable(c), Usable(d),
               c.level = d.level, c.noiseScaleDeg = 1, d.noiseScaleDeg = 2
        PROVE  LET e == EvalMultCoreInPlace(c, c.scf) IN
               /\ Good(sf, big, e) /\ e.level = c.level /\ e.towers = c.towers
               /\ e.noiseScaleDeg = 2 /\ e.scf = d.scf
               /\ e.msg = c.msg /\ e.compressed = c.compressed
    <3> DEFINE e == EvalMultCoreInPlace(c, c.scf)
    <3>1. Sound(c) /\ c.scf \in Units /\ (~Flexible => c.scf = One) /\ c.level \in Levels
      BY <2>3, GoodFacts
    <3>2. /\ Sound(e) /\ e.level = c.level /\ e.towers = c.towers
          /\ e.noiseScaleDeg = DegPlus(1, 1) /\ e.scf = ModMul(c.scf, c.scf)
          /\ e.msg = c.msg /\ e.compressed = c.compressed
      BY <2>3, <3>1, ScalarSound
    <3> HIDE DEF e
    <3>3. e.noiseScaleDeg = 2
      BY <3>2, DegAssumption DEF DegPlus
    <3>4. e.scf = d.scf
      <4>1. CASE Flexible
        <5>1. c.scf = Scale1(sf, big, c.level) /\ ~(Ext /\ c.level = 0)
          BY <2>3, <4>1 DEF Good, Scale, Usable
        <5>2. d.scf = Scale2(sf, big, c.level)
          BY <2>3, <4>1 DEF Good, Scale, Usable
        <5> QED BY <3>1, <3>2, <5>1, <5>2 DEF TablesOK
      <4>2. CASE ~Flexible
        BY <2>3, <3>2, <4>2, GoodFacts DEF Sound
      <4> QED BY <4>1, <4>2
    <3>5. Good(sf, big, e)
      BY <2>3, <3>2, <3>3, <3>4, GoodFromSound
    <3> QED BY <3>2, <3>3, <3>4, <3>5 DEF e
  <2>4. CASE c1.noiseScaleDeg = 1 /\ c2.noiseScaleDeg = 2
    <3>1. Deepen(c1, c2) = EvalMultCoreInPlace(c1, c1.scf) /\ Deepen(c2, c1) = c2
      BY <2>4 DEF Deepen
    <3> QED BY <2>1, <2>2, <2>3, <2>4, <1>4, <3>1 DEF Alike, Kept, Pair
  <2>5. CASE c1.noiseScaleDeg = 2 /\ c2.noiseScaleDeg = 1
    <3>1. Deepen(c2, c1) = EvalMultCoreInPlace(c2, c2.scf) /\ Deepen(c1, c2) = c1
      BY <2>5 DEF Deepen
    <3> QED BY <2>1, <2>2, <2>3, <2>5, <1>4, <3>1 DEF Alike, Kept, Pair
  <2>6. CASE c1.noiseScaleDeg = c2.noiseScaleDeg
    <3>1. Deepen(c1, c2) = c1 /\ Deepen(c2, c1) = c2
      BY <1>1, <2>6 DEF Deepen
    <3>2. c1.scf = c2.scf
      BY <1>4, <2>6 DEF Good, Usable
    <3> QED BY <2>1, <2>2, <2>6, <1>4, <3>1, <3>2 DEF Alike, Kept, Pair
  <2> QED BY <1>1, <2>4, <2>5, <2>6
<1> QED BY <1>1, <1>2, <1>3, <1>4

(* The adjustment before a multiplication ends at degree 1, or throws with  *)
(* both operands still good.                                                *)
LEMMA AdjustToOneOK ==
  ASSUME NEW c1, NEW c2, Automatic, Good(sf, big, c1), Good(sf, big, c2), TablesOK(sf, big),
         Usable(c1), Usable(c2)
  PROVE  LET b == AdjustLevelsAndDepthToOneInPlace(c1, c2) IN
         /\ Kept(b, c1, c2)
         /\ Alike(b)
         /\ b.ok => b.c1.noiseScaleDeg = 1
<1> DEFINE a == AdjustLevelsAndDepthInPlace(c1, c2)
           r1 == ModReduceInternalInPlace(a.c1)
           r2 == ModReduceInternalInPlace(a.c2)
           b == AdjustLevelsAndDepthToOneInPlace(c1, c2)
<1>1. a.ok /\ Alike(a) /\ Kept(a, c1, c2)
  BY AdjustOK
<1>2. b = IF a.ok /\ a.c1.noiseScaleDeg = 2
          THEN Pair(r1.ok /\ r2.ok, r1.c, IF r1.ok THEN r2.c ELSE a.c2) ELSE a
  BY DEF AdjustLevelsAndDepthToOneInPlace, RescaleBoth
<1> HIDE DEF a, b
<1>3. CASE a.c1.noiseScaleDeg /= 2
  <2>1. b = a
    BY <1>2, <1>3
  <2>2. a.c1.noiseScaleDeg = 1
    BY <1>1, <1>3, GoodFacts DEF Kept
  <2> QED BY <2>1, <2>2, <1>1 DEF b
<1>4. CASE a.c1.noiseScaleDeg = 2 /\ a.c1.towers > 1
  <2>1. /\ r1.ok /\ Good(sf, big, r1.c)
        /\ r1.c.level = a.c1.level + 1 /\ r1.c.towers = a.c1.towers - 1
        /\ r1.c.noiseScaleDeg = 1
        /\ r1.c.msg = a.c1.msg /\ r1.c.compressed = a.c1.compressed
        /\ (Flexible /\ ~a.c1.compressed) => r1.c.scf = Scale1(sf, big, a.c1.level + 1)
    BY <1>1, <1>4, ModReduceGood DEF Kept
  <2>2. /\ r2.ok /\ Good(sf, big, r2.c)
        /\ r2.c.level = a.c1.level + 1 /\ r2.c.towers = a.c1.towers - 1
        /\ r2.c.noiseScaleDeg = 1
        /\ r2.c.msg = a.c2.msg /\ r2.c.compressed = a.c2.compressed
        /\ (Flexible /\ ~a.c2.compressed) => r2.c.scf = Scale1(sf, big, a.c1.level + 1)
    <3>1. a.c2.towers > 1 /\ a.c2.noiseScaleDeg = 2 /\ Good(sf, big, a.c2)
          /\ a.c2.level = a.c1.level /\ a.c2.towers = a.c1.towers
      BY <1>1, <1>4 DEF Kept, Alike
    <3> QED BY <3>1, ModReduceGood
  <2>3. r1.c.scf = r2.c.scf
    <3>1. CASE Flexible
      BY <1>1, <2>1, <2>2, <3>1 DEF Kept, Usable
    <3>2. CASE ~Flexible
      BY <2>1, <2>2, <3>2, GoodFacts
    <3> QED BY <3>1, <3>2
  <2>4. b = Pair(TRUE, r1.c, r2.c)
    BY <1>1, <1>2, <1>4, <2>1, <2>2
  <2> HIDE DEF r1, r2
  <2> QED BY <1>1, <2>1, <2>2, <2>3, <2>4 DEF b, Kept, Alike, Pair
<1>5. CASE a.c1.noiseScaleDeg = 2 /\ ~(a.c1.towers > 1)
  <2>1. r1 = [ok |-> FALSE, c |-> a.c1]
    BY <1>5 DEF ModReduceInternalInPlace, Throws
  <2> HIDE DEF r1, r2
  <2>2. r1.ok = FALSE /\ r1.c = a.c1
    BY <2>1
  <2>3. (r1.ok /\ r2.ok) = FALSE
    BY <2>2
  <2>4. b = Pair(FALSE, a.c1, a.c2)
    BY <1>1, <1>2, <1>5, <2>2, <2>3
  <2> QED BY <1>1, <2>4 DEF b, Kept, Alike, Pair
<1> QED BY <1>3, <1>4, <1>5

(* The manual technique aligns the towers.                                  *)
LEMMA AdjustLevelsOK ==
  ASSUME NEW c1, NEW c2, ~Automatic, Good(sf, big, c1), Good(sf, big, c2)
  PROVE  LET a == AdjustLevelsInPlace(c1, c2) IN
         /\ a.ok /\ Kept(a, c1, c2)
         /\ a.c1.level = a.c2.level /\ a.c1.towers = a.c2.towers /\ a.c1.scf = a.c2.scf
         /\ a.c1.noiseScaleDeg = c1.noiseScaleDeg /\ a.c2.noiseScaleDeg = c2.noiseScaleDeg
<1> DEFINE a == AdjustLevelsInPlace(c1, c2)
<1>1. ~Flexible
  BY DEF Automatic, Flexible, FLEXIBLE
<1>2. /\ c1.level \in Levels /\ c1.towers \in 1 .. SizeQ /\ c1.towers + c1.level = SizeQ
      /\ c2.level \in Levels /\ c2.towers \in 1 .. SizeQ /\ c2.towers + c2.level = SizeQ
      /\ c1.scf = One /\ c2.scf = One
  BY <1>1, GoodFacts
<1>3. c1.towers \in Int /\ c2.towers \in Int /\ c1.level \in Int /\ c2.level \in Int
      /\ c1.towers > 0 /\ c2.towers > 0 /\ SizeQ \in Int
  BY <1>2, SizeQAssumption DEF Levels
<1>4. ASSUME NEW c, NEW d, Good(sf, big, c), c.towers \in Int, d.towers \in Int,
             d.towers > 0, c.towers > d.towers, d.towers + d.level = SizeQ,
             c.level \in Int, d.level \in Int, c.towers + c.level = SizeQ
      PROVE  LET r == LevelReduceInternalInPlace(c, c.towers - d.towers) IN
             /\ r.ok /\ Good(sf, big, r.c) /\ r.c.level = d.level /\ r.c.towers = d.towers
             /\ r.c.noiseScaleDeg = c.noiseScaleDeg /\ r.c.scf = One
             /\ r.c.msg = c.msg /\ r.c.compressed = c.compressed
  <2> DEFINE r == LevelReduceInternalInPlace(c, c.towers - d.towers)
  <2>1. c.towers - d.towers \in Nat /\ c.towers - d.towers < c.towers
        /\ c.level + (c.towers - d.towers) = d.level
        /\ c.towers - (c.towers - d.towers) = d.towers
    BY <1>3, <1>4
  <2>2. Sound(c)
    BY <1>4, GoodFacts
  <2>3. /\ r.ok /\ Sound(r.c) /\ r.c.level = d.level /\ r.c.towers = d.towers
        /\ r.c.noiseScaleDeg = c.noiseScaleDeg
        /\ r.c.msg = c.msg /\ r.c.compressed = c.compressed
    BY <2>1, <2>2, LevelReduceSound
  <2> HIDE DEF r
  <2>4. Good(sf, big, r.c) /\ r.c.scf = One
    BY <1>1, <2>3 DEF Good, Sound, Automatic
  <2> QED BY <2>3, <2>4 DEF r
<1>5. CASE c1.towers < c2.towers
  <2> DEFINE r == LevelReduceInternalInPlace(c2, c2.towers - c1.towers)
  <2>1. /\ r.ok /\ Good(sf, big, r.c) /\ r.c.level = c1.level /\ r.c.towers = c1.towers
        /\ r.c.noiseScaleDeg = c2.noiseScaleDeg /\ r.c.scf = One
        /\ r.c.msg = c2.msg /\ r.c.compressed = c2.compressed
    BY <1>2, <1>3, <1>4, <1>5
  <2>2. a = Pair(r.ok, c1, r.c)
    BY <1>5 DEF AdjustLevelsInPlace
  <2> HIDE DEF r, a
  <2> QED BY <1>2, <2>1, <2>2 DEF Kept, Pair, a
<1>6. CASE c1.towers > c2.towers
  <2> DEFINE r == LevelReduceInternalInPlace(c1, c1.towers - c2.towers)
  <2>1. /\ r.ok /\ Good(sf, big, r.c) /\ r.c.level = c2.level /\ r.c.towers = c2.towers
        /\ r.c.noiseScaleDeg = c1.noiseScaleDeg /\ r.c.scf = One
        /\ r.c.msg = c1.msg /\ r.c.compressed = c1.compressed
    BY <1>2, <1>3, <1>4, <1>6
  <2>2. a = Pair(r.ok, r.c, c2)
    BY <1>3, <1>6 DEF AdjustLevelsInPlace
  <2> HIDE DEF r, a
  <2> QED BY <1>2, <2>1, <2>2 DEF Kept, Pair, a
<1>7. CASE c1.towers = c2.towers
  <2>1. ~(c1.towers < c2.towers) /\ ~(c1.towers > c2.towers) /\ c1.level = c2.level
    BY <1>2, <1>3, <1>7
  <2>2. a = Pair(TRUE, c1, c2)
    BY <2>1 DEF AdjustLevelsInPlace
  <2> HIDE DEF a
  <2> QED BY <1>2, <1>7, <2>1, <2>2 DEF Kept, Pair, a
<1> QED BY <1>3, <1>5, <1>6, <1>7

-----------------------------------------------------------------------------
(* Lemmas about the operations.                                             *)

(* Changing the value and the message of a good ciphertext together.        *)
LEMMA GoodValue ==
  ASSUME NEW c, NEW v, NEW m \in Zt, Good(sf, big, c), v = ModMul(c.scf, m)
  PROVE  Good(sf, big, [c EXCEPT !.val = v, !.msg = m])
<1> DEFINE d == [c EXCEPT !.val = v, !.msg = m]
<1>1. c \in CtType /\ c.scf \in Zt
  BY GoodFacts
<1>2. v \in Zt
  BY <1>1, RingClosed
<1>3. d \in CtType
  BY <1>1, <1>2 DEF CtType
<1>4. /\ d.level = c.level /\ d.towers = c.towers /\ d.noiseScaleDeg = c.noiseScaleDeg
      /\ d.scf = c.scf /\ d.val = v /\ d.msg = m /\ d.compressed = c.compressed
  BY <1>1 DEF CtType
<1> HIDE DEF d
<1>5. Good(sf, big, d)
  BY <1>3, <1>4 DEF Good, Decodes
<1> QED BY <1>5 DEF d

(* Polynomials of one scale may be added.                                   *)
LEMMA AddSubCoreGood ==
  ASSUME NEW c1, NEW c2, Good(sf, big, c1), Good(sf, big, c2), c1.scf = c2.scf
  PROVE  Good(sf, big, EvalAddCore(c1, c2)) /\ Good(sf, big, EvalSubCore(c1, c2))
<1> DEFINE s == c1.scf
<1>1. /\ s \in Zt /\ c1.msg \in Zt /\ c2.msg \in Zt /\ c1 \in CtType
      /\ c1.val = ModMul(s, c1.msg) /\ c2.val = ModMul(s, c2.msg)
  BY GoodFacts DEF Sound, Decodes, CtType
<1> HIDE DEF s
<1>2. /\ ModNeg(c2.msg) \in Zt
      /\ ModMul(s, ModNeg(c2.msg)) = ModNeg(ModMul(s, c2.msg))
  BY <1>1, RingClosed, RingLaws
<1>3. /\ ModAdd(c1.msg, c2.msg) \in Zt
      /\ ModMul(s, ModAdd(c1.msg, c2.msg)) = ModAdd(c1.val, c2.val)
  <2>1. ModMul(s, ModAdd(c1.msg, c2.msg))
          = ModAdd(ModMul(s, c1.msg), ModMul(s, c2.msg))
    BY <1>1, RingLaws
  <2> QED BY <2>1, <1>1, RingClosed
<1>4. /\ ModSub(c1.msg, c2.msg) \in Zt
      /\ ModMul(s, ModSub(c1.msg, c2.msg)) = ModSub(c1.val, c2.val)
  <2>1. ModMul(s, ModAdd(c1.msg, ModNeg(c2.msg)))
          = ModAdd(ModMul(s, c1.msg), ModMul(s, ModNeg(c2.msg)))
    BY <1>1, <1>2, RingLaws
  <2>2. ModAdd(c1.msg, ModNeg(c2.msg)) \in Zt
    BY <1>1, <1>2, RingClosed
  <2> QED BY <2>1, <2>2, <1>1, <1>2 DEF ModSub
<1>5. EvalAddCore(c1, c2) = [c1 EXCEPT !.val = ModAdd(c1.val, c2.val),
                                      !.msg = ModAdd(c1.msg, c2.msg)]
  BY <1>1 DEF EvalAddCore, CtType
<1>6. EvalSubCore(c1, c2) = [c1 EXCEPT !.val = ModSub(c1.val, c2.val),
                                      !.msg = ModSub(c1.msg, c2.msg)]
  BY <1>1 DEF EvalSubCore, CtType
<1>7. Good(sf, big, EvalAddCore(c1, c2))
  <2> DEFINE v == ModAdd(c1.val, c2.val)
             m == ModAdd(c1.msg, c2.msg)
  <2>1. m \in Zt /\ v = ModMul(c1.scf, m)
    BY <1>3 DEF s
  <2> HIDE DEF v, m
  <2>2. Good(sf, big, [c1 EXCEPT !.val = v, !.msg = m])
    BY <2>1, GoodValue
  <2> QED BY <2>2, <1>5 DEF v, m
<1>8. Good(sf, big, EvalSubCore(c1, c2))
  <2> DEFINE v == ModSub(c1.val, c2.val)
             m == ModSub(c1.msg, c2.msg)
  <2>1. m \in Zt /\ v = ModMul(c1.scf, m)
    BY <1>4 DEF s
  <2> HIDE DEF v, m
  <2>2. Good(sf, big, [c1 EXCEPT !.val = v, !.msg = m])
    BY <2>1, GoodValue
  <2> QED BY <2>2, <1>6 DEF v, m
<1> QED BY <1>7, <1>8

(* The fields of an outcome.                                                *)
LEMMA ApplyFields ==
  ASSUME NEW a, NEW res
  PROVE  LET r == Apply(a, res) IN
         /\ r.ok <=> a.ok /\ a.c1.towers = a.c2.towers
         /\ r.c1 = a.c1 /\ r.c2 = a.c2 /\ r.res = res
BY DEF Apply

(* Addition and subtraction of good operands never throw and leave good     *)
(* operands and a good result.                                              *)
LEMMA AddOrSubOK ==
  ASSUME NEW op, NEW c1, NEW c2, Good(sf, big, c1), Good(sf, big, c2), TablesOK(sf, big),
         Usable(c1), Usable(c2)
  PROVE  LET r == AddOrSub(op, c1, c2) IN
         r.ok /\ Good(sf, big, r.c1) /\ Good(sf, big, r.c2) /\ Good(sf, big, r.res)
<1> DEFINE a == AdjustForAddOrSubInPlace(c1, c2)
<1>1. /\ a.ok /\ Good(sf, big, a.c1) /\ Good(sf, big, a.c2)
      /\ a.c1.towers = a.c2.towers /\ a.c1.scf = a.c2.scf
  <2>1. CASE Automatic
    BY <2>1, AdjustOK DEF AdjustForAddOrSubInPlace, Automatic, Kept, Alike
  <2>2. CASE ~Automatic
    BY <2>2, AdjustLevelsOK DEF AdjustForAddOrSubInPlace, Automatic, Kept
  <2> QED BY <2>1, <2>2
<1> HIDE DEF a
<1>2. Good(sf, big, EvalAddCore(a.c1, a.c2)) /\ Good(sf, big, EvalSubCore(a.c1, a.c2))
  BY <1>1, AddSubCoreGood
<1> DEFINE res == IF op = "add" THEN EvalAddCore(a.c1, a.c2) ELSE EvalSubCore(a.c1, a.c2)
<1>3. Good(sf, big, res)
  BY <1>2
<1>4. AddOrSub(op, c1, c2) = Apply(a, res)
  BY DEF AddOrSub, ApplySum, a
<1> HIDE DEF res
<1> QED BY <1>1, <1>3, <1>4, ApplyFields

(* Operands of degree 1 and of one scale multiply to degree 2 with the      *)
(* square of that scale.                                                    *)
LEMMA MultCoreGood ==
  ASSUME NEW c1, NEW c2, Good(sf, big, c1), Good(sf, big, c2), TablesOK(sf, big),
         Usable(c1), c1.scf = c2.scf,
         Automatic => c1.noiseScaleDeg = 1 /\ c2.noiseScaleDeg = 1
  PROVE  Good(sf, big, EvalMultCore(c1, c2))
<1> DEFINE g == DegPlus(c1.noiseScaleDeg, c2.noiseScaleDeg)
           v == ModMul(c1.val, c2.val)
           m == ModMul(c1.msg, c2.msg)
           s == ModMul(c1.scf, c2.scf)
           d == [c1 EXCEPT !.val = v, !.msg = m, !.noiseScaleDeg = g, !.scf = s]
<1>1. /\ c1 \in CtType /\ c2 \in CtType
      /\ c1.scf \in Units /\ c1.scf \in Zt /\ c1.msg \in Zt /\ c2.msg \in Zt
      /\ c1.val = ModMul(c1.scf, c1.msg) /\ c2.val = ModMul(c2.scf, c2.msg)
      /\ c1.level \in Levels
  BY GoodFacts DEF Sound, Decodes, CtType
<1>2. g \in 0 .. DegMod - 1 /\ (Automatic => g = 2)
  BY <1>1, DegAssumption DEF CtType, DegPlus
<1>3. v = ModMul(s, m)
  BY <1>1, MulSwap
<1>4. s \in Units /\ s \in Zt /\ m \in Zt
  BY <1>1, UnitLaws, RingClosed
<1>5. v \in Zt
  BY <1>3, <1>4, RingClosed
<1>6. EvalMultCore(c1, c2) = d
  BY <1>1 DEF EvalMultCore, CtType
<1>7. ~Flexible => s = One
  BY GoodFacts, RingClosed, RingLaws
<1>8. Flexible => s = Scale2(sf, big, c1.level) /\ ~(Ext /\ c1.level = 0)
  <2> SUFFICES ASSUME Flexible
               PROVE  s = Scale2(sf, big, c1.level) /\ ~(Ext /\ c1.level = 0)
    OBVIOUS
  <2>1. Automatic
    BY DEF Automatic, Flexible, FLEXIBLE
  <2>2. c1.scf = Scale1(sf, big, c1.level) /\ ~(Ext /\ c1.level = 0)
    BY <2>1 DEF Good, Scale, Usable
  <2> QED BY <1>1, <2>2 DEF TablesOK
<1> HIDE DEF g, v, m, s
<1>9. d \in CtType
  BY <1>1, <1>2, <1>4, <1>5 DEF CtType
<1>10. /\ d.level = c1.level /\ d.towers = c1.towers /\ d.noiseScaleDeg = g
       /\ d.scf = s /\ d.val = v /\ d.msg = m /\ d.compressed = c1.compressed
  BY <1>1 DEF CtType
<1> HIDE DEF d
<1>11. Flexible => Automatic
  BY DEF Automatic, Flexible, FLEXIBLE
<1>12. Good(sf, big, d)
  BY <1>2, <1>3, <1>4, <1>7, <1>8, <1>9, <1>10, <1>11 DEF Good, Decodes, Scale, Automatic
<1> QED BY <1>6, <1>12 DEF d, g, v, m, s

(* The adjustment before a multiplication leaves good operands even when its*)
(* rescaling throws; when it returns they have one factor and, with an      *)
(* automatic technique, degree 1.                                           *)
LEMMA AdjustForMultOK ==
  ASSUME NEW c1, NEW c2, Good(sf, big, c1), Good(sf, big, c2), TablesOK(sf, big),
         Usable(c1), Usable(c2)
  PROVE  LET a == AdjustForMultInPlace(c1, c2) IN
         /\ Good(sf, big, a.c1) /\ Good(sf, big, a.c2)
         /\ a.c1.scf = a.c2.scf
         /\ a.ok => Good(sf, big, EvalMultCore(a.c1, a.c2))
<1> DEFINE a == AdjustForMultInPlace(c1, c2)
<1>1. /\ Kept(a, c1, c2) /\ a.c1.scf = a.c2.scf
      /\ (a.ok /\ Automatic) => a.c1.noiseScaleDeg = 1 /\ a.c2.noiseScaleDeg = 1
  <2>1. CASE Automatic
    BY <2>1, AdjustToOneOK DEF AdjustForMultInPlace, Automatic, Alike
  <2>2. CASE ~Automatic
    BY <2>2, AdjustLevelsOK DEF AdjustForMultInPlace, Automatic
  <2> QED BY <2>1, <2>2
<1> HIDE DEF a
<1>2. Usable(a.c1)
  BY <1>1 DEF Kept, Usable
<1>3. a.ok => Good(sf, big, EvalMultCore(a.c1, a.c2))
  BY <1>1, <1>2, MultCoreGood DEF Kept
<1> QED BY <1>1, <1>3 DEF a, Kept

(* A multiplication leaves good operands and, when it returns, a good       *)
(* result.                                                                  *)
LEMMA MultOK ==
  ASSUME NEW c1, NEW c2, Good(sf, big, c1), Good(sf, big, c2), TablesOK(sf, big),
         Usable(c1), Usable(c2)
  PROVE  LET r == Mult(c1, c2) IN
         /\ Good(sf, big, r.c1) /\ Good(sf, big, r.c2)
         /\ r.ok => Good(sf, big, r.res)
<1> DEFINE a == AdjustForMultInPlace(c1, c2)
<1>1. /\ Good(sf, big, a.c1) /\ Good(sf, big, a.c2)
      /\ a.ok => Good(sf, big, EvalMultCore(a.c1, a.c2))
  BY AdjustForMultOK
<1>2. Mult(c1, c2) = Apply(a, EvalMultCore(a.c1, a.c2))
  BY DEF Mult, ApplyProduct
<1> HIDE DEF a
<1> QED BY <1>1, <1>2, ApplyFields

(* After the adjustment the factors agree, so squaring the ciphertext's own *)
(* factor is the product of both.                                           *)
LEMMA MultPlainOK ==
  ASSUME NEW c1, NEW p, Good(sf, big, c1), Good(sf, big, p), TablesOK(sf, big),
         Usable(c1), Usable(p)
  PROVE  LET r == MultPlain(c1, p) IN
         /\ Good(sf, big, r.c1)
         /\ r.ok => Good(sf, big, r.res)
<1> DEFINE a == AdjustForMultInPlace(c1, p)
           e == EvalMultCore(a.c1, a.c2)
<1>1. /\ Good(sf, big, a.c1) /\ Good(sf, big, a.c2) /\ a.c1.scf = a.c2.scf
      /\ a.ok => Good(sf, big, e)
  BY AdjustForMultOK
<1>2. MultPlain(c1, p) = Apply(a, EvalMultPlainCore(a.c1, a.c2))
  BY DEF MultPlain, ApplyPlainProduct
<1> HIDE DEF a
<1>3. a.ok => EvalMultPlainCore(a.c1, a.c2) = e
  <2> SUFFICES ASSUME a.ok PROVE EvalMultPlainCore(a.c1, a.c2) = e
    OBVIOUS
  <2>1. e \in CtType /\ a.c1 \in CtType
    BY <1>1, GoodFacts
  <2>2. e.scf = ModMul(a.c1.scf, a.c1.scf)
    BY <1>1, <2>1 DEF EvalMultCore, CtType
  <2>3. ~Flexible => e.scf = a.c1.scf
    BY <1>1, GoodFacts
  <2> HIDE DEF e
  <2>4. (IF Flexible THEN ModMul(a.c1.scf, a.c1.scf) ELSE a.c1.scf) = e.scf
    BY <2>2, <2>3
  <2>5. EvalMultPlainCore(a.c1, a.c2) = [e EXCEPT !.scf = e.scf]
    BY <2>4 DEF EvalMultPlainCore, e
  <2>6. [e EXCEPT !.scf = e.scf] = e
    BY <2>1 DEF CtType
  <2> QED BY <2>5, <2>6
<1> HIDE DEF e
<1> QED BY <1>1, <1>2, <1>3, ApplyFields

-----------------------------------------------------------------------------
(* The tables.                                                              *)

(* The tables PrecomputeCRTTables computes satisfy the rescaling relation.  *)
LEMMA TablesComputed ==
  ASSUME TypeOK, TablesPartial, k > LastFactor,
         NEW b, b = [l \in 0 .. SizeQ - 2 |->
                       ModMul(sf[l], sf[IF Ext /\ l = 0 THEN 1 ELSE l])]
  PROVE  TablesOK(sf, b) /\ b \in [0 .. SizeQ - 2 -> Zt]
<1>1. /\ LastFactor \in Levels /\ LastFactor >= SizeQ - 2 /\ LastFactor <= SizeQ - 1
      /\ (~Ext => LastFactor = SizeQ - 1) /\ (Ext => LastFactor = SizeQ - 2)
      /\ k = LastFactor + 1 /\ SizeQ \in Nat /\ SizeQ > 1 /\ (Ext => SizeQ > 2)
  BY SizeQAssumption DEF LastFactor, Levels, TablesPartial
<1>2. \A l \in 0 .. LastFactor : sf[l] \in Units /\ sf[l] \in Zt
  BY <1>1, RingClosed DEF TablesPartial, sf
<1>3. \A l \in 0 .. SizeQ - 2 : b[l] \in Units /\ b[l] \in Zt
  <2> TAKE l \in 0 .. SizeQ - 2
  <2> DEFINE j == IF Ext /\ l = 0 THEN 1 ELSE l
  <2>1. l \in 0 .. LastFactor /\ j \in 0 .. LastFactor
    BY <1>1
  <2>2. b[l] = ModMul(sf[l], sf[j])
    OBVIOUS
  <2> HIDE DEF j
  <2> QED BY <2>1, <2>2, <1>2, UnitLaws, RingClosed
<1>4. \A l \in 0 .. SizeQ - 2 : ~(Ext /\ l = 0) => b[l] = ModMul(sf[l], sf[l])
  OBVIOUS
<1>5. \A l \in Levels : Scale1(sf, b, l) \in Units /\ Scale1(sf, b, l) \in Zt
  <2> TAKE l \in Levels
  <2>1. CASE l <= LastFactor
    BY <1>2, <2>1 DEF Scale1, Levels
  <2>2. CASE ~(l <= LastFactor)
    <3>1. l - 1 \in 0 .. SizeQ - 2 /\ SizeQ - l \in Levels
      BY <1>1, <2>2 DEF Levels
    <3>2. b[l - 1] \in Units /\ ModInverse(qModt[SizeQ - l]) \in Units
      BY <1>3, <3>1, ModulusUnit
    <3> QED BY <2>2, <3>2, UnitLaws, RingClosed DEF Scale1
  <2> QED BY <2>1, <2>2
<1>6. \A l \in Levels : Scale2(sf, b, l) \in Units
  <2> TAKE l \in Levels
  <2>1. CASE l < SizeQ - 1
    BY <1>1, <1>3, <2>1 DEF Scale2, Levels
  <2>2. CASE ~(l < SizeQ - 1)
    BY <1>5, <2>2, UnitLaws DEF Scale2
  <2> QED BY <2>1, <2>2
<1>7. \A l \in 0 .. SizeQ - 2 :
        Scale1(sf, b, l + 1) = ModMul(b[l], ModInverse(qModt[SizeQ - 1 - l]))
  <2> TAKE l \in 0 .. SizeQ - 2
  <2>1. SizeQ - (l + 1) = SizeQ - 1 - l /\ l + 1 - 1 = l /\ l + 1 \in Levels
    BY <1>1 DEF Levels
  <2>2. CASE l + 1 > LastFactor
    BY <1>1, <2>1, <2>2 DEF Scale1
  <2>3. CASE l + 1 <= LastFactor /\ Ext /\ l = 0
    <3>1. b[0] = ModMul(sf[0], sf[1]) /\ sf[0] = qModt[SizeQ - 1]
      BY <2>3 DEF TablesPartial, sf
    <3>2. Scale1(sf, b, 1) = sf[1]
      BY <2>3 DEF Scale1
    <3>3. sf[1] \in Zt /\ sf[0] \in Zt /\ sf[0] \in Units
      BY <1>1, <1>2, <2>3
    <3>4. ModMul(sf[0], sf[1]) = ModMul(sf[1], sf[0])
      BY <3>3, RingLaws
    <3>5. ModMul(ModMul(sf[1], sf[0]), ModInverse(sf[0])) = sf[1]
      BY <3>3, MulDiv
    <3>6. l + 1 = 1 /\ SizeQ - 1 - l = SizeQ - 1
      BY <2>3, <1>1
    <3> QED BY <2>3, <3>1, <3>2, <3>4, <3>5, <3>6
  <2>4. CASE l + 1 <= LastFactor /\ ~(Ext /\ l = 0)
    <3>1. l + 1 \in (IF Ext THEN 2 ELSE 1) .. k - 1
      BY <1>1, <2>4
    <3>2. sf[l + 1] = ModMul(ModMul(sf[l + 1 - 1], sf[l + 1 - 1]),
                             ModInverse(qModt[SizeQ - (l + 1)]))
      BY <3>1 DEF TablesPartial, sf
    <3>3. b[l] = ModMul(sf[l], sf[l])
      BY <2>4, <1>4
    <3>4. Scale1(sf, b, l + 1) = sf[l + 1]
      BY <2>4 DEF Scale1
    <3> QED BY <2>1, <3>2, <3>3, <3>4
  <2> QED BY <1>1, <2>2, <2>3, <2>4
<1>8. \A l \in Levels : (Ext /\ l = 0) \/
        Scale2(sf, b, l) = ModMul(Scale1(sf, b, l), Scale1(sf, b, l))
  <2> SUFFICES ASSUME NEW l \in Levels, ~(Ext /\ l = 0)
               PROVE  Scale2(sf, b, l) = ModMul(Scale1(sf, b, l), Scale1(sf, b, l))
    OBVIOUS
  <2>1. CASE l < SizeQ - 1
    <3>1. l \in 0 .. SizeQ - 2 /\ l <= LastFactor
      BY <1>1, <2>1 DEF Levels
    <3>2. Scale2(sf, b, l) = b[l] /\ Scale1(sf, b, l) = sf[l]
      BY <2>1, <3>1 DEF Scale1, Scale2
    <3> QED BY <1>4, <3>1, <3>2
  <2>2. CASE ~(l < SizeQ - 1)
    BY <2>2 DEF Scale2
  <2> QED BY <2>1, <2>2
<1>9. b \in [0 .. SizeQ - 2 -> Zt]
  BY <1>3
<1> QED BY <1>5, <1>6, <1>7, <1>8, <1>9 DEF TablesOK

(* A plaintext encoded at a level that has a table entry is good.           *)
LEMMA PlaintextGood ==
  ASSUME TablesOK(sf, big), Contract, NEW p \in Plaintexts
  PROVE  Good(sf, big, p) /\ Usable(p)
<1> PICK l \in EncodeLevels, g \in EncodeDegs, m \in Zt : p = MakePackedPlaintext(l, g, m)
  BY DEF Plaintexts
<1> DEFINE top == Ext /\ l = 0
           s0 == IF top THEN GetScalingFactorIntBig(0) ELSE GetScalingFactorInt(l)
           s == IF top \/ g = 1 THEN s0 ELSE ModMul(s0, s0)
           d == IF top THEN 2 ELSE g
<1>1. l \in Levels /\ l <= LastFactor /\ g \in {1, 2} /\ SizeQ \in Nat /\ SizeQ > 1
  <2>1. l \in 0 .. LastFactor
    BY DEF Contract
  <2>2. LastFactor \in Int
    BY SizeQAssumption DEF LastFactor
  <2> QED BY <2>1, <2>2, EncodeAssumption, SizeQAssumption
<1>2. p = [level |-> l, towers |-> SizeQ - l, noiseScaleDeg |-> d,
           scf |-> s, val |-> ModMul(m, s), msg |-> m, compressed |-> FALSE]
  BY DEF MakePackedPlaintext
<1>3. d \in {1, 2} /\ d \in 0 .. DegMod - 1
  BY <1>1, DegAssumption
<1>4. Flexible => s = Scale(sf, big, l, d)
  <2> SUFFICES ASSUME Flexible PROVE s = Scale(sf, big, l, d)
    OBVIOUS
  <2>1. CASE top
    BY <1>1, <2>1 DEF Scale, Scale2, GetScalingFactorIntBig, big
  <2>2. CASE ~top
    <3>1. s0 = Scale1(sf, big, l)
      BY <1>1, <2>2 DEF Scale1, GetScalingFactorInt, sf
    <3>2. Scale2(sf, big, l) = ModMul(Scale1(sf, big, l), Scale1(sf, big, l))
      BY <1>1, <2>2 DEF TablesOK
    <3> HIDE DEF s0
    <3> QED BY <1>1, <2>2, <3>1, <3>2 DEF Scale
  <2> QED BY <2>1, <2>2
<1>5. ~Flexible => s = One
  <2>1. ~Flexible => s0 = One
    BY DEF GetScalingFactorInt, GetScalingFactorIntBig
  <2>2. ModMul(One, One) = One
    BY RingClosed, RingLaws
  <2> HIDE DEF s0
  <2> QED BY <2>1, <2>2
<1>6. s \in Units /\ s \in Zt
  <2>1. Scale(sf, big, l, d) \in Units
    BY <1>1 DEF Scale, TablesOK
  <2> HIDE DEF s
  <2> QED BY <1>4, <1>5, <2>1, RingClosed
<1>7. ModMul(m, s) = ModMul(s, m) /\ ModMul(m, s) \in Zt
  <2> HIDE DEF s
  <2> QED BY <1>6, RingClosed, RingLaws
<1>8. SizeQ - l \in 1 .. SizeQ /\ SizeQ - l + l = SizeQ
  BY <1>1 DEF Levels
<1>9. top => d = 2
  OBVIOUS
<1> HIDE DEF s, d
<1>10. p \in CtType
  BY <1>1, <1>2, <1>3, <1>6, <1>7, <1>8 DEF CtType
<1>11. Good(sf, big, p)
  BY <1>2, <1>3, <1>4, <1>5, <1>6, <1>7, <1>8, <1>9, <1>10 DEF Good, Decodes
<1> QED BY <1>2, <1>11 DEF Usable

-----------------------------------------------------------------------------
(* The inductive invariant.                                                 *)

(* Every set variable of f holds a good ciphertext.                         *)
AllGood(f) ==
  /\ f \in [Ciphertexts -> CtType \cup {NoCt}]
  /\ \A x \in Ciphertexts : f[x] /= NoCt => Good(sf, big, f[x])

(* Depositing a good ciphertext keeps every variable good.                  *)
LEMMA ExceptGood ==
  ASSUME NEW f, AllGood(f), NEW x \in Ciphertexts, NEW c, Good(sf, big, c)
  PROVE  AllGood([f EXCEPT ![x] = c])
<1>1. c \in CtType
  BY DEF Good
<1> QED BY <1>1 DEF AllGood

(* A call that leaves only good ciphertexts preserves the invariant.        *)
LEMMA ReadyStep ==
  ASSUME IInv, Ready, Only, AllGood(ct')
  PROVE  IInv'
<1>1. /\ scalingFactorsInt' = scalingFactorsInt
      /\ scalingFactorsIntBig' = scalingFactorsIntBig
      /\ pc' = pc /\ k' = k /\ work' = work /\ arg' = arg /\ out' = out /\ pc = "ready"
  BY DEF Only, Ready
<1>2. TypeOK'
  BY <1>1 DEF IInv, TypeOK, AllGood
<1>3. TablesOK(scalingFactorsInt, scalingFactorsIntBig)'
  BY <1>1 DEF IInv
<1>4. \A x \in Ciphertexts :
        ct'[x] /= NoCt => Good(scalingFactorsInt', scalingFactorsIntBig', ct'[x])
  BY <1>1 DEF AllGood, sf, big
<1>5. CallOK'
  BY <1>1 DEF CallOK
<1> QED BY <1>1, <1>2, <1>3, <1>4, <1>5 DEF IInv, Set

(* A call that leaves its operands good and deposits a good result when it  *)
(* returns preserves the invariant.                                         *)
LEMMA DepositsStep ==
  ASSUME IInv, Ready, Only, NEW f, AllGood(f), NEW r, NEW d \in Ciphertexts,
         r.ok => Good(sf, big, r.res), Deposits(r, f, d)
  PROVE  IInv'
<1>1. AllGood(ct')
  <2>1. CASE r.ok
    BY <2>1, ExceptGood DEF Deposits
  <2>2. CASE ~r.ok
    BY <2>2 DEF Deposits
  <2> QED BY <2>1, <2>2
<1> QED BY <1>1, ReadyStep

(* What a call may assume of the state it starts in.                        *)
LEMMA ReadyFacts ==
  ASSUME IInv, Ready
  PROVE  /\ TablesOK(sf, big)
         /\ AllGood(ct)
         /\ \A x \in Ciphertexts : Set(x) => Good(sf, big, ct[x])
         /\ \A x \in Ciphertexts : Operand(x) => Good(sf, big, ct[x]) /\ Usable(ct[x])
<1>1. TablesOK(sf, big) /\ (\A x \in Ciphertexts : Set(x) => Good(sf, big, ct[x]))
  BY DEF IInv, Ready, sf, big
<1>2. AllGood(ct)
  BY <1>1 DEF AllGood, IInv, TypeOK, Set
<1> QED BY <1>1, <1>2 DEF Operand, Usable

(* The tables of the FIXED techniques are all ones; those of the FLEXIBLE   *)
(* techniques start with their first entries.                               *)
LEMMA InitIInv == Init => IInv
<1> SUFFICES ASSUME Init PROVE IInv
  OBVIOUS
<1>1. SizeQ \in Nat /\ SizeQ > 1 /\ (Ext => SizeQ > 2) /\ (Ext => Flexible)
  BY SizeQAssumption DEF Ext, Flexible, FLEXIBLE
<1>2. \A i \in Levels : qModt[i] \in Units /\ qModt[i] \in Zt
  BY ModulusUnit
<1>3. SizeQ - 1 \in Levels /\ SizeQ - 2 \in Levels /\ 0 \in Levels
  BY <1>1 DEF Levels
<1>4. TypeOK
  <2>1. scalingFactorsInt \in [Levels -> Zt]
    BY <1>2, <1>3, RingClosed DEF Init
  <2>2. scalingFactorsIntBig \in [0 .. SizeQ - 2 -> Zt]
    BY RingClosed DEF Init
  <2>3. k \in 0 .. SizeQ
    BY <1>1 DEF Init
  <2>4. pc \in {"factors", "ready"} /\ out \in Zt /\ work = NoCt
        /\ ct \in [Ciphertexts -> CtType \cup {NoCt}]
    BY RingClosed DEF Init
  <2> QED BY <2>1, <2>2, <2>3, <2>4 DEF TypeOK
<1>5. CallOK
  BY DEF Init, CallOK
<1>6. CASE Flexible
  <2>1. pc = "factors" /\ k = (IF Ext THEN 2 ELSE 1)
    BY <1>1, <1>6 DEF Init
  <2>2. scalingFactorsInt[0] = qModt[SizeQ - 1]
        /\ (Ext => scalingFactorsInt[1] = qModt[SizeQ - 2])
    BY <1>1, <1>3, <1>6 DEF Init, Levels
  <2>3. \A l \in 0 .. k - 1 : scalingFactorsInt[l] \in Units
    BY <1>2, <1>3, <2>1, <2>2
  <2>4. k \in (IF Ext THEN 2 ELSE 1) .. LastFactor + 1
    BY <1>1, <2>1 DEF LastFactor
  <2>5. \A x \in Ciphertexts : ct[x] = NoCt
    BY DEF Init
  <2>6. TablesPartial
    BY <1>6, <2>1, <2>2, <2>3, <2>4, <2>5 DEF TablesPartial
  <2> QED BY <1>4, <1>5, <2>1, <2>6 DEF IInv
<1>7. CASE ~Flexible
  <2>1. pc = "ready" /\ (\A x \in Ciphertexts : ~Set(x)) /\ ~Ext /\ LastFactor = SizeQ - 1
    BY <1>1, <1>7 DEF Init, Set, LastFactor
  <2>2. \A l \in Levels : sf[l] = One
    BY <1>7 DEF Init, sf
  <2>3. \A l \in 0 .. SizeQ - 2 : big[l] = One
    BY <1>7 DEF Init, big
  <2>4. ModMul(One, One) = One /\ One \in Units
    BY RingClosed, RingLaws
  <2>5. \A l \in Levels : Scale1(sf, big, l) = One
    BY <1>1, <2>1, <2>2 DEF Scale1, Levels
  <2>6. \A l \in Levels : Scale2(sf, big, l) = One
    <3> TAKE l \in Levels
    <3>1. CASE l < SizeQ - 1
      BY <1>1, <2>3, <3>1 DEF Scale2, Levels
    <3>2. CASE ~(l < SizeQ - 1)
      BY <2>4, <2>5, <3>2 DEF Scale2
    <3> QED BY <3>1, <3>2
  <2>7. \A l \in 0 .. SizeQ - 2 :
          Scale1(sf, big, l + 1) = ModMul(big[l], ModInverse(qModt[SizeQ - 1 - l]))
    <3> TAKE l \in 0 .. SizeQ - 2
    <3>1. l + 1 \in Levels /\ SizeQ - 1 - l \in Levels
      BY <1>1 DEF Levels
    <3>2. ModInverse(qModt[SizeQ - 1 - l]) = One
      BY <1>7, <3>1, ModulusUnit
    <3> QED BY <2>3, <2>4, <2>5, <3>1, <3>2
  <2>8. TablesOK(sf, big)
    BY <2>4, <2>5, <2>6, <2>7 DEF TablesOK
  <2> QED BY <1>4, <1>5, <2>1, <2>8 DEF IInv, sf, big
<1> QED BY <1>6, <1>7

(* Each step of the table computation preserves the invariant; the last one *)
(* establishes the tables.                                                  *)
LEMMA PrecomputeStep == Contract /\ IInv /\ Precompute => IInv'
<1> SUFFICES ASSUME IInv, Precompute PROVE IInv'
  OBVIOUS
<1>1. pc = "factors" /\ TypeOK /\ TablesPartial
  BY DEF IInv, Precompute, PrecomputeFactor, PrecomputeBigFactors
<1>2. SizeQ \in Nat /\ SizeQ > 1 /\ (Ext => SizeQ > 2) /\ LastFactor \in Levels
  BY SizeQAssumption DEF LastFactor, Levels
<1>3. CASE PrecomputeFactor
  <2> DEFINE prev == scalingFactorsInt[k - 1]
             new == ModMul(ModMul(prev, prev), ModInverse(qModt[SizeQ - k]))
  <2>1. k \in (IF Ext THEN 2 ELSE 1) .. LastFactor
    BY <1>1, <1>2, <1>3 DEF PrecomputeFactor, TablesPartial, Levels
  <2>2. k \in Levels /\ k - 1 \in 0 .. k - 1 /\ SizeQ - k \in Levels /\ k > 0
        /\ k + 1 \in 0 .. SizeQ /\ (Ext => k > 1)
    BY <1>2, <2>1 DEF Levels
  <2>3. prev \in Units
    BY <1>1, <2>2 DEF TablesPartial
  <2>4. new \in Units /\ new \in Zt
    <3> HIDE DEF prev
    <3> QED BY <2>2, <2>3, ModulusUnit, UnitLaws, RingClosed
  <2>5. /\ scalingFactorsInt' = [scalingFactorsInt EXCEPT ![k] = new]
        /\ k' = k + 1
        /\ UNCHANGED <<scalingFactorsIntBig, ct, pc, work, arg, out>>
    BY <1>3 DEF PrecomputeFactor
  <2>6. scalingFactorsInt'[k] = new
        /\ (\A l \in Levels : l /= k => scalingFactorsInt'[l] = scalingFactorsInt[l])
    <3> HIDE DEF new
    <3> QED BY <1>1, <2>2, <2>5 DEF TypeOK
  <2>7. TypeOK'
    <3> HIDE DEF new
    <3> QED BY <1>1, <2>2, <2>4, <2>5 DEF TypeOK
  <2>8. TablesPartial'
    <3>1. k' \in (IF Ext THEN 2 ELSE 1) .. LastFactor + 1
      BY <1>2, <2>1, <2>5 DEF Levels
    <3>2. scalingFactorsInt'[0] = qModt[SizeQ - 1]
          /\ (Ext => scalingFactorsInt'[1] = qModt[SizeQ - 2])
      BY <1>1, <1>2, <2>2, <2>6 DEF TablesPartial, Levels
    <3>3. \A l \in 0 .. k' - 1 : scalingFactorsInt'[l] \in Units
      <4> TAKE l \in 0 .. k' - 1
      <4>1. CASE l = k
        BY <2>4, <2>6, <4>1
      <4>2. CASE l /= k
        <5>1. l \in 0 .. k - 1 /\ l \in Levels
          BY <1>2, <2>2, <2>5, <4>2 DEF Levels
        <5> QED BY <1>1, <2>6, <4>2, <5>1 DEF TablesPartial
      <4> QED BY <4>1, <4>2
    <3>4. \A l \in (IF Ext THEN 2 ELSE 1) .. k' - 1 :
            scalingFactorsInt'[l] =
              ModMul(ModMul(scalingFactorsInt'[l - 1], scalingFactorsInt'[l - 1]),
                     ModInverse(qModt[SizeQ - l]))
      <4> TAKE l \in (IF Ext THEN 2 ELSE 1) .. k' - 1
      <4>0. l - 1 \in Levels /\ l - 1 /= k /\ l \in Levels
        BY <1>2, <2>2, <2>5 DEF Levels
      <4>1. CASE l = k
        BY <2>6, <4>0, <4>1
      <4>2. CASE l /= k
        <5>1. l \in (IF Ext THEN 2 ELSE 1) .. k - 1
          BY <1>2, <2>2, <2>5, <4>2 DEF Levels
        <5>2. scalingFactorsInt[l] =
                ModMul(ModMul(scalingFactorsInt[l - 1], scalingFactorsInt[l - 1]),
                       ModInverse(qModt[SizeQ - l]))
          BY <1>1, <5>1 DEF TablesPartial
        <5> QED BY <2>6, <4>0, <4>2, <5>2
      <4> QED BY <4>1, <4>2
    <3>5. Flexible /\ (\A x \in Ciphertexts : ct'[x] = NoCt)
      BY <1>1, <2>5 DEF TablesPartial
    <3> QED BY <3>1, <3>2, <3>3, <3>4, <3>5 DEF TablesPartial
  <2>9. CallOK'
    BY <1>1, <2>5 DEF CallOK
  <2> QED BY <1>1, <2>5, <2>7, <2>8, <2>9 DEF IInv
<1>4. CASE PrecomputeBigFactors
  <2> DEFINE b == scalingFactorsIntBig'
  <2>1. /\ k > LastFactor
        /\ b = [l \in 0 .. SizeQ - 2 |->
                  ModMul(sf[l], sf[IF Ext /\ l = 0 THEN 1 ELSE l])]
        /\ pc' = "ready" /\ k' = 0
        /\ UNCHANGED <<scalingFactorsInt, ct, work, arg, out>>
    BY <1>4 DEF PrecomputeBigFactors, sf
  <2> HIDE DEF b
  <2>2. TablesOK(sf, b) /\ b \in [0 .. SizeQ - 2 -> Zt]
    BY <1>1, <2>1, TablesComputed
  <2>3. TypeOK'
    BY <1>1, <1>2, <2>1, <2>2 DEF TypeOK, b
  <2>4. TablesOK(scalingFactorsInt', scalingFactorsIntBig')
    BY <2>1, <2>2 DEF sf, b
  <2>5. \A x \in Ciphertexts : ct'[x] = NoCt
    BY <1>1, <2>1 DEF TablesPartial
  <2>6. CallOK'
    BY <2>1 DEF CallOK
  <2> QED BY <2>1, <2>3, <2>4, <2>5, <2>6 DEF IInv, Set
<1> QED BY <1>3, <1>4 DEF Precompute

(* Operations on two ciphertexts.                                           *)
LEMMA BinaryStep ==
  ASSUME IInv, NEW x \in Ciphertexts, NEW y \in Ciphertexts, NEW d \in Ciphertexts,
         Binary(x, y, d)
  PROVE  IInv'
<1>1. /\ Ready /\ Only /\ Operand(x) /\ Operand(y)
  BY DEF Binary, EvalAddOrSub, EvalAddOrSubInPlace, EvalAddOrSubMutable, EvalMult,
         EvalMultMutable, ComposedEvalMult
<1>2. /\ TablesOK(sf, big) /\ AllGood(ct)
      /\ Good(sf, big, ct[x]) /\ Usable(ct[x]) /\ Good(sf, big, ct[y]) /\ Usable(ct[y])
  BY <1>1, ReadyFacts
<1> DEFINE m == Mult(ct[x], ct[y])
<1>3. /\ Good(sf, big, m.c1) /\ Good(sf, big, m.c2)
      /\ m.ok => Good(sf, big, m.res)
  BY <1>2, MultOK
<1>4. ASSUME NEW op
      PROVE  LET r == AddOrSub(op, ct[x], ct[y]) IN
             Good(sf, big, r.c1) /\ Good(sf, big, r.c2) /\ Good(sf, big, r.res)
  BY <1>2, AddOrSubOK
<1>5. CASE \E op \in {"add", "sub"} : EvalAddOrSub(op, x, y, d)
  <2> PICK op \in {"add", "sub"} : EvalAddOrSub(op, x, y, d)
    BY <1>5
  <2> DEFINE r == AddOrSub(op, ct[x], ct[y])
  <2>1. Good(sf, big, r.res) /\ Deposits(r, ct, d)
    BY <1>4 DEF EvalAddOrSub
  <2> HIDE DEF r
  <2> QED BY <1>1, <1>2, <2>1, DepositsStep
<1>6. CASE \E op \in {"add", "sub"} : EvalAddOrSubInPlace(op, x, y)
  <2> PICK op \in {"add", "sub"} : EvalAddOrSubInPlace(op, x, y)
    BY <1>6
  <2> DEFINE r == AddOrSub(op, ct[x], ct[y])
             f == [ct EXCEPT ![x] = r.c1]
  <2>1. Good(sf, big, r.res) /\ Good(sf, big, r.c1) /\ Deposits(r, f, x)
    BY <1>4 DEF EvalAddOrSubInPlace, KeepsFirst
  <2> HIDE DEF r
  <2>2. AllGood(f)
    BY <1>2, <2>1, ExceptGood
  <2> HIDE DEF f
  <2> QED BY <1>1, <2>1, <2>2, DepositsStep
<1>7. CASE \E op \in {"add", "sub"} : EvalAddOrSubMutable(op, x, y, d)
  <2> PICK op \in {"add", "sub"} : EvalAddOrSubMutable(op, x, y, d)
    BY <1>7
  <2> DEFINE r == AddOrSub(op, ct[x], ct[y])
             e == [ct EXCEPT ![x] = r.c1]
             f == [e EXCEPT ![y] = r.c2]
  <2>1. /\ Good(sf, big, r.res) /\ Good(sf, big, r.c1) /\ Good(sf, big, r.c2)
        /\ Deposits(r, f, d)
    BY <1>4 DEF EvalAddOrSubMutable, KeepsBoth
  <2> HIDE DEF r
  <2>2. AllGood(e)
    BY <1>2, <2>1, ExceptGood
  <2> HIDE DEF e
  <2>3. AllGood(f)
    BY <2>1, <2>2, ExceptGood
  <2> HIDE DEF f
  <2> QED BY <1>1, <2>1, <2>3, DepositsStep
<1>8. CASE EvalMult(x, y, d)
  <2>1. Deposits(m, ct, d)
    BY <1>8 DEF EvalMult
  <2> HIDE DEF m
  <2> QED BY <1>1, <1>2, <1>3, <2>1, DepositsStep
<1>9. CASE EvalMultMutable(x, y, d)
  <2> DEFINE e == [ct EXCEPT ![x] = m.c1]
             f == [e EXCEPT ![y] = m.c2]
  <2>1. Deposits(m, f, d)
    BY <1>9 DEF EvalMultMutable, KeepsBoth
  <2> HIDE DEF m
  <2>2. AllGood(e)
    BY <1>2, <1>3, ExceptGood
  <2> HIDE DEF e
  <2>3. AllGood(f)
    BY <1>3, <2>2, ExceptGood
  <2> HIDE DEF f
  <2> QED BY <1>1, <1>3, <2>1, <2>3, DepositsStep
<1>10. CASE ComposedEvalMult(x, y, d)
  <2> DEFINE n == IF ScalTech = "FIXEDMANUAL" THEN ModReduceInternalInPlace(m.res)
                  ELSE Returns(m.res)
             r == [ok |-> m.ok /\ n.ok, res |-> n.c]
  <2>1. Deposits(r, ct, d)
    BY <1>10 DEF ComposedEvalMult, RescaleProduct
  <2>2. r.ok => Good(sf, big, r.res)
    <3> SUFFICES ASSUME m.ok, n.ok PROVE Good(sf, big, n.c)
      BY DEF Automatic
    <3>1. Good(sf, big, m.res)
      BY <1>3
    <3>2. CASE Automatic
      BY <3>1, <3>2 DEF Automatic, Returns
    <3>3. CASE ~Automatic
      <4>1. n = ModReduceInternalInPlace(m.res)
        BY <3>3 DEF Automatic
      <4> HIDE DEF m, n
      <4>2. m.res.towers > 1
        BY <4>1 DEF ModReduceInternalInPlace, Throws
      <4> QED BY <1>2, <3>1, <3>3, <4>1, <4>2, ModReduceGood
    <3> QED BY <3>2, <3>3
  <2> HIDE DEF r
  <2> QED BY <1>1, <1>2, <2>1, <2>2, DepositsStep
<1> QED BY <1>5, <1>6, <1>7, <1>8, <1>9, <1>10 DEF Binary

(* Encryption and operations on a ciphertext and a plaintext.               *)
LEMMA PlaintextStep ==
  ASSUME IInv, Contract, NEW x \in Ciphertexts, NEW d \in Ciphertexts, NEW p \in Plaintexts,
         WithPlaintext(x, p, d)
  PROVE  IInv'
<1>1. Ready /\ Only
  BY DEF WithPlaintext, Encrypt, EvalAddOrSubPlain, EvalAddOrSubPlainMutable, EvalMultPlain,
         EvalMultPlainInPlace, EvalMultPlainMutable
<1>2. TablesOK(sf, big) /\ AllGood(ct)
  BY <1>1, ReadyFacts
<1>3. Good(sf, big, p) /\ Usable(p)
  BY <1>2, PlaintextGood
<1>4. Operand(x) => Good(sf, big, ct[x]) /\ Usable(ct[x])
  BY <1>1, ReadyFacts
<1> DEFINE m == Mult(ct[x], p)
           mp == MultPlain(ct[x], p)
<1>5. Operand(x) => /\ Good(sf, big, m.c1)
                    /\ m.ok => Good(sf, big, m.res)
  BY <1>2, <1>3, <1>4, MultOK
<1>6. Operand(x) => /\ Good(sf, big, mp.c1)
                    /\ mp.ok => Good(sf, big, mp.res)
  BY <1>2, <1>3, <1>4, MultPlainOK
<1>7. ASSUME NEW op, Operand(x)
      PROVE  LET r == AddOrSub(op, ct[x], p) IN Good(sf, big, r.c1) /\ Good(sf, big, r.res)
  BY <1>2, <1>3, <1>4, <1>7, AddOrSubOK
<1>8. CASE Encrypt(d, p)
  <2>1. AllGood(ct')
    BY <1>2, <1>3, <1>8, ExceptGood DEF Encrypt
  <2> QED BY <1>1, <2>1, ReadyStep
<1>9. CASE \E op \in {"add", "sub"} : EvalAddOrSubPlain(op, x, p, d)
  <2> PICK op \in {"add", "sub"} : EvalAddOrSubPlain(op, x, p, d)
    BY <1>9
  <2> DEFINE r == AddOrSub(op, ct[x], p)
  <2>1. Good(sf, big, r.res) /\ Deposits(r, ct, d)
    BY <1>7 DEF EvalAddOrSubPlain
  <2> HIDE DEF r
  <2> QED BY <1>1, <1>2, <2>1, DepositsStep
<1>10. CASE \E op \in {"add", "sub"} : EvalAddOrSubPlainMutable(op, x, p, d)
  <2> PICK op \in {"add", "sub"} : EvalAddOrSubPlainMutable(op, x, p, d)
    BY <1>10
  <2> DEFINE r == AddOrSub(op, ct[x], p)
             f == [ct EXCEPT ![x] = r.c1]
  <2>1. Good(sf, big, r.res) /\ Good(sf, big, r.c1) /\ Deposits(r, f, d)
    BY <1>7 DEF EvalAddOrSubPlainMutable, KeepsFirst
  <2> HIDE DEF r
  <2>2. AllGood(f)
    BY <1>2, <2>1, ExceptGood
  <2> HIDE DEF f
  <2> QED BY <1>1, <2>1, <2>2, DepositsStep
<1>11. CASE EvalMultPlain(x, p, d)
  <2>1. Operand(x) /\ Deposits(mp, ct, d)
    BY <1>11 DEF EvalMultPlain
  <2> HIDE DEF mp
  <2> QED BY <1>1, <1>2, <1>6, <2>1, DepositsStep
<1>12. CASE EvalMultPlainInPlace(x, p)
  <2> DEFINE f == [ct EXCEPT ![x] = mp.c1]
  <2>1. Operand(x) /\ Deposits(mp, f, x)
    BY <1>12 DEF EvalMultPlainInPlace, KeepsFirst
  <2> HIDE DEF mp
  <2>2. AllGood(f)
    BY <1>2, <1>6, <2>1, ExceptGood
  <2> HIDE DEF f
  <2> QED BY <1>1, <1>6, <2>1, <2>2, DepositsStep
<1>13. CASE EvalMultPlainMutable(x, p, d)
  <2> DEFINE f == [ct EXCEPT ![x] = m.c1]
  <2>1. Operand(x) /\ Deposits(m, f, d)
    BY <1>13 DEF EvalMultPlainMutable, KeepsFirst
  <2> HIDE DEF m
  <2>2. AllGood(f)
    BY <1>2, <1>5, <2>1, ExceptGood
  <2> HIDE DEF f
  <2> QED BY <1>1, <1>5, <2>1, <2>2, DepositsStep
<1> QED BY <1>8, <1>9, <1>10, <1>11, <1>12, <1>13 DEF WithPlaintext

(* Dropping moduli keeps a ciphertext good when its scale does not depend   *)
(* on its level.                                                            *)
LEMMA LevelReduceGood ==
  ASSUME NEW c, Good(sf, big, c), NEW n \in Nat, n < c.towers, c.compressed \/ ~Flexible
  PROVE  LET r == LevelReduceInternalInPlace(c, n) IN r.ok /\ Good(sf, big, r.c)
<1> DEFINE r == LevelReduceInternalInPlace(c, n)
<1>1. Sound(c) /\ (Automatic => c.noiseScaleDeg \in {1, 2})
  BY GoodFacts
<1>2. /\ r.ok /\ Sound(r.c) /\ r.c.noiseScaleDeg = c.noiseScaleDeg
      /\ r.c.compressed = c.compressed
  BY <1>1, LevelReduceSound
<1> HIDE DEF r
<1>3. Good(sf, big, r.c)
  BY <1>1, <1>2 DEF Good, Sound, Automatic
<1> QED BY <1>2, <1>3 DEF r

(* A rescaling that throws leaves its operand alone.                        *)
LEMMA ModReduceKeeps ==
  ASSUME NEW c, Good(sf, big, c), TablesOK(sf, big), Automatic => c.noiseScaleDeg = 2
  PROVE  LET r == ModReduceInternalInPlace(c) IN
         /\ Good(sf, big, r.c)
         /\ r.c.compressed = c.compressed
         /\ r.ok => (Automatic => r.c.noiseScaleDeg = 1)
<1>1. CASE c.towers > 1
  BY <1>1, ModReduceGood
<1>2. CASE ~(c.towers > 1)
  BY <1>2 DEF ModReduceInternalInPlace, Throws
<1> QED BY <1>1, <1>2

(* Negation keeps the scale.                                                *)
LEMMA NegateGood ==
  ASSUME NEW c, Good(sf, big, c)
  PROVE  Good(sf, big, EvalNegateInPlace(c))
<1> DEFINE v == ModNeg(c.val)
           m == ModNeg(c.msg)
<1>1. c \in CtType /\ c.scf \in Zt /\ c.msg \in Zt /\ c.val = ModMul(c.scf, c.msg)
  BY GoodFacts DEF Sound, Decodes, CtType
<1>2. m \in Zt /\ v = ModMul(c.scf, m)
  <2>1. ModNeg(c.msg) \in Zt
    BY <1>1, RingClosed
  <2>2. ModMul(c.scf, ModNeg(c.msg)) = ModNeg(ModMul(c.scf, c.msg))
    BY <1>1, RingLaws
  <2>3. ModNeg(ModMul(c.scf, c.msg)) = ModNeg(c.val)
    BY <1>1
  <2> QED BY <2>1, <2>2, <2>3
<1>3. EvalNegateInPlace(c) = [c EXCEPT !.val = v, !.msg = m]
  BY <1>1 DEF EvalNegateInPlace, CtType
<1> HIDE DEF v, m
<1>4. Good(sf, big, [c EXCEPT !.val = v, !.msg = m])
  BY <1>2, GoodValue
<1> QED BY <1>3, <1>4

(* Operations on one ciphertext.                                            *)
LEMMA UnaryStep ==
  ASSUME IInv, Contract, NEW x \in Ciphertexts, NEW d \in Ciphertexts, Unary(x, d)
  PROVE  IInv'
<1>1. Ready /\ Set(x)
  BY DEF Unary, EvalMultMutableAliased, EvalSquare, EvalSquareMutable, EvalNegate,
         CompressCall, Operand
<1>2. TablesOK(sf, big) /\ AllGood(ct) /\ Good(sf, big, ct[x])
  BY <1>1, ReadyFacts
<1>3. Operand(x) => Usable(ct[x])
  BY <1>1, ReadyFacts
<1>4. ASSUME NEW a, Good(sf, big, a.c), Usable(a.c), a.ok => (Automatic => a.c.noiseScaleDeg = 1)
      PROVE  a.ok => Good(sf, big, EvalMultCore(a.c, a.c))
  BY <1>2, <1>4, MultCoreGood
<1>5. Automatic => ct[x].noiseScaleDeg \in {1, 2}
  BY <1>2, GoodFacts
<1>6. CASE EvalMultMutableAliased(x, d)
  <2> DEFINE r == Apply(Pair(TRUE, ct[x], ct[x]), EvalMultCore(ct[x], ct[x]))
             f == [ct EXCEPT ![x] = ct[x]]
  <2>1. ~Automatic /\ Operand(x) /\ Only
    BY <1>6 DEF EvalMultMutableAliased, Contract, Automatic
  <2>2. Deposits(r, f, d)
    BY <1>6, <2>1 DEF EvalMultMutableAliased, Automatic, Returns
  <2>3. Good(sf, big, EvalMultCore(ct[x], ct[x]))
    BY <1>2, <1>3, <2>1, MultCoreGood
  <2>4. Good(sf, big, r.res)
    BY <2>3, ApplyFields
  <2>5. AllGood(f)
    BY <1>2, ExceptGood
  <2> HIDE DEF r, f
  <2> QED BY <1>1, <2>1, <2>2, <2>4, <2>5, DepositsStep
<1>7. CASE EvalSquare(x, d)
  <2> DEFINE a == SquareOperand(ct[x])
             r == [ok |-> a.ok, res |-> EvalMultCore(a.c, a.c)]
  <2>1. Operand(x) /\ Only /\ Deposits(r, ct, d)
    BY <1>7 DEF EvalSquare
  <2>2. Good(sf, big, a.c) /\ Usable(a.c) /\ (a.ok => (Automatic => a.c.noiseScaleDeg = 1))
    <3>1. CASE ~Automatic \/ ct[x].noiseScaleDeg = 1
      BY <1>2, <1>3, <2>1, <3>1 DEF SquareOperand, Returns, Automatic
    <3>2. CASE ~(~Automatic \/ ct[x].noiseScaleDeg = 1)
      <4>1. a = ModReduceInternalInPlace(ct[x]) /\ ct[x].noiseScaleDeg = 2
        BY <1>5, <3>2 DEF SquareOperand, Automatic
      <4> HIDE DEF a
      <4> QED BY <1>2, <1>3, <2>1, <4>1, ModReduceKeeps DEF Usable
    <3> QED BY <3>1, <3>2
  <2> HIDE DEF a
  <2>3. r.ok => Good(sf, big, r.res)
    BY <1>4, <2>2
  <2> HIDE DEF r
  <2> QED BY <1>1, <1>2, <2>1, <2>3, DepositsStep
<1>8. CASE EvalSquareMutable(x, d)
  <2> DEFINE a == SquareOperandMutable(ct[x])
             r == [ok |-> a.ok, res |-> EvalMultCore(a.c, a.c)]
             f == [ct EXCEPT ![x] = a.c]
  <2>1. Operand(x) /\ Only /\ Deposits(r, f, d)
    BY <1>8 DEF EvalSquareMutable
  <2>2. Good(sf, big, a.c) /\ Usable(a.c) /\ (a.ok => (Automatic => a.c.noiseScaleDeg = 1))
    <3>1. CASE ~(Automatic /\ ct[x].noiseScaleDeg = 2)
      BY <1>2, <1>3, <1>5, <2>1, <3>1 DEF SquareOperandMutable, Returns, Automatic
    <3>2. CASE Automatic /\ ct[x].noiseScaleDeg = 2
      <4>1. a = ModReduceInternalInPlace(ct[x])
        BY <3>2 DEF SquareOperandMutable, Automatic
      <4> HIDE DEF a
      <4> QED BY <1>2, <1>3, <2>1, <3>2, <4>1, ModReduceKeeps DEF Usable
    <3> QED BY <3>1, <3>2
  <2> HIDE DEF a
  <2>3. r.ok => Good(sf, big, r.res)
    BY <1>4, <2>2
  <2>4. AllGood(f)
    BY <1>2, <2>2, ExceptGood
  <2> HIDE DEF r, f
  <2> QED BY <1>1, <2>1, <2>3, <2>4, DepositsStep
<1>9. CASE EvalNegate(x, d)
  <2>1. AllGood(ct') /\ Only
    BY <1>2, <1>9, NegateGood, ExceptGood DEF EvalNegate
  <2> QED BY <1>1, <2>1, ReadyStep
<1>10. CASE \E towersLeft \in 1 .. SizeQ, deg \in {1, 2} : CompressCall(x, d, towersLeft, deg)
  <2> PICK towersLeft \in 1 .. SizeQ, deg \in {1, 2} : CompressCall(x, d, towersLeft, deg)
    BY <1>10
  <2>1. /\ work' = ct[x] /\ pc' = "compress"
        /\ arg' \in [dst : Ciphertexts, towersLeft : 1 .. SizeQ, deg : {1, 2}]
        /\ UNCHANGED <<scalingFactorsInt, scalingFactorsIntBig, ct, k, out>>
    BY DEF CompressCall
  <2>2. ct[x] \in CtType
    BY <1>2 DEF Good
  <2>3. TypeOK'
    BY <2>1, <2>2 DEF IInv, TypeOK
  <2>4. CallOK'
    BY <1>2, <2>1 DEF CallOK, sf, big
  <2>5. TablesOK(scalingFactorsInt, scalingFactorsIntBig)'
    BY <1>2, <2>1 DEF sf, big
  <2>6. \A y \in Ciphertexts :
          ct'[y] /= NoCt => Good(scalingFactorsInt', scalingFactorsIntBig', ct'[y])
    BY <1>2, <2>1 DEF AllGood, sf, big
  <2> QED BY <2>1, <2>3, <2>4, <2>5, <2>6 DEF IInv, Set
<1> QED BY <1>6, <1>7, <1>8, <1>9, <1>10 DEF Unary

(* The application's own rescaling, and the start of Decrypt.               *)
LEMMA ManageStep ==
  ASSUME IInv, NEW x \in Ciphertexts, Manage(x)
  PROVE  IInv'
<1>1. Ready /\ Set(x)
  BY DEF Manage, ModReduceInPlace, LevelReduceInPlace, DecryptCall
<1>2. TablesOK(sf, big) /\ AllGood(ct) /\ Good(sf, big, ct[x])
  BY <1>1, ReadyFacts
<1>3. CASE ModReduceInPlace(x)
  <2>1. ~Automatic /\ Only /\ ct' = [ct EXCEPT ![x] = ModReduceInternalInPlace(ct[x]).c]
    BY <1>3 DEF ModReduceInPlace, Automatic
  <2>2. Good(sf, big, ModReduceInternalInPlace(ct[x]).c)
    BY <1>2, <2>1, ModReduceKeeps
  <2>3. AllGood(ct')
    BY <1>2, <2>1, <2>2, ExceptGood
  <2> QED BY <1>1, <2>1, <2>3, ReadyStep
<1>4. CASE \E levels \in 1 .. SizeQ : LevelReduceInPlace(x, levels)
  <2> PICK levels \in 1 .. SizeQ : LevelReduceInPlace(x, levels)
    BY <1>4
  <2>1. /\ ~Flexible /\ Only
        /\ ct' = [ct EXCEPT ![x] = LevelReduceInternalInPlace(ct[x], levels).c]
    BY DEF LevelReduceInPlace, Flexible, FLEXIBLE
  <2>2. Good(sf, big, LevelReduceInternalInPlace(ct[x], levels).c)
    <3>1. CASE ct[x].towers > levels
      <4>1. levels \in Nat /\ levels < ct[x].towers
        BY <1>2, <3>1, GoodFacts, SizeQAssumption
      <4> QED BY <1>2, <2>1, <4>1, LevelReduceGood
    <3>2. CASE ~(ct[x].towers > levels)
      BY <1>2, <3>2 DEF LevelReduceInternalInPlace, Throws
    <3> QED BY <3>1, <3>2
  <2>3. AllGood(ct')
    BY <1>2, <2>1, <2>2, ExceptGood
  <2> QED BY <1>1, <2>1, <2>3, ReadyStep
<1>5. CASE DecryptCall(x)
  <2>1. /\ work' = ct[x] /\ pc' = "decrypt" /\ k' = ct[x].towers - 1
        /\ UNCHANGED <<scalingFactorsInt, scalingFactorsIntBig, ct, arg, out>>
    BY <1>5 DEF DecryptCall
  <2>2. ct[x] \in CtType /\ Decodes(ct[x])
    BY <1>2 DEF Good
  <2>3. k' \in 0 .. SizeQ /\ k' < SizeQ
    BY <2>1, <2>2, SizeQAssumption DEF CtType
  <2>4. TypeOK'
    BY <2>1, <2>2, <2>3 DEF IInv, TypeOK
  <2>5. CallOK'
    BY <2>1, <2>2, <2>3 DEF CallOK
  <2>6. TablesOK(scalingFactorsInt, scalingFactorsIntBig)'
    BY <1>2, <2>1 DEF sf, big
  <2>7. \A y \in Ciphertexts :
          ct'[y] /= NoCt => Good(scalingFactorsInt', scalingFactorsIntBig', ct'[y])
    BY <1>2, <2>1 DEF AllGood, sf, big
  <2> QED BY <2>1, <2>4, <2>5, <2>6, <2>7 DEF IInv, Set
<1> QED BY <1>3, <1>4, <1>5 DEF Manage

(* The steps of a running Compress or Decrypt.                              *)
LEMMA RunningStep ==
  ASSUME IInv, Running
  PROVE  IInv'
<1>1. pc \in {"compress", "decrypt", "decoded", "undecodable"}
  BY DEF Running, CompressModReduce, CompressReturn, DecryptModReduce, Decode, DecryptReturn
<1>2. TypeOK /\ CallOK /\ TablesOK(sf, big) /\ AllGood(ct)
  BY <1>1 DEF IInv, TypeOK, AllGood, Set, sf, big
<1>3. ASSUME TypeOK', CallOK', AllGood(ct'), pc' /= "factors",
             scalingFactorsInt' = scalingFactorsInt,
             scalingFactorsIntBig' = scalingFactorsIntBig
      PROVE  IInv'
  <2>1. TablesOK(scalingFactorsInt', scalingFactorsIntBig')
    BY <1>2, <1>3 DEF sf, big
  <2>2. \A x \in Ciphertexts :
          ct'[x] /= NoCt => Good(scalingFactorsInt', scalingFactorsIntBig', ct'[x])
    BY <1>3 DEF AllGood, sf, big
  <2> QED BY <1>3, <2>1, <2>2 DEF IInv, Set
<1>4. CASE CompressModReduce
  <2> DEFINE r == ModReduceInternalInPlace(work)
  <2>1. /\ pc = "compress" /\ work.noiseScaleDeg > arg.deg
        /\ IF r.ok THEN work' = r.c /\ UNCHANGED <<pc, arg>>
           ELSE work' = NoCt /\ pc' = "ready" /\ arg' = NoCt
        /\ UNCHANGED <<scalingFactorsInt, scalingFactorsIntBig, ct, k, out>>
    BY <1>4 DEF CompressModReduce
  <2>2. Good(sf, big, work) /\ arg.deg \in {1, 2}
        /\ arg \in [dst : Ciphertexts, towersLeft : 1 .. SizeQ, deg : {1, 2}]
    BY <1>2, <2>1 DEF CallOK, sf, big
  <2>3. Automatic => work.noiseScaleDeg = 2
    BY <2>1, <2>2, GoodFacts
  <2>4. Good(sf, big, r.c)
    BY <1>2, <2>2, <2>3, ModReduceKeeps
  <2> HIDE DEF r
  <2>5. r.c \in CtType
    BY <2>4 DEF Good
  <2>6. TypeOK'
    BY <1>2, <2>1, <2>5 DEF TypeOK
  <2>7. CallOK'
    <3>1. CASE r.ok
      BY <2>1, <2>2, <2>4, <3>1 DEF CallOK, sf, big
    <3>2. CASE ~r.ok
      BY <2>1, <3>2 DEF CallOK
    <3> QED BY <3>1, <3>2
  <2> QED BY <1>2, <1>3, <2>1, <2>6, <2>7
<1>5. CASE CompressReturn
  <2> DEFINE w == [work EXCEPT !.compressed = TRUE]
             n == work.towers - arg.towersLeft
             drop == arg.towersLeft < work.towers
             r == IF drop THEN LevelReduceInternalInPlace(w, n) ELSE Returns(work)
  <2>1. /\ pc = "compress" /\ pc' = "ready" /\ work' = NoCt
        /\ ct' = IF r.ok THEN [ct EXCEPT ![arg.dst] = r.c] ELSE ct
        /\ UNCHANGED <<scalingFactorsInt, scalingFactorsIntBig, k, out>>
    BY <1>5 DEF CompressReturn
  <2>2. /\ Good(sf, big, work) /\ arg.dst \in Ciphertexts /\ arg.towersLeft \in 1 .. SizeQ
    BY <1>2, <2>1 DEF CallOK, sf, big
  <2>3. work \in CtType
    BY <2>2 DEF Good
  <2>4. Good(sf, big, w)
    <3>1. w \in CtType
      BY <2>3 DEF CtType
    <3>2. /\ w.level = work.level /\ w.towers = work.towers /\ w.scf = work.scf
          /\ w.noiseScaleDeg = work.noiseScaleDeg /\ w.val = work.val /\ w.msg = work.msg
          /\ w.compressed
      BY <2>3 DEF CtType
    <3> HIDE DEF w
    <3> QED BY <2>2, <3>1, <3>2 DEF Good, Decodes
  <2>5. w.towers = work.towers /\ w.compressed
    BY <2>3 DEF CtType
  <2> HIDE DEF w
  <2>6. Good(sf, big, r.c)
    <3>1. CASE drop
      <4>1. n \in Nat /\ n < w.towers
        BY <2>2, <2>3, <2>5, <3>1, SizeQAssumption DEF CtType
      <4>2. r = LevelReduceInternalInPlace(w, n)
        BY <3>1
      <4> HIDE DEF r, n
      <4> QED BY <2>4, <2>5, <4>1, <4>2, LevelReduceGood
    <3>2. CASE ~drop
      BY <2>2, <3>2 DEF Returns
    <3> QED BY <3>1, <3>2
  <2> HIDE DEF r
  <2>7. AllGood(ct')
    <3>1. AllGood([ct EXCEPT ![arg.dst] = r.c])
      BY <1>2, <2>2, <2>6, ExceptGood
    <3> QED BY <1>2, <2>1, <3>1
  <2>8. TypeOK'
    BY <1>2, <2>1, <2>7 DEF TypeOK, AllGood
  <2>9. CallOK'
    BY <2>1 DEF CallOK
  <2> QED BY <1>3, <2>1, <2>7, <2>8, <2>9
<1>6. CASE DecryptModReduce
  <2> DEFINE i == ModInverse(qModt[k])
             s == IF Flexible THEN ModMul(work.scf, i) ELSE work.scf
             w == [work EXCEPT !.val = ModMul(work.val, i), !.scf = s]
  <2>1. /\ pc = "decrypt" /\ k > 0 /\ k' = k - 1
        /\ UNCHANGED <<scalingFactorsInt, scalingFactorsIntBig, ct, pc, arg, out>>
    BY <1>6 DEF DecryptModReduce
  <2>2. /\ work \in CtType /\ k \in Levels
        /\ work.scf \in Units /\ work.val = ModMul(work.scf, work.msg)
        /\ work.msg \in Zt /\ work.scf \in Zt
    BY <1>2, <2>1, SizeQAssumption DEF CallOK, Decodes, TypeOK, CtType, Levels
  <2>3. /\ i \in Units /\ i \in Zt /\ (~Flexible => i = One)
        /\ GetModReduceFactorInt(k) = qModt[k]
    BY <2>2, ModulusUnit
  <2>4. work' = w
    BY <1>6, <2>2, <2>3 DEF DecryptModReduce, CtType
  <2>5. s = ModMul(work.scf, i) /\ s \in Units /\ s \in Zt
    <3>1. ModMul(work.scf, One) = work.scf
      BY <2>2, RingClosed, RingLaws
    <3> QED BY <2>2, <2>3, <3>1, UnitLaws, RingClosed
  <2> HIDE DEF i, s
  <2>6. ModMul(work.val, i) = ModMul(s, work.msg) /\ ModMul(work.val, i) \in Zt
    <3>1. ModMul(ModMul(work.scf, work.msg), i) = ModMul(ModMul(work.scf, i), work.msg)
      BY <2>2, <2>3, ScaleValue
    <3>2. ModMul(s, work.msg) \in Zt
      BY <2>2, <2>5, RingClosed
    <3> QED BY <2>2, <2>5, <3>1, <3>2
  <2>7. w \in CtType /\ w.scf = s /\ w.val = ModMul(work.val, i) /\ w.msg = work.msg
    BY <2>2, <2>5, <2>6 DEF CtType
  <2> HIDE DEF w
  <2>8. k' \in 0 .. SizeQ /\ k' < SizeQ
    BY <2>1, <2>2, SizeQAssumption DEF Levels
  <2>9. TypeOK'
    BY <1>2, <2>1, <2>4, <2>7, <2>8 DEF TypeOK
  <2>10. Decodes(w)
    BY <2>5, <2>6, <2>7 DEF Decodes
  <2>11. CallOK'
    BY <2>1, <2>4, <2>7, <2>8, <2>10 DEF CallOK
  <2> QED BY <1>2, <1>3, <2>1, <2>9, <2>11
<1>7. CASE Decode
  <2>1. /\ pc = "decrypt" /\ k = 0
        /\ UNCHANGED <<scalingFactorsInt, scalingFactorsIntBig, ct, k, work, arg>>
    BY <1>7 DEF Decode
  <2>2. /\ work \in CtType /\ work.msg \in Zt
        /\ work.scf \in Units /\ work.val = ModMul(work.scf, work.msg)
    BY <1>2, <2>1 DEF CallOK, Decodes, CtType
  <2>3. out' = ModMul(work.val, ModInverse(work.scf)) /\ pc' = "decoded"
    BY <1>7, <2>2 DEF Decode
  <2>4. out' = work.msg
    BY <2>2, <2>3, DecodeValue
  <2>5. TypeOK'
    BY <1>2, <2>1, <2>2, <2>3, <2>4 DEF TypeOK
  <2>6. CallOK'
    BY <2>1, <2>2, <2>3, <2>4 DEF CallOK
  <2> QED BY <1>2, <1>3, <2>1, <2>3, <2>5, <2>6
<1>8. CASE DecryptReturn
  <2>1. /\ pc' = "ready" /\ work' = NoCt /\ out' = One
        /\ UNCHANGED <<scalingFactorsInt, scalingFactorsIntBig, ct, k, arg>>
    BY <1>8 DEF DecryptReturn
  <2>2. TypeOK'
    BY <1>2, <2>1, RingClosed DEF TypeOK
  <2>3. CallOK'
    BY <2>1 DEF CallOK
  <2> QED BY <1>2, <1>3, <2>1, <2>2, <2>3
<1> QED BY <1>4, <1>5, <1>6, <1>7, <1>8 DEF Running

-----------------------------------------------------------------------------
(* The theorems.                                                            *)

(* Under the contract every reachable ciphertext decodes and carries the    *)
(* factor of its level and degree, whatever calls led there.                *)
THEOREM Inductive == Contract /\ Spec => []IInv
<1>1. ASSUME Contract, IInv, [Next]_vars
      PROVE  IInv'
  <2>1. CASE Precompute
    BY <1>1, <2>1, PrecomputeStep
  <2>2. CASE \E x, d \in Ciphertexts : Unary(x, d)
    BY <1>1, <2>2, UnaryStep
  <2>3. CASE \E x \in Ciphertexts : Manage(x)
    BY <1>1, <2>3, ManageStep
  <2>4. CASE \E x, d \in Ciphertexts, p \in Plaintexts : WithPlaintext(x, p, d)
    BY <1>1, <2>4, PlaintextStep
  <2>5. CASE \E x, y, d \in Ciphertexts : Binary(x, y, d)
    BY <1>1, <2>5, BinaryStep
  <2>6. CASE Running
    BY <1>1, <2>6, RunningStep
  <2>7. CASE UNCHANGED vars
    <3>1. TypeOK' /\ CallOK'
      BY <1>1, <2>7 DEF vars, IInv, TypeOK, CallOK
    <3>2. CASE pc = "factors"
      <4>1. TablesPartial'
        BY <1>1, <2>7, <3>2 DEF vars, IInv, TablesPartial
      <4> QED BY <2>7, <3>1, <3>2, <4>1 DEF vars, IInv
    <3>3. CASE pc /= "factors"
      BY <1>1, <2>7, <3>1, <3>3 DEF vars, IInv, Set
    <3> QED BY <3>2, <3>3
  <2> QED BY <1>1, <2>1, <2>2, <2>3, <2>4, <2>5, <2>6, <2>7 DEF Next
<1>2. SUFFICES ASSUME Contract PROVE Spec => []IInv
  OBVIOUS
<1>3. IInv /\ [Next]_vars => IInv'
  BY <1>1, <1>2
<1> QED BY InitIInv, <1>3, PTL DEF Spec

(* The tables, the ciphertexts and the locals keep their types: no sequence *)
(* of calls leaves a ciphertext without towers or past the last level.      *)
THEOREM TypeCorrect == Contract /\ Spec => []TypeOK
<1>1. IInv => TypeOK
  BY DEF IInv
<1> QED BY <1>1, Inductive, PTL

(* Decrypt returns what the application computed.                           *)
THEOREM DecryptCorrectness == Contract /\ Spec => []DecryptCorrect
<1>1. IInv => DecryptCorrect
  BY DEF IInv, CallOK, DecryptCorrect
<1> QED BY <1>1, Inductive, PTL

(* Ciphertexts of one level and degree carry one scaling factor, so EvalAdd *)
(* may add their polynomials.                                               *)
THEOREM ScalesAgree == Contract /\ Spec => []ScaleAgreement
<1>1. IInv => ScaleAgreement
  <2> SUFFICES ASSUME IInv, NEW x \in Ciphertexts, NEW y \in Ciphertexts,
                      Set(x), Set(y), ~ct[x].compressed, ~ct[y].compressed,
                      ct[x].level = ct[y].level,
                      ct[x].noiseScaleDeg = ct[y].noiseScaleDeg
               PROVE  ct[x].scf = ct[y].scf
    BY DEF ScaleAgreement
  <2>1. Good(sf, big, ct[x]) /\ Good(sf, big, ct[y])
    BY DEF IInv, TablesPartial, Set, sf, big
  <2> QED BY <2>1 DEF Good
<1> QED BY <1>1, Inductive, PTL

(* The level of a ciphertext is the number of moduli it has lost.           *)
THEOREM TowersFollowLevel == Contract /\ Spec => []TowersMatchLevel
<1>1. IInv => TowersMatchLevel
  BY DEF IInv, TablesPartial, Set, Good, TowersMatchLevel
<1> QED BY <1>1, Inductive, PTL

(* The automatic techniques keep every degree at 1 or 2.                    *)
THEOREM DegreesBounded == Contract /\ Spec => []DegreeOneOrTwo
<1>1. IInv => DegreeOneOrTwo
  BY DEF IInv, TablesPartial, Set, Good, DegreeOneOrTwo
<1> QED BY <1>1, Inductive, PTL
=============================================================================
