------------------------------- MODULE DCRTPoly -------------------------------
(***************************************************************************)
(* A polynomial of the ring in double CRT representation                   *)
(* (core/include/lattice/hal/default/dcrtpoly-impl.h and poly-impl.h): one *)
(* tower of machine words for every modulus, in coefficient or evaluation  *)
(* format, and every change of basis, rounding and scaling carried out on  *)
(* the towers alone.  RingElement says what the integers behind them do.   *)
(***************************************************************************)
EXTENDS RNSPrecomputations

CONSTANTS InitialPolynomials,  \* [moduli, coefficients] a call sequence starts from
          Operands,            \* second operands: small integer coefficients
          AutomorphismIndices, \* odd
          Scalars,
          PlaintextModuli,
          DecryptPrecisions,   \* [double, word]: the bits a double (52) and a word
                               \* (63) are trusted with in the scaling of decryption
          ScaleFormats,        \* formats that are rescaled in; COEFFICIENT leaves towers
                               \* that disagree with the polynomial
          MaxCalls

VARIABLES poly,    \* [params, format, towers]; a tower is [q, format, v]
          call,    \* the last call with its arguments
          calls    \* how many there were, up to MaxCalls

vars == <<poly, call, calls>>

SumOf(s) == FoldLeft(LAMBDA x, y : x + y, 0, s)

-----------------------------------------------------------------------------
(* Towers and formats *)
Zero == [k \in Indices |-> 0]
Tower(q, format, v) == [q |-> q, format |-> format, v |-> v]

TowerSwitchFormat(x) ==
  IF x.format = "COEFFICIENT"
  THEN Tower(x.q, "EVALUATION", ForwardTransformToBitReverseInPlace(x.v, x.q))
  ELSE Tower(x.q, "COEFFICIENT", InverseTransformFromBitReverseInPlace(x.v, x.q))
TowerSetFormat(x, format) == IF x.format = format THEN x ELSE TowerSwitchFormat(x)

EachTower(p, F(_)) == [p EXCEPT !.towers = [i \in DOMAIN @ |-> F(@[i])]]
WithValues(x, v) == [x EXCEPT !.v = v]

SwitchedFormat(p) ==
  [params |-> p.params,
   format |-> IF p.format = "COEFFICIENT" THEN "EVALUATION" ELSE "COEFFICIENT",
   towers |-> [i \in DOMAIN p.towers |-> TowerSwitchFormat(p.towers[i])]]
SetFormat(p, format) == IF p.format = format THEN p ELSE SwitchedFormat(p)

TowerTimes(x, b) == WithValues(x, VecMulInteger(x.v, b, x.q))
TowerPlus(x, y) == WithValues(x, VecAdd(x.v, y.v, x.q))
TowerMinus(x, y) == WithValues(x, VecSub(x.v, y.v, x.q))
TowerSwitchModulus(x, q) == Tower(q, x.format, SwitchModulus(x.v, x.q, q))

(* DCRTPolyImpl(PolyLarge, params): integers reduced modulo every modulus *)
Encoded(coefficients, params) ==
  [params |-> params, format |-> "COEFFICIENT",
   towers |-> [i \in DOMAIN params |->
                 Tower(params[i], "COEFFICIENT",
                       [k \in Indices |-> coefficients[k] % params[i]])]]
OperandFor(p, coefficients) == SetFormat(Encoded(coefficients, p.params), p.format)

DropLast(p) == [p EXCEPT !.params = Front(@), !.towers = Front(@)]   \* DropLastElement

-----------------------------------------------------------------------------
(* AutomorphismTransform of a tower: X becomes X^index *)
TowerAutomorphism(x, index) ==
  IF x.format = "EVALUATION"
  THEN LET from == [j \in Indices |->
                      ReverseBits[(((2 * j + 1) * index) \div 2) % RingDim]]
       IN  WithValues(x, [k \in Indices |-> x.v[from[ReverseBits[k]]]])
  ELSE LET source == [k \in Indices |-> CHOOSE j \in Indices : (j * index) % RingDim = k]
           wraps(j) == ((j * index) \div RingDim) % 2 = 1
       IN  WithValues(x, [k \in Indices |->
             LET j == source[k] IN IF wraps(j) THEN x.q - x.v[j] ELSE x.v[j]])

-----------------------------------------------------------------------------
(* Base conversion without correction: the sum may exceed the integer by a *)
(* multiple of the basis *)
HatProducts(towers, hatInv) ==
  [i \in DOMAIN towers |->
     LET q == towers[i].q
         precon == PrepModMulConst(hatInv[i], q)
     IN  [k \in Indices |-> ModMulFastConst(towers[i].v[k], hatInv[i], q, precon)]]
SumsModulo(x, factors, j, p) ==
  [k \in Indices |->
     BarrettUint128ModUint64(SumOf([i \in DOMAIN x |-> x[i][k] * factors[i][j]]), p)]

ApproxSwitchCRTBasis(p, to, hatInv, hatMod) ==
  LET x == HatProducts(p.towers, hatInv)
  IN  [params |-> to, format |-> p.format,
       towers |-> [j \in DOMAIN to |-> Tower(to[j], p.format, SumsModulo(x, hatMod, j, to[j]))]]

(* The towers of both, brought to one format *)
Joined(own, added, format) ==
  [params |-> own.params \o added.params, format |-> format,
   towers |-> [i \in 1 .. Len(own.params) + Len(added.params) |->
                 TowerSetFormat((own.towers \o added.towers)[i], format)]]

ModUp(p, special) ==
  Joined(p, ApproxSwitchCRTBasis(SetFormat(p, "COEFFICIENT"), special,
                                 HatInvMod(p.params), HatMod(p.params, special)), "EVALUATION")

(* The special towers, multiplied by t^-1 if there is a t; switched to the  *)
(* other moduli and multiplied by t; and the others less these, over P.    *)
TimesIf(t, x, factor) == IF t > 0 THEN TowerTimes(x, factor) ELSE x
PartP(p, sizeQ, t) ==
  [params |-> P, format |-> "COEFFICIENT",
   towers |-> [j \in DOMAIN P |->
     TimesIf(t, TowerSetFormat(p.towers[sizeQ + j], "COEFFICIENT"), tInvMod(t, P)[j])]]
PartPSwitched(partP, sizeQ, t) ==
  EachTower(ApproxSwitchCRTBasis(partP, Ql(sizeQ), HatInvMod(P), HatMod(P, Q)),
            LAMBDA x : TimesIf(t, x, t))
OverP(p, partQ, sizeQ) ==
  [params |-> Ql(sizeQ), format |-> "EVALUATION",
   towers |-> [i \in 1 .. sizeQ |->
                 TowerTimes(TowerMinus(p.towers[i], partQ.towers[i]), PInvModq(sizeQ)[i])]]
ModDown(p, t) ==
  LET sizeQ == Len(p.towers) - Len(P)
  IN  OverP(p, SetFormat(PartPSwitched(PartP(p, sizeQ, t), sizeQ, t), "EVALUATION"), sizeQ)

(* Base conversion of the centred integer: the overflows of the basis are  *)
(* counted in floating point, one half added, and taken off.               *)
Overflows(x, basis) ==
  LET m == ProductOf(basis)
      hat == [i \in DOMAIN basis |-> Hat(basis, basis[i])]
  IN  [k \in Indices |-> (m + 2 * SumOf([i \in DOMAIN x |-> x[i][k] * hat[i]])) \div (2 * m)]

SwitchCRTBasis(p, to) ==
  LET x == HatProducts(p.towers, HatInvMod(p.params))
      overflows == Overflows(x, p.params)
      alphaMod == AlphaMod(p.params, to)
      hatMod == HatMod(p.params, to)
  IN  [params |-> to, format |-> p.format,
       towers |-> [j \in DOMAIN to |->
         LET sums == SumsModulo(x, hatMod, j, to[j])
         IN  Tower(to[j], p.format,
                   [k \in Indices |-> ModSubFast(sums[k], alphaMod[overflows[k]][j], to[j])])]]

(* towers in evaluation format are kept for a result in that format *)
Expanded(p, added, resultFormat) ==
  Joined(IF resultFormat = "EVALUATION" THEN p ELSE SetFormat(p, "COEFFICIENT"),
         SwitchCRTBasis(SetFormat(p, "COEFFICIENT"), added), resultFormat)

(* R_l / Q of the integer, in R_l and from there in Q_l *)
PloverQ(p, l) ==
  LET partPl == ApproxSwitchCRTBasis(p, Rl(l), negRlHatInvMod(p.params, l), InvMod(p.params, R))
      partQl == SwitchCRTBasis(partPl, Ql(l))
  IN  [params |-> Ql(l) \o Rl(l), format |-> p.format, towers |-> partQl.towers \o partPl.towers]

QlHat(p) ==
  LET l == Len(p.towers)
  IN  [params |-> Q, format |-> p.format,
       towers |-> [i \in DOMAIN Q |->
                     IF i <= l THEN TowerTimes(p.towers[i], QlHatMod(l)[i])
                     ELSE Tower(Q[i], p.format, Zero)]]

-----------------------------------------------------------------------------
(* Division by the last modulus: the last tower, made a multiple of what   *)
(* the rounding asks for, is taken to the other moduli as centred integers *)
Delta(p) == TowerSetFormat(Last(p.towers), "COEFFICIENT")

ScaledBy(rest, last) ==
  LET invMod == qlInvMod(last.q, rest.params)
      divMod == QlQlInvModqlDivqlMod(last.q, rest.params)
      correction(i) ==
        TowerSetFormat(TowerTimes(TowerSwitchModulus(last, rest.params[i]), divMod[i]), rest.format)
  IN  [rest EXCEPT !.towers =   \* always evaluation format, whatever rest.format says
         [i \in DOMAIN @ |->
            TowerSetFormat(TowerPlus(TowerTimes(@[i], invMod[i]), correction(i)), "EVALUATION")]]
Scaled(p) == ScaledBy(DropLast(p), Delta(p))

ReducedBy(rest, delta, t) ==
  LET invMod == qlInvMod(delta.q, rest.params)
      correction(i) ==
        TowerTimes(TowerSetFormat(TowerSwitchModulus(delta, rest.params[i]), rest.format), t)
  IN  [rest EXCEPT !.towers =
         [i \in DOMAIN @ |-> TowerTimes(TowerPlus(@[i], correction(i)), invMod[i])]]
ModReduced(p, t) ==
  ReducedBy(DropLast(p), TowerTimes(Delta(p), negtInvMod(t, Last(p.params))), t)

POverQ(p) ==
  LET last == Last(p.towers)
      rest == DropLast(p)
      invMod == qlInvMod(last.q, rest.params)
  IN  [rest EXCEPT !.towers =
         [i \in DOMAIN @ |->
            TowerTimes(TowerMinus(@[i], TowerSwitchModulus(last, @[i].q)), invMod[i])]]

-----------------------------------------------------------------------------
(* t v / I rounded, in the basis o: the towers that are left out and the   *)
(* tower of o_j itself contribute their quotients modulo o_j, the          *)
(* fractions are summed in floating point                                  *)
TruncatedAlpha(m, fractions) == fractions \div m   \* mutant: one half is not added
RoundedAlpha(m, fractions) == (m + 2 * fractions) \div (2 * m)

ScaledTo(p, o, t) ==
  LET first == o[1] = p.params[1]
      left == IF first THEN SubSeq(p.params, Len(o) + 1, Len(p.params))
              ELSE SubSeq(p.params, 1, Len(p.params) - Len(o))
      inputIndex  == IF first THEN Len(o) ELSE 0
      outputIndex == IF first THEN 0 ELSE Len(left)
      m == ProductOf(left)
      frac == DivsFrac(t, p.params, o, left)
      divs == DivsMod(t, p.params, o, left)
      x(i, k) == p.towers[i].v[k]
      alpha == [k \in Indices |-> RoundedAlpha(m,
                 SumOf([i \in DOMAIN left |->
                          frac[i] * x(i + inputIndex, k) * Hat(left, left[i])]))]
  IN  [params |-> o, format |-> p.format,
       towers |-> [j \in DOMAIN o |->
         Tower(o[j], p.format,
           [k \in Indices |->
              ModAddFast(
                BarrettUint128ModUint64(
                  SumOf([i \in DOMAIN left |-> x(i + inputIndex, k) * divs[j][i]])
                    + x(outputIndex + j, k) * divs[j][Len(left) + 1], o[j]),
                Reduced(alpha[k], o[j]), o[j])])]]

QovertTimes(p, t) ==
  LET negModt == negMod(p.params, t)
      negModtPrecon == PrepModMulConst(negModt, t)
      inverse == tInvMod(t, p.params)
      scaled(x, i) ==
        [k \in Indices |->
           ModMulFast(ModMulFastConst(x.v[k], negModt, t, negModtPrecon),
                      inverse[i], x.q, ComputeMu(x.q))]
  IN  [p EXCEPT !.towers = [i \in DOMAIN @ |-> WithValues(@[i], scaled(@[i], i))]]

(* CRTInterpolate, then DCRTPolyImpl(PolyLarge, params) *)
CRTInterpolate(p) ==
  LET m == ProductOf(p.params)
      multiplier == [i \in DOMAIN p.params |->
                       HatInverse(p.params, p.params[i]) * Hat(p.params, p.params[i])]
  IN  [k \in Indices |-> SumOf([i \in DOMAIN multiplier |-> p.towers[i].v[k] * multiplier[i]]) % m]

-----------------------------------------------------------------------------
(* Decryption: t v / Q rounded and taken modulo t.  The residues are split *)
(* in two halves if a double would lose bits, the products are reduced     *)
(* modulo t if a word would, and the last reduction modulo t is a mask for *)
(* a power of two and a division in floating point otherwise.              *)
IsPowerOfTwo(t) == t = 2 ^ (GetMSB(t) - 1)

DecryptScale(p, t, bits) ==
  LET qMSB == GetMSB(CHOOSE q \in ToSet(p.params) : \A other \in ToSet(p.params) : other <= q)
      sizeQMSB == GetMSB(Len(p.params))
      tMSB == GetMSB(t)
      split == qMSB + sizeQMSB >= bits.double
      half == IF split THEN qMSB \div 2 ELSE qMSB
      fits == half + tMSB + sizeQMSB <
                (IF ~IsPowerOfTwo(t) THEN bits.double
                 ELSE IF split THEN bits.word - 1 ELSE bits.word)
      digits(x) == IF split THEN <<x % 2 ^ half, x \div 2 ^ half>> ELSE <<x>>
      shifts == IF split THEN <<0, half>> ELSE <<0>>
      divs == [d \in DOMAIN shifts |-> tQHatInvModqDivqModt(t, shifts[d])]
      frac == [d \in DOMAIN shifts |-> tQHatInvModqDivqFrac(t, shifts[d])]
      product(x, c) ==
        IF fits THEN (x * c) % Word ELSE ModMulFastConst(x, c, t, PrepModMulConst(c, t))
      m == ProductOf(p.params)
      hat == [i \in DOMAIN p.params |-> Hat(p.params, p.params[i])]
      over(F(_, _, _), k) ==   \* summed over the towers and the digits of their residues
        SumOf([i \in DOMAIN p.towers |->
          SumOf([d \in DOMAIN shifts |-> F(digits(p.towers[i].v[k])[d], i, d)])])
      intSum(k) == over(LAMBDA x, i, d : product(x, divs[d][i]), k) % Word
      fractions(k) == over(LAMBDA x, i, d : x * frac[d][i] * hat[i], k)
      rounded(k) ==
        IF IsPowerOfTwo(t)
        THEN (intSum(k) + RoundedAlpha(m, fractions(k))) % t
        ELSE LET floatSum == intSum(k) * m + fractions(k)
             IN  RoundedAlpha(m, floatSum - t * m * (floatSum \div (t * m)))
  IN  [k \in Indices |-> rounded(k)]

(* The ciphertext compressed to one modulus: t x / q rounded in absolute   *)
(* value, then the modulus switched to t                                   *)
VecMultiplyAndRound(v, t, q) ==
  LET scaled(x) == (2 * t * x + q) \div (2 * q)
  IN  [k \in Indices |-> IF v[k] > q \div 2 THEN q - scaled(q - v[k]) ELSE scaled(v[k]) % q]

Decrypted(p, t, bits) ==
  [params |-> <<t>>, format |-> "COEFFICIENT",
   towers |-> <<IF p.params = Q THEN Tower(t, "COEFFICIENT", DecryptScale(p, t, bits))
                ELSE TowerSwitchModulus(
                       WithValues(p.towers[1],
                                  VecMultiplyAndRound(p.towers[1].v, t, p.params[1])), t)>>]

-----------------------------------------------------------------------------
(* Calls.  The guards are those of the code or of its callers. *)
Coefficients == poly.format = "COEFFICIENT"
Evaluation == poly.format = "EVALUATION"
Levels == 1 .. Len(Q)
AtLevel(l) == poly.params = Ql(l)

Call(c, result) ==
  /\ calls < MaxCalls /\ call.op # "Decrypt"
  /\ calls' = calls + 1
  /\ call' = c
  /\ poly' = result

Ring ==
  \/ Call([op |-> "SwitchFormat"], SwitchedFormat(poly))
  \/ Call([op |-> "Negate"],
          EachTower(poly, LAMBDA x : WithValues(x, VecSub(Zero, x.v, x.q))))
  \/ \E c \in Operands :
       LET other == OperandFor(poly, c).towers
           pairwise(F(_, _)) ==
             [poly EXCEPT !.towers = [i \in DOMAIN @ |-> F(@[i], other[i])]]
       IN  \/ Call([op |-> "Plus", operand |-> c], pairwise(TowerPlus))
           \/ Call([op |-> "Minus", operand |-> c], pairwise(TowerMinus))
           \/ Evaluation /\ Call([op |-> "Times", operand |-> c],
                pairwise(LAMBDA x, y : WithValues(x, VecMul(x.v, y.v, x.q))))
  \/ \E index \in AutomorphismIndices :
       Call([op |-> "AutomorphismTransform", index |-> index],
            EachTower(poly, LAMBDA x : TowerAutomorphism(x, index)))

WithScalars ==
  \E s \in Scalars :
    \/ Call([op |-> "PlusInteger", scalar |-> s],
            EachTower(poly, LAMBDA x : WithValues(x,
              IF Coefficients THEN VecAddAtIndex(x.v, 0, s, x.q) ELSE VecAddInteger(x.v, s, x.q))))
    \/ Call([op |-> "MinusInteger", scalar |-> s, everywhere |-> Coefficients],
            EachTower(poly, LAMBDA x : WithValues(x, VecSubInteger(x.v, s, x.q))))
    \/ Call([op |-> "TimesInteger", scalar |-> s], EachTower(poly, LAMBDA x : TowerTimes(x, s)))

DropAndReduce ==
  \E l \in Levels \ {1} :
    /\ AtLevel(l)
    /\ \/ Call([op |-> "DropLastElement"], DropLast(poly))
       \/ poly.format \in ScaleFormats /\ Call([op |-> "DropLastElementAndScale"], Scaled(poly))
       \/ \E t \in PlaintextModuli : Call([op |-> "ModReduce", t |-> t], ModReduced(poly, t))

ApproxModUp ==
  \E l \in Levels :
    AtLevel(l) /\ Call([op |-> "ApproxModUp", special |-> P], ModUp(poly, P))
ApproxModDown ==
  \E l \in Levels, t \in PlaintextModuli \union {0} :
    /\ poly.params = Ql(l) \o P /\ Evaluation
    /\ Call([op |-> "ApproxModDown", special |-> P, t |-> t], ModDown(poly, t))

ExpandBasis ==
  \/ \E l \in Levels, format \in {"COEFFICIENT", "EVALUATION"} :
       /\ AtLevel(l)
       /\ Call([op |-> "ExpandCRTBasis", added |-> Rl(l)], Expanded(poly, Rl(l), format))
  \/ /\ poly.params = R /\ Coefficients
     /\ Call([op |-> "SwitchCRTBasis", to |-> Q], SwitchCRTBasis(poly, Q))
  \/ \E l \in Levels :
       /\ poly.params \in {Q, Ql(l)} /\ Coefficients
       /\ Call([op |-> "FastExpandCRTBasisPloverQ", kept |-> Ql(l), added |-> Rl(l)],
               PloverQ(poly, l))
  \/ \E l \in Levels \ {Len(Q)} :
       /\ AtLevel(l) /\ Coefficients
       /\ Call([op |-> "ExpandCRTBasisQlHat", added |-> SubSeq(Q, l + 1, Len(Q))], QlHat(poly))

ScaleAndRound ==
  LET to(o, t) == Call([op |-> "ScaleAndRound", to |-> o, t |-> t], ScaledTo(poly, o, t))
  IN  /\ Coefficients
      /\ \/ \E t \in PlaintextModuli, l \in Levels : poly.params = Ql(l) \o Rl(l) /\ to(Ql(l), t)
         \/ \E t \in PlaintextModuli : poly.params = Q \o R /\ to(R, t)
         \/ \E l \in Levels \ {Len(Q)} : poly.params = Q /\ to(Ql(l), 1)

Encryption ==
  /\ Coefficients
  /\ \/ \E l \in Levels :
          AtLevel(l) /\ Call([op |-> "ReEncode", to |-> Qr], Encoded(CRTInterpolate(poly), Qr))
     \/ \E t \in PlaintextModuli :
          /\ poly.params = Qr \/ \E l \in Levels : AtLevel(l)
          /\ LET plaintext == poly.towers[1].v
             IN  poly = Encoded(plaintext, poly.params) /\ \A k \in Indices : plaintext[k] < t
          /\ Call([op |-> "TimesQovert", t |-> t], QovertTimes(poly, t))
     \/ poly.params = Qr /\ Call([op |-> "ScaleAndRoundPOverQ"], POverQ(poly))

Decrypt ==
  \E t \in PlaintextModuli, bits \in DecryptPrecisions :
    /\ Coefficients /\ (AtLevel(Len(Q)) \/ AtLevel(1))
    /\ Call([op |-> "Decrypt", t |-> t], Decrypted(poly, t, bits))

Init ==
  /\ \E initial \in InitialPolynomials : poly = Encoded(initial.coefficients, initial.moduli)
  /\ call = [op |-> "None"]
  /\ calls = 0

Next ==
  \/ Ring \/ WithScalars \/ DropAndReduce \/ ApproxModUp \/ ApproxModDown \/ ExpandBasis
  \/ ScaleAndRound \/ Encryption \/ Decrypt

Spec == Init /\ [][Next]_vars

-----------------------------------------------------------------------------
(* The integers behind the towers, by the definitions of the evaluation at *)
(* the odd powers of the root and of the CRT, without any of the tables.   *)
InverseOf(a, q) == CHOOSE y \in 1 .. q - 1 : (a * y) % q = 1 % q
RootPowers ==
  [q \in NTTModuli |-> [e \in 0 .. CyclotomicOrder - 1 |-> PowerMod(RootOfUnity[q], e, q)]]
InverseDimension == [q \in NTTModuli |-> InverseOf(RingDim, q)]

TowerCoefficients(x) ==
  IF x.format = "COEFFICIENT" THEN [k \in Indices |-> x.v[k] % x.q]
  ELSE LET power(j, k) == RootPowers[x.q][(-(2 * j + 1) * k) % CyclotomicOrder]
       IN  [k \in Indices |->
              (InverseDimension[x.q]
                * SumOf([i \in 1 .. RingDim |-> x.v[ReverseBits[i - 1]] * power(i - 1, k)])) % x.q]

(* <<coefficients modulo the first towers, their product>>, tower by tower *)
Value ==
  FoldLeft(LAMBDA known, x :
             LET m == known[2]
                 inverse == InverseOf(m % x.q, x.q)
                 c == TowerCoefficients(x)
             IN  <<[k \in Indices |->
                      known[1][k] + m * (((c[k] - known[1][k]) * inverse) % x.q)],
                   m * x.q>>,
           <<Zero, 1>>, poly.towers)[1]

RingElement == INSTANCE RingElement WITH value <- Value, moduli <- poly.params

-----------------------------------------------------------------------------
(* Every call on the towers, in either format and after every sequence of  *)
(* other calls, is the operation on integers that RingElement states: the  *)
(* transforms invert each other and multiply polynomials, the reductions   *)
(* of Barrett and Shoup lose nothing, and a change of basis, rounding or   *)
(* scaling that only ever sees residues has the error it is allowed.       *)
ImplementsRing == RingElement!Spec

(* The towers agree with the moduli and the format of the polynomial, and  *)
(* no word leaves the range that the next call's unchecked sums and        *)
(* products need: at most the modulus, which an automorphism in            *)
(* coefficient format and the rounding of decryption do reach.             *)
WellFormed ==
  /\ DOMAIN poly.towers = DOMAIN poly.params
  /\ \A i \in DOMAIN poly.towers :
       LET x == poly.towers[i]
       IN  /\ x.q = poly.params[i] /\ x.format = poly.format
           /\ \A k \in Indices : x.v[k] \in 0 .. x.q
=============================================================================
