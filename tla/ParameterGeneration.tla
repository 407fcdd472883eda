------------------------ MODULE ParameterGeneration ------------------------
(* The generation of RNS parameters: a request names a scheme, a security  *)
(* level and the sizes it wants; the library estimates log2 of the moduli  *)
(* Q and P, picks a ring dimension for the estimate, selects the moduli,   *)
(* computes the tables of hybrid key switching from the moduli it got, and *)
(* validates the ring dimension against them.  A modulus is the exponent b *)
(* of the power of two it is searched from and the side it lies on, which  *)
(* is what decides the bit length of a product.  The estimate travels from *)
(* one half of the computation to the other in a global of the process.    *)
EXTENDS Integers, Sequences, FiniteSetsExt, TLC

CONSTANTS
  Requests,        \* what GenCryptoContext is called with
  Archived         \* requests whose contexts are deserialized

VARIABLES
  sizeP_estimate_global,   \* 0: no estimate to compare with
  call,                    \* the call in progress, or None
  last                     \* what the call that just ended answered

vars == <<sizeP_estimate_global, call, last>>

None == [pc |-> "idle"]
NoAnswer == [answer |-> "none"]

-----------------------------------------------------------------------------
(* Limits and the table of the HE standard (ternary secrets).              *)

AuxBits == 60
MULTIPARTY_MOD_SIZE == 60
NUM_MODULI_MULTIPARTY == 2
DEFAULT_EXTRA_MOD_SIZE == 20

MaxLogQ == [HEStd_128_classic |-> <<27, 54, 109, 218, 438, 881, 1747, 3523>>,
            HEStd_256_classic |-> <<14, 29, 58, 118, 237, 476, 929, 1866>>]

RingDimOfRow(i) == 512 * 2^i

FindRingDim(level, logQ) ==
  LET fits == {i \in DOMAIN MaxLogQ[level] : logQ \in 1..MaxLogQ[level][i]}
  IN  RingDimOfRow(IF fits # {} THEN Min(fits) ELSE Len(MaxLogQ[level]) + 1)

CeilDiv(a, b) == (a + b - 1) \div b

Sum(bits) ==
  LET upTo[i \in 0..Len(bits)] == IF i = 0 THEN 0 ELSE upTo[i - 1] + bits[i]
  IN  upTo[Len(bits)]

ComputeNumLargeDigits(numLargeDigits, multDepth) ==
  IF numLargeDigits > 0 THEN numLargeDigits
  ELSE IF multDepth > 3 THEN 3 ELSE IF multDepth > 0 THEN 2 ELSE 1

-----------------------------------------------------------------------------
(* Digits of hybrid key switching.                                         *)

Distributable(sizeQ, numPartQ) == sizeQ > CeilDiv(sizeQ, numPartQ) * (numPartQ - 1)

Digits(seq, numPartQ) ==
  LET a == CeilDiv(Len(seq), numPartQ)
  IN  {SubSeq(seq, j * a + 1, Min({(j + 1) * a, Len(seq)})) : j \in 0..(numPartQ - 1)}

EstimateLogP(numPartQ, qi, addOne) ==
  LET d == Min({numPartQ, Len(qi)})
      maxBits == Max({Sum(digit) : digit \in Digits(qi, d)})
  IN  CeilDiv(maxBits + (IF addOne /\ maxBits # AuxBits THEN 1 ELSE 0), AuxBits)

(* The bit lengths the product of moduli can have: the sum of the          *)
(* exponents, and one more when the moduli above their power of two win.   *)
Lengths(moduli) ==
  LET sum == Sum([i \in DOMAIN moduli |-> moduli[i].bits])
      sides == {moduli[i].side : i \in DOMAIN moduli}
  IN  CASE sides = {"below"} -> {sum}
        [] sides = {"above"} -> {sum + 1}
        [] OTHER -> {sum, sum + 1}

Modulus(bits, side) == [bits |-> bits, side |-> side]

Repeat(x, k) == [i \in 1..k |-> x]

-----------------------------------------------------------------------------
(* Moduli of a request.  The moduli of Q are searched downward in BGV with *)
(* chosen sizes and in BFV, upward from the power of two in BGV with       *)
(* computed sizes, and alternately below and above it in CKKS.             *)

Flexible == {"FLEXIBLEAUTO", "FLEXIBLEAUTOEXT"}

(* BGV computes sizes itself in every mode but FIXEDMANUAL; ModSizes is    *)
(* its noise analysis: the sizes of the moduli for each ring dimension.    *)
SizesFromNoise(r) == r.scheme = "BGV" /\ r.technique # "FIXEDMANUAL"

Flooding(r) == Repeat(Modulus(MULTIPARTY_MOD_SIZE, "below"), IF r.multiparty THEN NUM_MODULI_MULTIPARTY ELSE 0)

AfterFirst(moduli, extra) == <<Head(moduli)>> \o extra \o Tail(moduli)

SinglePrimeModuliGen(r) ==
  LET k == r.numPrimes
      SideOf(i) == IF i = k \/ (k - i) % 2 = 0 THEN "above" ELSE "below"
      Scaling(i) == Modulus(r.dcrtBits, IF r.technique \in Flexible /\ i < k - 2 THEN "either" ELSE SideOf(i))
      First == Modulus(r.firstModSize, IF r.firstModSize = r.dcrtBits THEN "above" ELSE "below")
  IN  [i \in 1..k |-> IF i = 1 THEN First ELSE Scaling(i)]
        \o Repeat(Modulus(DEFAULT_EXTRA_MOD_SIZE - 1, "above"), IF r.technique = "FLEXIBLEAUTOEXT" THEN 1 ELSE 0)

BFVLimbs(r, logq) == CeilDiv(logq, r.dcrtBits)

FloodingLogQ(r) == IF r.multiparty THEN MULTIPARTY_MOD_SIZE * NUM_MODULI_MULTIPARTY ELSE 0

ComputeModuli(r, n) ==
  LET sizes == r.modSizes[n]
  IN  [i \in 1..r.numPrimes |-> Modulus(sizes[IF i = 1 THEN 1 ELSE 2], "above")]
        \o Repeat(Modulus(sizes[3], "above"), IF r.technique = "FLEXIBLEAUTOEXT" THEN 1 ELSE 0)

Moduli(r, n) ==
  CASE r.scheme = "CKKS" -> SinglePrimeModuliGen(r)
    [] r.scheme = "BFV"  -> AfterFirst(Repeat(Modulus(r.dcrtBits, "below"), BFVLimbs(r, r.logq)), Flooding(r))
    [] SizesFromNoise(r) -> AfterFirst(ComputeModuli(r, n), Flooding(r))
    [] OTHER -> AfterFirst([i \in 1..r.numPrimes |-> Modulus(IF i = 1 THEN r.firstModSize ELSE r.dcrtBits, "below")],
                           Flooding(r))

NumPartQ(r, moduli) ==
  IF r.scheme = "BFV" THEN ComputeNumLargeDigits(r.digits, Len(moduli) - 1)
  ELSE ComputeNumLargeDigits(r.digits, r.numPrimes - 1)

-----------------------------------------------------------------------------
(* The estimate made before the moduli are known.                          *)

EstimatedSizes(r) ==
  LET First == IF SizesFromNoise(r) THEN 0 ELSE r.firstModSize
      Other == IF SizesFromNoise(r) THEN 0 ELSE r.dcrtBits
      Extra == Repeat(DEFAULT_EXTRA_MOD_SIZE, IF r.technique = "FLEXIBLEAUTOEXT" THEN 1 ELSE 0)
  IN  IF r.scheme = "BFV" THEN Repeat(r.dcrtBits, BFVLimbs(r, BFVLimbs(r, r.logq) * r.dcrtBits + FloodingLogQ(r)))
      ELSE AfterFirst(<<First>> \o Repeat(Other, r.numPrimes - 1),
                      Repeat(MULTIPARTY_MOD_SIZE, FloodingLogQ(r) \div MULTIPARTY_MOD_SIZE)) \o Extra

QEstimate(r) ==
  IF r.scheme = "BFV" THEN BFVLimbs(r, r.logq) * r.dcrtBits + FloodingLogQ(r) ELSE Sum(EstimatedSizes(r))

(* CKKS and the automatic modes of BGV count a bit for the selection of    *)
(* the moduli, unless one modulus of the largest size is all there is.     *)
\* mutant: BGV counts it in FIXEDMANUAL too
AddOneInBGV(r) == r.scheme \in {"CKKS", "BGV"}

AddOne(r) == r.scheme = "CKKS" \/ (SizesFromNoise(r) /\ QEstimate(r) # AuxBits)

ExtraBit(r) == IF AddOne(r) /\ QEstimate(r) # AuxBits /\ (r.scheme = "CKKS" \/ r.ks = "HYBRID") THEN 1 ELSE 0

\* mutant: no estimate is made for a ring dimension the user gave
EstimatesPForRing(r) == r.ks = "HYBRID" /\ r.ring = 0

EstimatesP(r) == r.ks = "HYBRID" /\ (r.scheme = "BGV" \/ r.level # "HEStd_NotSet")

\* mutant: the special primes are left out of the bound
QBoundWithoutP(r, sizeP) == QEstimate(r) + ExtraBit(r)

QBound(r, sizeP) == QEstimate(r) + ExtraBit(r) + sizeP * AuxBits

(* The smallest ring dimension the standard allows, 0 when none is asked   *)
(* for, and whether the one the user gave will do.                         *)
StandardRing(r, qBound) == IF r.level = "HEStd_NotSet" THEN 0 ELSE FindRingDim(r.level, qBound)

Complies(r, qBound) == IF r.ring = 0 THEN r.level # "HEStd_NotSet" \/ r.scheme = "BFV"
                                     ELSE r.ring >= StandardRing(r, qBound)

ComputeRingDimension(r, qBound) ==
  IF r.ring # 0 THEN r.ring
  ELSE IF r.scheme = "BFV" THEN Max({512, StandardRing(r, qBound)}) ELSE StandardRing(r, qBound)

BatchFits(r, n) ==
  /\ r.batch <= (IF r.scheme = "CKKS" THEN n \div 2 ELSE n)
  /\ r.batch \in {0} \cup {2^i : i \in 0..18}

(* The ring dimensions a request may end with, and what its sizes are.     *)
RingDims(r) == IF r.ring # 0 THEN {r.ring} ELSE {RingDimOfRow(i) : i \in 1..9}

Size == Nat \ {0}
ASSUME RequestsAssumption ==
  \A r \in Requests :
    /\ r.scheme \in {"CKKS", "BGV", "BFV"} /\ r.level \in DOMAIN MaxLogQ \cup {"HEStd_NotSet"}
    /\ r.numPrimes \in Size /\ r.digits \in Nat /\ r.ring \in Nat /\ r.multiparty \in BOOLEAN
    /\ IF SizesFromNoise(r) THEN \A n \in RingDims(r) : r.modSizes[n] \in Size \X Size \X Size
                             ELSE r.firstModSize \in Size /\ r.dcrtBits \in Size
    /\ r.scheme = "BFV" => r.logq \in Size

-----------------------------------------------------------------------------

Init ==
  /\ sizeP_estimate_global = 0
  /\ call = None
  /\ last = NoAnswer

Return(answer) ==
  /\ call' = None
  /\ last' = [answer |-> answer, request |-> call.request, estimated |-> call.estimated]

(* GenCryptoContext: EstimateLogP throws before it sets the global.        *)
GenCryptoContext(r) ==
  LET sizes == EstimatedSizes(r)
      d == NumPartQ(r, sizes)
      sizeP == IF EstimatesP(r) THEN EstimateLogP(d, sizes, AddOne(r)) ELSE 0
  IN  /\ call = None
      /\ IF EstimatesP(r) /\ ~Distributable(Len(sizes), Min({d, Len(sizes)}))
         THEN /\ last' = [answer |-> "digits", request |-> r, estimated |-> FALSE]
              /\ UNCHANGED <<sizeP_estimate_global, call>>
         ELSE /\ sizeP_estimate_global' = IF EstimatesP(r) THEN sizeP ELSE sizeP_estimate_global
              /\ call' = [pc |-> "ring", request |-> r, estimated |-> EstimatesP(r), n |-> 0,
                          qBound |-> QBound(r, sizeP), moduli |-> <<>>, sizeP |-> 0]
              /\ last' = NoAnswer

ChooseRing ==
  LET r == call.request
  IN  /\ call.pc = "ring"
      /\ UNCHANGED sizeP_estimate_global
      /\ IF ~Complies(r, call.qBound) THEN Return("ring_dimension")
         ELSE /\ call' = [call EXCEPT !.pc = IF SizesFromNoise(r) THEN "sizes" ELSE "moduli",
                                      !.n = ComputeRingDimension(r, call.qBound)]
              /\ UNCHANGED last

(* One pass of the loop of BGV: the moduli of the ring dimension give a    *)
(* new bound, which the next ring dimension must hold.  The first moduli   *)
(* are computed ahead of the loop and bounded without P.                   *)
PassSizes(r, moduli) ==
  AfterFirst([i \in DOMAIN moduli |-> moduli[IF i \in 3..r.numPrimes THEN 2 ELSE i].bits],
             Repeat(MULTIPARTY_MOD_SIZE, FloodingLogQ(r) \div MULTIPARTY_MOD_SIZE))

NewQBound(r, moduli, sizeP) == Max(Lengths(moduli)) + FloodingLogQ(r) + sizeP * AuxBits

\* mutant: the loop ends only when the bound shrinks
Shrinks(qBound, newQBound) == qBound > newQBound

Settled(qBound, newQBound) == qBound >= newQBound

FitModuli ==
  LET r == call.request
      first == call.moduli = <<>>
  IN  /\ call.pc = "sizes"
      /\ UNCHANGED last
      /\ \E moduli \in {ComputeModuli(r, call.n)} :
         \E sizeP \in {IF first \/ r.ks # "HYBRID" THEN 0
                       ELSE EstimateLogP(NumPartQ(r, moduli), PassSizes(r, moduli), FALSE)} :
         \E new \in {IF first THEN Max(Lengths(moduli)) ELSE NewQBound(r, moduli, sizeP)} :
           /\ sizeP_estimate_global' = IF sizeP = 0 THEN sizeP_estimate_global ELSE sizeP
           /\ call' = [call EXCEPT !.moduli = moduli,
                                   !.pc = IF ~first /\ Settled(call.qBound, new) THEN "moduli" ELSE "ring",
                                   !.qBound = IF ~first /\ Settled(call.qBound, new) THEN call.qBound ELSE new]

SelectModuli ==
  LET r == call.request
  IN  /\ call.pc = "moduli"
      /\ UNCHANGED sizeP_estimate_global
      /\ IF ~BatchFits(r, call.n) THEN Return("batch_size")
         ELSE /\ call' = [call EXCEPT !.pc = "tables", !.moduli = Moduli(r, call.n)]
              /\ UNCHANGED last

-----------------------------------------------------------------------------
(* The tables of hybrid key switching, from the moduli there are.          *)

MaxBits(moduli, numPartQ) ==
  LET digits == Digits(moduli, numPartQ)
  IN  {m \in UNION {Lengths(digit) : digit \in digits} : \A digit \in digits : Min(Lengths(digit)) <= m}

EstimateMet(sizeP) == sizeP_estimate_global \in {0, sizeP}

(* Load is a deserialization: the tables of a context that was generated   *)
(* in another process are computed again from its moduli.                  *)
Load(r) ==
  /\ call = None
  /\ call' = [pc |-> "loaded", request |-> r, estimated |-> FALSE, n |-> r.ring,
              qBound |-> 0, moduli |-> Moduli(r, r.ring), sizeP |-> 0]
  /\ last' = NoAnswer
  /\ UNCHANGED sizeP_estimate_global

TablesDone(sizeP) ==
  IF call.pc = "loaded" THEN Return("ok")
  ELSE /\ call' = [call EXCEPT !.pc = "validate", !.sizeP = sizeP]
       /\ UNCHANGED last

PrecomputeCRTTables ==
  LET d == NumPartQ(call.request, call.moduli)
  IN  /\ call.pc \in {"tables", "loaded"}
      /\ \/ /\ call.request.ks # "HYBRID"
            /\ TablesDone(0)
            /\ UNCHANGED sizeP_estimate_global
         \/ /\ call.request.ks = "HYBRID"
            /\ ~Distributable(Len(call.moduli), d)
            /\ Return("digits")
            /\ UNCHANGED sizeP_estimate_global
         \/ /\ call.request.ks = "HYBRID"
            /\ Distributable(Len(call.moduli), d)
            /\ \E bits \in MaxBits(call.moduli, d) :
                 LET sizeP == CeilDiv(bits, AuxBits)
                 IN  IF EstimateMet(sizeP) THEN TablesDone(sizeP) /\ sizeP_estimate_global' = 0
                     ELSE Return("estimate") /\ UNCHANGED sizeP_estimate_global

ValidateRing ==
  LET moduliQP == call.moduli \o Repeat(Modulus(AuxBits, "below"), call.sizeP)
  IN  /\ call.pc = "validate"
      /\ UNCHANGED sizeP_estimate_global
      /\ \E logActualQ \in Lengths(moduliQP) :
           Return(IF call.n < StandardRing(call.request, logActualQ) THEN "report_to_developers" ELSE "ok")

Next ==
  \/ \E r \in Requests : GenCryptoContext(r)
  \/ \E r \in Archived : Load(r)
  \/ ChooseRing
  \/ FitModuli
  \/ SelectModuli
  \/ PrecomputeCRTTables
  \/ ValidateRing

(* A call runs to its end; whether there is another is up to the program.  *)
Fairness == WF_vars(ChooseRing \/ FitModuli \/ SelectModuli \/ PrecomputeCRTTables \/ ValidateRing)

Spec == Init /\ [][Next]_vars /\ Fairness

-----------------------------------------------------------------------------
(* Properties.                                                             *)

(* "reset sizeP_estimate_global before the next use"                       *)
(* (rns-cryptoparameters.cpp:147): a call is refused for an estimate that  *)
(* was not met only if it made that estimate itself.                       *)
OwnEstimate == last.answer = "estimate" => last.estimated

(* The ring dimension chosen for the estimated moduli and accepted by the  *)
(* standard also holds the moduli that were selected: the error that asks  *)
(* to report to the developers (bgvrns-parametergeneration.cpp:648) does   *)
(* not come up.                                                            *)
RingHoldsModuli == last.answer # "report_to_developers"

(* Where every modulus is searched downward from its power of two with the *)
(* sizes that were estimated, the estimate of P is exact.                  *)
DownwardEstimateExact ==
  last.answer = "estimate" => ~(last.request.scheme = "BGV" /\ last.request.technique = "FIXEDMANUAL")
                           /\ ~(last.request.scheme = "BFV" /\ last.request.dcrtBits = AuxBits)

(* CKKS counts one bit for "the alternating logic of selecting the RNS     *)
(* moduli" (ckksrns-parametergeneration.cpp:127): parameters that comply   *)
(* with the standard are not refused for the outcome of that selection.    *)
AlternationAccounted == last.answer = "estimate" => last.request.scheme # "CKKS"

(* Every call returns: the loop of BGV that fits moduli to a ring          *)
(* dimension and a ring dimension to the moduli ends.                      *)
GenerationReturns == (call # None) ~> (call = None)
=============================================================================
