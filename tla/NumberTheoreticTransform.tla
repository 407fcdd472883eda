----------------------- MODULE NumberTheoreticTransform -----------------------
(***************************************************************************)
(* The negacyclic number theoretic transform in place                      *)
(* (core/include/math/hal/intnat/transformnat-impl.h): the tables of       *)
(* PreCompute and the butterflies of the forward and the inverse transform.*)
(***************************************************************************)
EXTENDS NativeInteger, FiniteSets, SequencesExt

CONSTANTS RingDim,     \* n, a power of two
          NTTModuli    \* the primes, each 1 modulo 2n

Indices == 0 .. RingDim - 1
CyclotomicOrder == 2 * RingDim
LogDim == GetMSB(RingDim - 1)

ASSUME ModuliAssumption == \A q \in NTTModuli : q % CyclotomicOrder = 1

(* ReverseBits for the indices of the ring *)
ReverseBits ==
  LET reverse[bits \in 0 .. LogDim] ==
        IF bits = 0 THEN [x \in {0} |-> 0]
        ELSE [x \in 0 .. 2 ^ bits - 1 |->
                (x % 2) * 2 ^ (bits - 1) + reverse[bits - 1][x \div 2]]
  IN  reverse[LogDim]

(* a root r of order 2n, that is r^n = -1, in the parameters of a tower *)
PowerMod(x, e, q) == FoldLeft(LAMBDA y, i : (y * x) % q, 1 % q, [i \in 1 .. e |-> i])
RootOfUnity == [q \in NTTModuli |-> CHOOSE r \in 2 .. q - 1 : PowerMod(r, RingDim, q) = q - 1]

-----------------------------------------------------------------------------
(* The tables of a modulus: powers of the root and of its inverse, power i *)
(* in place ReverseBits(i), with the constants of Shoup, and the inverses  *)
(* of the powers of two up to n.                                           *)
Powers(r, q) ==
  LET mu == ComputeMu(q)
      x[i \in Indices] == IF i = 0 THEN 1 ELSE ModMul(x[i - 1], r, q, mu)
  IN  [i \in Indices |-> x[ReverseBits[i]]]
Precon(table, q) == [i \in DOMAIN table |-> PrepModMulConst(table[i], q)]

PreCompute(q) ==
  LET table  == Powers(RootOfUnity[q], q)
      tableI == Powers(ModInverse(RootOfUnity[q], q), q)
      tableCOI == [i \in 0 .. LogDim |-> ModInverse(2 ^ i, q)]
  IN  [root |-> table, rootPrecon |-> Precon(table, q),
       rootInverse |-> tableI, rootInversePrecon |-> Precon(tableI, q),
       cycloOrderInverse |-> tableCOI, cycloOrderInversePrecon |-> Precon(tableCOI, q)]

TablesByModulus == [q \in NTTModuli |-> PreCompute(q)]

-----------------------------------------------------------------------------
(* One stage on pairs of entries t apart, m blocks of pairs; the pairs are *)
(* disjoint, so that a stage in place is a function of the vector before.  *)
Stage(v, m, Pair(_, _, _)) ==
  LET t == RingDim \div (2 * m)
  IN  [k \in Indices |->
         LET lo == IF k % (2 * t) < t THEN k ELSE k - t
         IN  Pair(v[lo], v[lo + t], m + k \div (2 * t))[IF k = lo THEN 1 ELSE 2]]

(* Cooley and Tukey: <<lo + w hi, lo - w hi>> *)
ForwardStage(v, m, q, tab) ==
  LET pair(loVal, hiVal, i) ==
        LET omegaFactor == ModMulFastConst(hiVal, tab.root[i], q, tab.rootPrecon[i])
        IN  <<ModAddFast(loVal, omegaFactor, q), ModSubFast(loVal, omegaFactor, q)>>
  IN  Stage(v, m, pair)

(* Gentleman and Sande: <<lo + hi, w (lo - hi)>> *)
InverseStage(v, m, q, tab) ==
  LET pair(loVal, hiVal, i) ==
        <<ModAddFast(loVal, hiVal, q),
          ModMulFastConst(ModSubFast(loVal, hiVal, q), tab.rootInverse[i], q,
                          tab.rootInversePrecon[i])>>
  IN  Stage(v, m, pair)

(* The last stage of the inverse with 1/n folded into the factor of its    *)
(* upper half; the lower half is multiplied by 1/n afterwards.             *)
LastInverseStage(v, q, tab) ==
  LET nInv == tab.cycloOrderInverse[LogDim]
      nInvPrecon == tab.cycloOrderInversePrecon[LogDim]
      omega1Inv == ModMulFastConst(tab.rootInverse[1], nInv, q, nInvPrecon)
      pair(loVal, hiVal, i) ==
        <<ModMulFastConst(ModAddFast(loVal, hiVal, q), nInv, q, nInvPrecon),
          ModMulFastConst(ModSubFast(loVal, hiVal, q), omega1Inv, q,
                          PrepModMulConst(omega1Inv, q))>>
  IN  Stage(v, 1, pair)

(* m = 1, 2, .., n/2 forward and n/2, .., 2, then 1, backward *)
StageSizes == [i \in 1 .. LogDim |-> 2 ^ (i - 1)]

ForwardTransformToBitReverseInPlace(v, q) ==
  LET tab == TablesByModulus[q]
  IN  FoldLeft(LAMBDA w, m : ForwardStage(w, m, q, tab), v, StageSizes)

InverseTransformFromBitReverseInPlace(v, q) ==
  LET tab == TablesByModulus[q]
      stages == Reverse(Tail(StageSizes))
  IN  LastInverseStage(FoldLeft(LAMBDA w, m : InverseStage(w, m, q, tab), v, stages), q, tab)
=============================================================================
