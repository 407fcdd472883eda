----------------------- MODULE MCParameterGeneration -----------------------
(* Requests of each scheme with sizes of real parameter sets.              *)
EXTENDS ParameterGeneration

Request(scheme, technique, level, ring, numPrimes, first, dcrt) ==
  [scheme |-> scheme, technique |-> technique, ks |-> "HYBRID", level |-> level, ring |-> ring,
   numPrimes |-> numPrimes, firstModSize |-> first, dcrtBits |-> dcrt, digits |-> 0, batch |-> 0,
   multiparty |-> FALSE, logq |-> 0, modSizes |-> <<>>]

Standard == "HEStd_128_classic"

CKKS(technique, level, ring, depth, first, dcrt) == Request("CKKS", technique, level, ring, depth + 1, first, dcrt)
BGVManual(depth, first, dcrt) == Request("BGV", "FIXEDMANUAL", Standard, 0, depth + 1, first, dcrt)
BFV(level, ring, dcrt, logq) == [Request("BFV", "NORESCALE", level, ring, 1, dcrt, dcrt) EXCEPT !.logq = logq]

(* Sizes that grow by half a bit when the ring dimension doubles.          *)
NoiseSizes == [n \in {512 * 2^i : i \in 0..9} |->
                LET half == CHOOSE h \in 0..4 : n \in {512 * 4^h, 1024 * 4^h} IN <<22 + half, 35 + half, 4 + half>>]
BGVAuto(technique, depth) ==
  [Request("BGV", technique, Standard, 0, depth + 1, 0, 0) EXCEPT !.modSizes = NoiseSizes]

Variants(r) == {r, [r EXCEPT !.digits = 2], [r EXCEPT !.digits = 4], [r EXCEPT !.ks = "BV"], [r EXCEPT !.batch = 12],
                [r EXCEPT !.ring = 4096], [r EXCEPT !.level = "HEStd_256_classic"]}
Flooded(r) == {r, [r EXCEPT !.multiparty = TRUE]}

StandardRequests ==
  UNION {Variants(r) : r \in
    {CKKS(t, Standard, 0, depth, 60, 50) : t \in {"FIXEDAUTO", "FLEXIBLEAUTO", "FLEXIBLEAUTOEXT"}, depth \in {1, 5, 6}}
    \cup UNION {Flooded(r) : r \in {BGVManual(depth, 60, 30) : depth \in {0, 3, 7}}}
    \cup {BGVAuto(t, depth) : t \in {"FIXEDAUTO", "FLEXIBLEAUTO", "FLEXIBLEAUTOEXT"}, depth \in {1, 4, 9}}
    \cup UNION {Flooded(BFV(Standard, 0, 60, logq)) : logq \in {50, 110, 300}}}

UnsetRequests == {CKKS("FIXEDAUTO", "HEStd_NotSet", 4096, 1, 60, 50), [BGVManual(7, 60, 30) EXCEPT !.ring = 4096]}
AlternatingRequests == {CKKS(t, Standard, 0, 10, 60, 40) : t \in {"FIXEDMANUAL", "FIXEDAUTO"}}
ArchivedRequests == {[BGVManual(3, 60, 30) EXCEPT !.ring = 16384]}
ArchivedBV == {[r EXCEPT !.ks = "BV"] : r \in ArchivedRequests}
=============================================================================
