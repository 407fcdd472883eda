-------------------------- MODULE MCCKKSLeveledSHE --------------------------
(* CKKSLeveledSHE with the units of a prime field as scaling factors.       *)
EXTENDS CKKSLeveledSHE, TLC

CONSTANT P

MCFactors == 1 .. P - 1
Inverses == [a \in MCFactors |-> CHOOSE b \in MCFactors : (a * b) % P = 1]
MCTimes(a, b) == (a * b) % P
MCOver(a, b) == IF b = 0 THEN 0 ELSE (a * Inverses[b]) % P

(* Moduli of which no two, and no two products of two, are alike.           *)
MCmoduliQ == [i \in 0 .. SizeQ - 1 |-> <<7, 11, 13, 17, 19, 23>>[i + 1]]
AllLevels == 0 .. SizeQ - 1
SomeLevels == {0, 1, 2, 4}
MCTechniques ==
  {"FIXEDMANUAL", "FLEXIBLEAUTO", "FLEXIBLEAUTOEXT", "COMPOSITESCALINGAUTO"}
Symmetry == Permutations(Ciphertexts)
=============================================================================
