-------------------------- MODULE MCBGVLeveledSHE --------------------------
(* BGVLeveledSHE over Z_t for a small prime t.                              *)
EXTENDS BGVLeveledSHE, TLC

CONSTANT t

MCZt == 0 .. t - 1
MCUnits == 1 .. t - 1
MCModAdd(a, b) == (a + b) % t
MCModNeg(a) == (t - a) % t
MCModMul(a, b) == (a * b) % t
MCModInverse(a) == CHOOSE b \in MCUnits : (a * b) % t = 1

(* Four moduli whose residues are not all alike, and the moduli that are 1  *)
(* modulo t which the FIXED techniques use.                                 *)
MCqModt == [i \in 0 .. SizeQ - 1 |-> 1 + ((i * i + 1) % (t - 1))]
MCqOne == [i \in 0 .. SizeQ - 1 |-> 1]

Symmetry == Permutations(Ciphertexts)

AllLevels == 0 .. SizeQ - 1
AllButLast == 0 .. SizeQ - 2
=============================================================================
