--------------------------- MODULE MCKeyRegistry ---------------------------
(* KeyRegistry with small sets; contexts and parameters are interchangeable. *)
EXTENDS KeyRegistry, TLC

Symmetry == Permutations(Ctxs) \cup Permutations(Params)
=============================================================================
