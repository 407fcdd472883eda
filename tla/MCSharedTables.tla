--------------------------- MODULE MCSharedTables ---------------------------
(* Two contexts: A of dimension 4 and B of dimension 2, which share the    *)
(* modulus 41 and the plaintext modulus 17.                                *)
EXTENDS SharedTables

CONSTANTS A, B
MCDim == [c \in {A, B} |-> IF c = A THEN 4 ELSE 2]
MCTowers == [c \in {A, B} |-> IF c = A THEN <<41, 73>> ELSE <<41, 13>>]
MCPlaintextModulus == [c \in {A, B} |-> 17]
=============================================================================
