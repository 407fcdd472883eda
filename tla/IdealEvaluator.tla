--------------------------- MODULE IdealEvaluator ---------------------------
(***************************************************************************)
(* What an application is promised by an encrypted evaluator, whatever     *)
(* keys, parties and moduli stand behind it: a ciphertext holds a number,  *)
(* the homomorphic operations compute on those numbers, the maintenance    *)
(* operations (tower dropping, bootstrapping) copy one, and a decryption   *)
(* reveals the number the ciphertext holds at that moment.                 *)
(***************************************************************************)
EXTENDS Integers, Sequences

CONSTANTS Messages,     \* the numbers an application encrypts
          MaxCiphertexts

VARIABLES values,       \* values[k]: the number ciphertext k holds
          revealed      \* what the last decryption returned, <<>> before it

vars == <<values, revealed>>

Handles == DOMAIN values

New(v) ==
  /\ Len(values) < MaxCiphertexts
  /\ values' = Append(values, v)
  /\ UNCHANGED revealed

Init == values = <<>> /\ revealed = <<>>

Encrypt == \E m \in Messages : New(m)
EvalAdd == \E j, k \in Handles : New(values[j] + values[k])
EvalMult == \E j, k \in Handles : New(values[j] * values[k])
Refresh == \E k \in Handles : New(values[k])

Decrypt ==
  /\ \E k \in Handles : revealed' = <<values[k]>>
  /\ UNCHANGED values

Next == Encrypt \/ EvalAdd \/ EvalMult \/ Refresh \/ Decrypt

Spec == Init /\ [][Next]_vars
=============================================================================
