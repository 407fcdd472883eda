------------------------------ MODULE MCDCRTPoly ------------------------------
(***************************************************************************)
(* DCRTPoly for TLC: ring dimension 8, words of 14 bits, primes of 7 and 8 *)
(* bits that are 1 modulo 16.                                              *)
(***************************************************************************)
EXTENDS DCRTPoly

MCModuli == {17, 97, 113, 193, 241}
MCQ == <<97, 113>>
MCP == <<17, 241>>
MCR == <<193, 17>>

(* coefficients next to 0, to a half and to the whole of the modulus *)
Boundary(m) ==
  LET at == <<0, 1, m \div 2, m \div 2 + 1, m - 1, m \div 4, m - m \div 8, m \div 3>>
  IN  [k \in 0 .. 7 |-> at[k + 1]]
Spread(m) == [k \in 0 .. 7 |-> (k * (m \div 7) + 5 * k * k + 3) % m]
Plaintext == [k \in 0 .. 7 |-> k % 4]

MCInitial ==
  {[moduli |-> s, coefficients |-> Boundary(ProductOf(s))] : s \in {MCQ, MCQ \o MCP, MCQ \o MCR}}
    \union {[moduli |-> s, coefficients |-> Spread(ProductOf(s))] : s \in {MCQ, Append(MCQ, MCR[1])}}
    \union {[moduli |-> MCQ, coefficients |-> Plaintext]}

MCOperands == {[k \in 0 .. 7 |-> <<1, -2, 0, 1, 2, 0, -1, 1>>[k + 1]]}
MCPrecisions == {[double |-> d, word |-> w] : d \in {8, 9, 11, 20}, w \in {5, 13}}
=============================================================================
