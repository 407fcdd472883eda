---------------------------- MODULE Accumulators ----------------------------
(***************************************************************************)
(* The accumulators of BinFHE's blind rotation.  The accumulator holds     *)
(*                m(X^u) * X^e    modulo X^N + 1                           *)
(* for the test polynomial m it was started with: an external product with *)
(* an encryption of X^k adds k to e, an automorphism multiplies u and e.   *)
(* What is modelled is which products and automorphisms the three methods  *)
(* perform for a ciphertext mask a and the secret key s inside the keys,   *)
(* and the digits an external product multiplies the keys with.            *)
(***************************************************************************)
EXTENDS Integers, Sequences, SequencesExt

CONSTANTS N,            \* ring dimension of the accumulator, a power of two
          q,            \* modulus of the small ciphertexts, q | 2N
          BaseR,        \* digit base of AP's refreshing keys
          NumAutoKeys   \* LMKCDEY's window: automorphism keys for 5^1 .. 5^w

M == 2 * N

Begin == [u |-> 1, e |-> 0]
AddToAcc(acc, k) == [acc EXCEPT !.e = (@ + k) % M]
Automorphism(acc, k) == [u |-> (acc.u * k) % M, e |-> (acc.e * k) % M]

Positions(n) == [i \in 1 .. n |-> i]

\* 0.ModSubFast(x, m)
Negate(x, m) == IF x = 0 THEN 0 ELSE m - x

\* CGGI: one product for X^(-a s); the modulus is the ciphertext's own.
EvalAccCGGI(s, a, mod) ==
  LET add(acc, i) == AddToAcc(acc, s[i] * Negate(a[i], mod) * (M \div mod))
  IN  FoldLeft(add, Begin, Positions(Len(a)))

DigitsR == CHOOSE d \in 1 .. q : BaseR ^ d >= q /\ BaseR ^ (d - 1) < q

\* DM: one product for every non-zero digit j at place k of the mask, with the
\* key of X^(s j BaseR^k).
EvalAccDM(s, a) ==
  LET digit(x, k) == (x \div BaseR ^ k) % BaseR
      key(i, j, k) == ((s[i] * j * BaseR ^ k) % q) * (M \div q)
      addDigits(acc, i) ==
        LET x == Negate(a[i], q)
            add(acc1, k) == IF digit(x, k - 1) = 0 THEN acc1
                            ELSE AddToAcc(acc1, key(i, digit(x, k - 1), k - 1))
        IN  FoldLeft(add, acc, Positions(DigitsR))
  IN  FoldLeft(addDigits, Begin, Positions(Len(a)))

-----------------------------------------------------------------------------
(* LMKCDEY: the masks are made odd and visited by their logarithm to the   *)
(* base 5, from the largest to the smallest, with automorphisms between.   *)

Powers5[i \in 0 .. N] ==
  IF i = 0 THEN 1
  ELSE LET half == Powers5[i \div 2]
       IN  (half * half * (IF i % 2 = 0 THEN 1 ELSE 5)) % M
ModExp5(i) == Powers5[i]

\* The logarithms of 5^i, -5^i and -1; those of 1 and of even numbers stay 0.
LogGen ==
  LET logs == 1 .. N \div 2 - 1
      pow == CHOOSE t \in {[i \in logs |-> ModExp5(i)]} : TRUE
      log(x) == IF x = M - 1 THEN M
                ELSE IF \E i \in logs : pow[i] = x THEN CHOOSE i \in logs : pow[i] = x
                ELSE IF \E i \in logs : M - pow[i] = x THEN - (CHOOSE i \in logs : M - pow[i] = x)
                ELSE 0
  IN  CHOOSE t \in {[x \in 1 .. M - 1 |-> log(x)]} : TRUE

Odd(x) == IF x % 2 = 0 THEN x + 1 ELSE x

Windows(acc, k) == FoldLeft(LAMBDA acc1, i : Automorphism(acc1, ModExp5(NumAutoKeys)), acc,
                            Positions(k \div NumAutoKeys))

\* mutant: the rotations left when no window is full are forgotten
TurnWholeWindows(acc, k) == Windows(acc, k)
\* k rotations by 5: a window at a time, the rest when it is due.
Turn(acc, k) == Automorphism(Windows(acc, k), ModExp5(k % NumAutoKeys))

\* The products for the elements of the mask whose logarithm is l.
AddLog(s, log, acc, l) ==
  LET add(acc1, i) == IF log[i] = l THEN AddToAcc(acc1, (s[i] % q) * (M \div q)) ELSE acc1
  IN  FoldLeft(add, acc, Positions(Len(log)))

\* One pass over the logarithms sign * (N/2 - 1), ..., sign * 1: a rotation is
\* due before a product and at the end.
Pass(s, log, acc, sign) ==
  LET due == {i \in {sign * l : l \in Range(log)} : i \in 1 .. N \div 2 - 1}
      visit(st, i) == [acc |-> AddLog(s, log, Turn(st.acc, st.at - i), sign * i), at |-> i]
      end == FoldLeft(visit, [acc |-> acc, at |-> N \div 2 - 1],
                      SetToSortSeq(due, LAMBDA x, y : x > y))
  IN  Turn(end.acc, end.at)

EvalAccLMKCDEY(s, a) ==
  LET log == [i \in DOMAIN a |-> LogGen[Odd(Negate(a[i], M))]]
      \* only the test polynomial is transformed: the mask of the accumulator is 0
      negative == Pass(s, log, [Begin EXCEPT !.u = M - 5], -1)
      minusOne == Automorphism(AddLog(s, log, negative, M), M - 5)
  IN  AddLog(s, log, Pass(s, log, minusOne, 1), 0)

EvalAcc(method, s, a, mod) ==
  CASE method = "GINX" -> EvalAccCGGI(s, a, mod)
    [] method = "AP" -> EvalAccDM(s, a)
    [] method = "LMKCDEY" -> EvalAccLMKCDEY(s, a)

\* The constant coefficient of m(X^u) * X^e.
Extract(m, acc) ==
  LET j == CHOOSE j \in 0 .. N - 1 : (acc.u * j + acc.e) % N = 0
  IN  IF (acc.u * j + acc.e) % M = 0 THEN m[j] ELSE - m[j]

-----------------------------------------------------------------------------
(* Digits of an external product, to the base B of the gadget.             *)

\* (d << gBitsMaxBits) >> gBitsMaxBits
SignedDigit(d, B) == ((d + B \div 2) % B) - B \div 2

\* What is left of x after each of n digits: x is taken between -Q/2 and Q/2.
Rests(x, Q, B, n) ==
  LET left[k \in 0 .. n] ==
        IF k = 0 THEN (IF x < Q \div 2 THEN x ELSE x - Q)
        ELSE (left[k - 1] - SignedDigit(left[k - 1], B)) \div B
  IN  left

\* mutant: the first digit is kept and the last one is not computed
FirstDigitKept(x, Q, B, digitsG) ==
  [k \in 1 .. digitsG - 1 |-> SignedDigit(Rests(x, Q, B, digitsG)[k - 1], B)]

\* The first digit is skipped; the carry out of the last one is dropped.
SignedDigitDecompose(x, Q, B, digitsG) ==
  [k \in 1 .. digitsG - 1 |-> SignedDigit(Rests(x, Q, B, digitsG)[k], B)]
=============================================================================
