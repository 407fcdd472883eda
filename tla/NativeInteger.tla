---------------------------- MODULE NativeInteger ----------------------------
(***************************************************************************)
(* The native integer backend (core/include/math/hal/intnat/ubintnat.h and *)
(* core/lib/math/hal/intnat/mubintvecnat.cpp): modular arithmetic on       *)
(* machine words with the reductions of Barrett and Shoup in place of a    *)
(* division.  A word has MaxBits bits and wraps; a double word has twice   *)
(* as many.  A vector is a function from its indices to words.             *)
(***************************************************************************)
EXTENDS Integers, Sequences

CONSTANT MaxBits   \* bits of a word, 64 in the default build

Word == 2 ^ MaxBits
Signed(x) == IF x >= Word \div 2 THEN x - Word ELSE x

GetMSB(x) == CHOOSE k \in 0 .. 30 : x < 2 ^ k /\ (k = 0 \/ x >= 2 ^ (k - 1))

(* the low word of a double word shifted right *)
RShiftD(x, shift) == (x \div 2 ^ shift) % Word
MultDHi(a, b) == (a * b) \div Word

-----------------------------------------------------------------------------
(* Sums of operands that do not exceed the modulus *)
ModAddFast(a, b, q) == IF a + b >= q THEN a + b - q ELSE a + b
ModSubFast(a, b, q) == IF a < b THEN a + q - b ELSE a - b

Reduced(a, q) == IF a >= q THEN a % q ELSE a
ModAdd(a, b, q) == ModAddFast(Reduced(a, q), Reduced(b, q), q)
ModSub(a, b, q) == ModSubFast(Reduced(a, q), Reduced(b, q), q)

(* Barrett: the quotient by a modulus of k bits is estimated from          *)
(* mu = 2^(2k + 3) / q and the dividend without its last k - 2 bits; the   *)
(* estimate is short of the quotient by one at most.                       *)
ComputeMu(q) == (2 ^ (2 * GetMSB(q) + 3)) \div q

NoCorrection(a, b, q, mu) ==   \* mutant: the estimate is taken for exact
  LET n == GetMSB(q) - 2
      quotient == (RShiftD(a * b, n) * mu) \div 2 ^ (n + 7)
  IN  (a * b - q * quotient) % Word

ModMulFast(a, b, q, mu) ==
  LET n == GetMSB(q) - 2
      quotient == (RShiftD(a * b, n) * mu) \div 2 ^ (n + 7)
      r == (a * b - q * quotient) % Word
  IN  IF r >= q THEN r - q ELSE r

(* The operands are reduced with the same mu if need be *)
ModMu(a, q, mu) ==
  LET n == GetMSB(q) - 2
      r == (a - (((RShiftD(a, n) * mu) \div 2 ^ (n + 7)) * q)) % Word
  IN  IF r >= q THEN r - q ELSE r
ModMul(a, b, q, mu) ==
  LET reduced(x) == IF x >= q THEN ModMu(x, q, mu) ELSE x
  IN  ModMulFast(reduced(a), reduced(b), q, mu)

(* Shoup: for a multiplicand b known in advance the quotient is estimated  *)
(* from b * 2^MaxBits / q.  One more than the estimate is subtracted, in   *)
(* words that wrap, and a negative result is corrected.                    *)
PrepModMulConst(b, q) == (b * Word) \div q

ModMulFastConst(a, b, q, bInv) ==
  LET quotient == (MultDHi(a, bInv) + 1) % Word
      yprime == Signed((a * b - quotient * q) % Word)
  IN  IF yprime >= 0 THEN yprime ELSE yprime + q

(* The extended algorithm of Euclid in signed words *)
RECURSIVE Euclid(_, _, _, _)
Euclid(a, modulus, x, y) ==
  IF a <= 1 THEN x ELSE Euclid(modulus, a % modulus, y, x - (a \div modulus) * y)
ModInverse(a, q) ==
  LET x == Euclid(a % q, q, 1, 0)
  IN  IF q = 1 THEN 0 ELSE IF x < 0 THEN x + q ELSE x

(* The remainder of a double word a by a word, with mu = 2^(2 MaxBits) / q: *)
(* the quotient is a * mu without its two low words, summed up from the     *)
(* products of words with their carries.                                    *)
BarrettUint128ModUint64(a, q) ==
  LET mu == (Word * Word) \div q
      lo(x) == x % Word
      hi(x) == x \div Word
      first == lo(a) * hi(mu)
      tmp1 == lo(first) + hi(lo(a) * lo(mu))
      second == hi(a) * lo(mu)
      carry == hi(lo(second) + lo(tmp1))
      quotient == hi(a) * hi(mu) + hi(first) + hi(tmp1) + hi(second) + carry
  IN  ((lo(a) - quotient * q) % Word) % q

-----------------------------------------------------------------------------
(* Vectors *)
VecAdd(v, w, q) == [k \in DOMAIN v |-> ModAddFast(v[k], w[k], q)]
VecSub(v, w, q) == [k \in DOMAIN v |-> ModSubFast(v[k], w[k], q)]
VecMul(v, w, q) == LET mu == ComputeMu(q) IN [k \in DOMAIN v |-> ModMulFast(v[k], w[k], q, mu)]

VecAddInteger(v, b, q) == [k \in DOMAIN v |-> ModAddFast(v[k], Reduced(b, q), q)]
VecAddAtIndex(v, i, b, q) == [v EXCEPT ![i] = ModAdd(@, b, q)]
VecSubInteger(v, b, q) == [k \in DOMAIN v |-> ModSubFast(v[k], Reduced(b, q), q)]
VecMulInteger(v, b, q) ==
  LET bv == Reduced(b, q)
      bconst == PrepModMulConst(bv, q)
  IN  [k \in DOMAIN v |-> ModMulFastConst(v[k], bv, q, bconst)]

(* An entry above half of the old modulus stands for a negative number *)
SwitchModulus(v, old, new) ==
  LET negative(x) == x > old \div 2
  IN  IF new > old
      THEN [k \in DOMAIN v |-> IF negative(v[k]) THEN (v[k] + (new - old)) % Word ELSE v[k]]
      ELSE [k \in DOMAIN v |-> ModSub(v[k], IF negative(v[k]) THEN old - new ELSE 0, new)]
=============================================================================
