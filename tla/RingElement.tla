------------------------------ MODULE RingElement ------------------------------
(***************************************************************************)
(* What an element of the ring Z_M[X] / (X^n + 1) promises its user: the   *)
(* coefficients are integers modulo the product of the moduli, and every   *)
(* call of the interface is an operation on these integers, exact or       *)
(* rounded within a stated error.  Nothing is said of formats, towers,     *)
(* words, tables or transforms.                                            *)
(***************************************************************************)
EXTENDS Integers, Sequences, SequencesExt

CONSTANT RingDim

VARIABLES value,    \* the coefficients, from 0 to M - 1
          moduli,   \* the moduli, in order
          call      \* the last call with its arguments

vars == <<value, moduli, call>>

Positions == 0 .. RingDim - 1
Product(s) == FoldLeft(LAMBDA x, y : x * y, 1, s)
Centred(x, m) == IF x > m \div 2 THEN x - m ELSE x
Rounded(a, b) == (2 * a + b) \div (2 * b)    \* of a / b, for natural a

(* Coefficient k of the result, given the coefficients before and after *)
EachCoefficient(Meaning(_, _, _)) ==
  LET before == value
      after  == value'
  IN  \A k \in Positions : Meaning(before, after, k)

(* An exact operation modulo the product of the moduli after the call *)
Exactly(Result(_, _)) ==
  LET m == Product(moduli')
  IN  EachCoefficient(LAMBDA v, w, k : w[k] = Result(v, k) % m)

KeepsModuli == UNCHANGED moduli
Op(name) == call'.op = name

-----------------------------------------------------------------------------
(* Ring operations.  An operand is given by small integer coefficients. *)
SwitchFormat == Op("SwitchFormat") /\ UNCHANGED <<value, moduli>>

Plus  == Op("Plus") /\ KeepsModuli /\ Exactly(LAMBDA v, k : v[k] + call'.operand[k])
Minus == Op("Minus") /\ KeepsModuli /\ Exactly(LAMBDA v, k : v[k] - call'.operand[k])
Negate == Op("Negate") /\ KeepsModuli /\ Exactly(LAMBDA v, k : -v[k])

(* X^n = -1 *)
Times ==
  /\ Op("Times") /\ KeepsModuli
  /\ Exactly(LAMBDA v, k :
       FoldLeft(LAMBDA sum, i :
                  sum + (IF i <= k THEN v[k - i] ELSE -v[RingDim + k - i]) * call'.operand[i],
                0, [i \in 1 .. RingDim |-> i - 1]))

(* X becomes X^index: coefficient j moves to j * index *)
AutomorphismTransform ==
  /\ Op("AutomorphismTransform") /\ KeepsModuli
  /\ LET m == Product(moduli)
         before == value
         after == value'
     IN  \A j \in Positions :
           LET e == (j * call'.index) % (2 * RingDim)
           IN  IF e < RingDim THEN after[e] = before[j]
               ELSE after[e - RingDim] = (-before[j]) % m

(* A scalar is added to the constant coefficient.  The difference differs: *)
(* outside of the evaluation format it is taken of every coefficient.      *)
PlusInteger ==
  /\ Op("PlusInteger") /\ KeepsModuli
  /\ Exactly(LAMBDA v, k : IF k = 0 THEN v[k] + call'.scalar ELSE v[k])
MinusInteger ==
  /\ Op("MinusInteger") /\ KeepsModuli
  /\ Exactly(LAMBDA v, k : IF k = 0 \/ call'.everywhere THEN v[k] - call'.scalar ELSE v[k])
TimesInteger ==
  Op("TimesInteger") /\ KeepsModuli /\ Exactly(LAMBDA v, k : v[k] * call'.scalar)

-----------------------------------------------------------------------------
(* Fewer moduli *)
DropsLastModulus == moduli' = Front(moduli)

DropLastElement == Op("DropLastElement") /\ DropsLastModulus /\ Exactly(LAMBDA v, k : v[k])

(* v / q_l, rounded to the nearest integer *)
DropLastElementAndScale ==
  /\ Op("DropLastElementAndScale") /\ DropsLastModulus
  /\ Exactly(LAMBDA v, k : Rounded(v[k], Last(moduli)))

(* (v + t delta) / q_l with |delta| <= q_l / 2: the residue modulo t is    *)
(* that of v / q_l, and the error at most t / 2                            *)
ModReduce ==
  /\ Op("ModReduce") /\ DropsLastModulus
  /\ LET m  == Product(moduli)
         ql == Last(moduli)
     IN  EachCoefficient(LAMBDA v, w, k :
           LET tDelta == Centred((ql * w[k] - v[k]) % m, m)
           IN  /\ tDelta % call'.t = 0
               /\ tDelta \div call'.t \in -(ql \div 2) .. ql \div 2)

(* (v - t p) / P for some p from 0 to less than P times its number of primes *)
ApproxModDown ==
  /\ Op("ApproxModDown")
  /\ moduli' = SubSeq(moduli, 1, Len(moduli) - Len(call'.special))
  /\ LET m == Product(moduli)
         p == Product(call'.special)
         factor == IF call'.t = 0 THEN 1 ELSE call'.t
     IN  EachCoefficient(LAMBDA v, w, k :
           LET remainder == (v[k] - p * w[k]) % m
           IN  remainder % factor = 0 /\ remainder \div factor < p * Len(call'.special))

-----------------------------------------------------------------------------
(* More moduli, or others *)

(* v + u M with 0 <= u < the number of moduli *)
ApproxModUp ==
  /\ Op("ApproxModUp") /\ moduli' = moduli \o call'.special
  /\ LET m == Product(moduli)
     IN  EachCoefficient(LAMBDA v, w, k :
           (w[k] - v[k]) % m = 0 /\ (w[k] - v[k]) \div m \in 0 .. Len(moduli) - 1)

(* the integer of least absolute value *)
CentredLift(name, newModuli) ==
  /\ Op(name) /\ moduli' = newModuli
  /\ LET m == Product(moduli) IN Exactly(LAMBDA v, k : Centred(v[k], m))
ExpandCRTBasis == CentredLift("ExpandCRTBasis", moduli \o call'.added)
SwitchCRTBasis == CentredLift("SwitchCRTBasis", call'.to)

(* R_l v / Q rounded up, u more with 0 <= u < the number of moduli, taken  *)
(* modulo R_l as the integer of least absolute value                       *)
FastExpandCRTBasisPloverQ ==
  /\ Op("FastExpandCRTBasisPloverQ")
  /\ moduli' = call'.kept \o call'.added
  /\ LET q == Product(moduli)
         r == Product(call'.added)
         all == Product(moduli')
     IN  EachCoefficient(LAMBDA v, w, k :
           \E u \in 0 .. Len(moduli) - 1 :
             w[k] = Centred(((r * v[k] + q - 1) \div q + u) % r, r) % all)

(* back to Q, multiplied by the moduli that come back *)
ExpandCRTBasisQlHat ==
  /\ Op("ExpandCRTBasisQlHat") /\ moduli' = moduli \o call'.added
  /\ Exactly(LAMBDA v, k : v[k] * Product(call'.added))

(* v as it is *)
ReEncode == Op("ReEncode") /\ moduli' = call'.to /\ Exactly(LAMBDA v, k : v[k])

-----------------------------------------------------------------------------
(* Scaling for BFV *)

(* t v / I, rounded, where I is the product of the moduli that are left out *)
ScaleAndRound ==
  /\ Op("ScaleAndRound") /\ moduli' = call'.to
  /\ LET i == Product(moduli) \div Product(call'.to)
     IN  Exactly(LAMBDA v, k : Rounded(call'.t * v[k], i))

ScaleAndRoundPOverQ ==
  /\ Op("ScaleAndRoundPOverQ") /\ DropsLastModulus
  /\ Exactly(LAMBDA v, k : Rounded(v[k], Last(moduli)))

(* M m / t, rounded up, of a plaintext m *)
TimesQovert ==
  /\ Op("TimesQovert") /\ KeepsModuli
  /\ LET m == Product(moduli)
     IN  Exactly(LAMBDA v, k : (m * v[k] + call'.t - 1) \div call'.t)

(* t v / M, rounded, modulo t *)
Decrypt ==
  /\ Op("Decrypt") /\ moduli' = <<call'.t>>
  /\ LET m == Product(moduli) IN Exactly(LAMBDA v, k : Rounded(call'.t * v[k], m))

-----------------------------------------------------------------------------
Init == value \in [Positions -> Nat] /\ \A k \in Positions : value[k] < Product(moduli)

Next ==
  \/ SwitchFormat \/ Plus \/ Minus \/ Negate \/ Times \/ AutomorphismTransform
  \/ PlusInteger \/ MinusInteger \/ TimesInteger
  \/ DropLastElement \/ DropLastElementAndScale \/ ModReduce \/ ApproxModDown
  \/ ApproxModUp \/ ExpandCRTBasis \/ SwitchCRTBasis \/ FastExpandCRTBasisPloverQ
  \/ ExpandCRTBasisQlHat \/ ReEncode
  \/ ScaleAndRound \/ ScaleAndRoundPOverQ \/ TimesQovert \/ Decrypt

Spec == Init /\ [][Next]_vars
=============================================================================
