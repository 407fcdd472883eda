---------------------------- MODULE NumberTheory ----------------------------
(***************************************************************************)
(* Number theory of core/include/math/nbtheory-impl.h: the randomised      *)
(* searches for generators and roots of unity, and the primality test.     *)
(* A search that draws random numbers is the set of results it may return. *)
(***************************************************************************)
EXTENDS Integers, FiniteSets

Least(S) == CHOOSE x \in S : \A y \in S : x <= y

ModExp(a, e, q) ==
  LET power[i \in 0 .. e] == IF i = 0 THEN 1 % q ELSE (power[i - 1] * a) % q
  IN  power[e]

(* GreatestCommonDivisor: Euclid's loop; the pair of the loop as arguments *)
GreatestCommonDivisor(a, b) ==
  LET bound == IF a < b THEN b ELSE a
      euclid[x \in 0 .. bound, y \in 0 .. bound] == IF y = 0 THEN x ELSE euclid[y, x % y]
  IN  euclid[a, b]

GetTotientList(n) == {i \in 1 .. n - 1 : GreatestCommonDivisor(i, n) = 1}

Divides(d, n) == n % d = 0
IsPrime(n) == n > 1 /\ \A d \in 2 .. n - 1 : ~ Divides(d, n)

(* the pair (s, d) with p - 1 = 2^s * d, d odd *)
OddPart(p) ==
  LET halve[k \in 0 .. p - 1] == IF k % 2 = 0 /\ k > 0 THEN halve[k \div 2] ELSE k
  IN  halve[p - 1]
TwoPower(p) ==
  LET count[k \in 0 .. p - 1] == IF k % 2 = 0 /\ k > 0 THEN 1 + count[k \div 2] ELSE 0
  IN  count[p - 1]

(* TRUE: a shows that p is composite.  "mod" squared s times; a square     *)
(* root of 1 other than 1 and p - 1 on the way is a witness.               *)
WitnessFunction(a, d, s, p) ==
  LET mod[i \in 0 .. s] == IF i = 0 THEN ModExp(a, d, p) ELSE (mod[i - 1] * mod[i - 1]) % p
  IN  \/ \E i \in 1 .. s : mod[i] = 1 /\ mod[i - 1] \notin {1, p - 1}
      \/ mod[s] # 1

(* RNG(n) returns a number below n *)
RNG(n) == 0 .. n - 1

(* The answers MillerRabinPrimalityTest may give; each of the niter rounds *)
(* draws its own base, so a composite may pass only if some base is no     *)
(* witness, and a prime fails only if some base is one.                    *)
MillerRabinPrimalityTest(p) ==
  IF p \in {2, 3, 5} THEN {TRUE}
  ELSE IF p < 2 \/ p % 2 = 0 THEN {FALSE}
  ELSE {~ WitnessFunction((r + 2) % p, OddPart(p), TwoPower(p), p) : r \in RNG(p - 3)}

PrimeFactors(n) == {f \in 2 .. n : Divides(f, n) /\ IsPrime(f)}

(* FindGenerator draws RNG(q - 2) + 1 until no (q - 1)/f-th power is 1 *)
FindGenerator(q) ==
  {gen \in {r + 1 : r \in RNG(q - 2)} :
     \A f \in PrimeFactors(q - 1) : ModExp(gen, (q - 1) \div f, q) # 1}

AnyRootOfUnity(m, q) ==      \* mutant: any primitive root, not the least
  {ModExp(gen, (q - 1) \div m, q) : gen \in FindGenerator(q)}

(* RootOfUnity takes the least of the powers, coprime to m, of the root    *)
(* that the random generator gives.                                        *)
RootOfUnity(m, q) ==
  {Least({ModExp(ModExp(gen, (q - 1) \div m, q), e, q) : e \in GetTotientList(m)} \ {1}) :
     gen \in FindGenerator(q)}
=============================================================================
