---------------------------- MODULE ThresholdFHE ----------------------------
(***************************************************************************)
(* Threshold FHE: several parties build one public key and one             *)
(* multiplication key, decrypt and bootstrap together, and survive the     *)
(* loss of a party because every secret key was shared out beforehand.     *)
(*                                                                         *)
(* A ring element is one residue modulo the product of the towers it has   *)
(* (the operations of the protocol act on every evaluation point alike);   *)
(* the noise terms are left out, so a message is the residue itself.       *)
(***************************************************************************)
EXTENDS Integers, Sequences, FiniteSets, FiniteSetsExt, Functions

CONSTANTS
  Moduli,            \* the primes q_1, q_2, ... of the towers
  Word,              \* 2^64: where NativeInteger's raw addition wraps
  CompressionLevel,  \* GetMPIntBootCiphertextCompressionLevel
  MessageTowers,     \* scalingFactorBits / firstModulusSize + 1
  Schemes,           \* records [parties, threshold, shareType] in use
  Secrets,           \* the values a secret key takes (ternary)
  Tapes,             \* sequences of uniform draws a party may make
  Messages, MaxCiphertexts,
  MaxAdds            \* how often the shares are aggregated in one refresh

Prime(m) == m \in Nat /\ m >= 2 /\ \A d \in 2 .. m - 1 : m % d # 0

\* Distinct primes; one tower at least is kept.
ASSUME ModuliAssumption ==
  /\ Moduli \in Seq(Nat)
  /\ \A k \in 1 .. Len(Moduli) : Prime(Moduli[k])
  /\ \A j, k \in 1 .. Len(Moduli) : Moduli[j] = Moduli[k] => j = k
  /\ CompressionLevel \in Nat /\ MessageTowers \in Nat \ {0}
  /\ CompressionLevel + MessageTowers <= Len(Moduli)
  /\ Word \in Nat \ {0}

\* The conditions under which ShareKeys and RecoverSharedKey do not throw.
ASSUME SchemesAssumption ==
  \A sch \in Schemes :
    /\ sch.parties \in Nat /\ sch.parties >= 2
    /\ sch.threshold \in Nat /\ 2 * sch.threshold > sch.parties
    /\ \A k \in 1 .. Len(Moduli) : sch.parties < Moduli[k]

VARIABLES
  scheme,       \* the scheme the parties agreed on
  secretKeys,   \* secretKeys[i]: the secret key party i generated
  shares,       \* shares[i][j]: the share of i's key that party j holds
  publicKey,    \* the joined public key [b, a]
  evalKey,      \* the joined key that switches s to s
  multKey,      \* the sum of the parties' parts of the relinearisation key
  multipliers,  \* how many parties have contributed to multKey
  alive,        \* the parties that have not dropped out
  ciphertexts,  \* ciphertexts[k] = [elements, towers]
  partials,     \* the decryption under way: [of, part], or None
  refresh,      \* the bootstrapping under way, or None
  revealed      \* what the last fusion returned, <<>> before it

vars == <<scheme, secretKeys, shares, publicKey, evalKey, multKey, multipliers,
          alive, ciphertexts, partials, refresh, revealed>>
keyVars == <<scheme, secretKeys, shares, publicKey, evalKey>>

None == [none |-> TRUE]
Full == Len(Moduli)
Q[k \in 0 .. Full] == IF k = 0 THEN 1 ELSE Q[k - 1] * Moduli[k]

\* Secret keys and uniform draws are reduced; there are as many draws as
\* a party makes for its keys and its shares.
ASSUME ValuesAssumption ==
  /\ Secrets \subseteq 0 .. Q[Full] - 1 /\ Messages \subseteq Int
  /\ \A tape \in Tapes :
       /\ tape \in Seq(0 .. Q[Full] - 1) /\ Len(tape) >= 2
       /\ \A sch \in Schemes : Len(tape) >= sch.threshold - 1 /\ Len(tape) >= sch.parties - 2

Parties == 1 .. scheme.parties
Joined == DOMAIN secretKeys

Sum(f) == MapThenSumSet(LAMBDA k : f[k], DOMAIN f)
Smallest(S, n) == {x \in S : Cardinality({y \in S : y < x}) < n}

\* The representative a base extension and a decryption take.
Centred(x, m) == LET r == x % m IN IF 2 * r < m THEN r ELSE r - m

Inverses == [k \in 1 .. Full |-> [x \in 1 .. Moduli[k] - 1 |->
               CHOOSE y \in 1 .. Moduli[k] - 1 : (x * y) % Moduli[k] = 1]]
ModAddFast(x, y, q) ==
  LET s == (x + y) % Word IN IF s >= q THEN s - q ELSE s

Towers(x) == [k \in 1 .. Full |-> x % Moduli[k]]
Units == [k \in 1 .. Full |-> CHOOSE x \in 0 .. Q[Full] - 1 :
            Towers(x) = [j \in 1 .. Full |-> IF j = k THEN 1 ELSE 0]]
FromTowers(r) == Sum([k \in 1 .. Full |-> r[k] * Units[k]]) % Q[Full]

-----------------------------------------------------------------------------
(* Sharing a secret key.                                                   *)

AdditiveShare(s, draws, position) ==
  IF position = 1 \/ position < scheme.parties - 1
  THEN Towers(draws[position])
  ELSE Towers(s - Sum([d \in 1 .. scheme.parties - 2 |-> draws[d]]))

\* powtemp: the powers of x modulo q.
Powers(x, n, q) == LET p[d \in 0 .. n] == IF d = 0 THEN 1 ELSE (p[d - 1] * x) % q IN p

\* mutant: the polynomial is evaluated at the share's position, not at its owner
ShamirShareAtPosition(s, draws, owner) ==
  [k \in 1 .. Full |->
     LET powers == Powers(owner - 1, scheme.threshold - 1, Moduli[k])
         terms == [d \in 1 .. scheme.threshold - 1 |-> (powers[d] * draws[d]) % Moduli[k]]
     IN  ModAddFast(Sum(terms) % Word, s % Moduli[k], Moduli[k])]

\* f(owner), f a polynomial with f(0) = s; its terms are added as raw words.
ShamirShare(s, draws, owner) ==
  [k \in 1 .. Full |->
     LET powers == Powers(owner, scheme.threshold - 1, Moduli[k])
         terms == [d \in 1 .. scheme.threshold - 1 |-> (powers[d] * draws[d]) % Moduli[k]]
     IN  ModAddFast(Sum(terms) % Word, s % Moduli[k], Moduli[k])]

ShareKeys(s, index, draws) ==
  [j \in Parties \ {index} |->
     IF scheme.shareType = "additive"
     THEN AdditiveShare(s, draws, IF j < index THEN j ELSE j - 1)
     ELSE ShamirShare(s, draws, j)]

Lagrange(j, holders, k) ==
  LET q == Moduli[k]
  IN  FoldSet(LAMBDA i, x : (x * i * Inverses[k][(i - j) % q]) % q, 1, holders \ {j})

Recoverable(i, holders) == Cardinality(holders \ {i}) >= scheme.threshold

\* The key that the shares of the holders of i's key give.
RecoverSharedKey(i, holders) ==
  LET some == IF scheme.shareType = "additive"
              THEN Smallest(holders \ {i}, scheme.threshold)
              ELSE holders \ {i}
      coefficient(j, k) ==
        IF scheme.shareType = "additive" THEN 1 ELSE Lagrange(j, some, k)
  IN  FromTowers([k \in 1 .. Full |->
        Sum([j \in some |-> (coefficient(j, k) * shares[i][j][k]) % Moduli[k]])])

\* A party that dropped out is replaced by whoever recovers its key.
CanAct(i) == i \in alive \/ Recoverable(i, alive)
KeyOf(i) == IF i \in alive THEN secretKeys[i] ELSE RecoverSharedKey(i, alive)

-----------------------------------------------------------------------------
(* Keys.                                                                   *)

Init ==
  /\ scheme \in Schemes
  /\ secretKeys = <<>> /\ shares = <<>>
  /\ publicKey = None /\ evalKey = None
  /\ multKey = None /\ multipliers = 0
  /\ alive = 1 .. scheme.parties
  /\ ciphertexts = <<>>
  /\ partials = None /\ refresh = None
  /\ revealed = <<>>

KeySwitchGen(old, new, a) == [b |-> (old - a * new) % Q[Full], a |-> a]
AddB(key1, key2) == [key1 EXCEPT !.b = (@ + key2.b) % Q[Full]]
MultiAddPubKeys(key1, key2) == AddB(key1, key2)
MultiAddEvalKeys(key1, key2) == AddB(key1, key2)

MultiAddEvalMultKeys(key1, key2) ==
  [AddB(key1, key2) EXCEPT !.a = (@ + key2.a) % Q[Full]]
MultiMultEvalKey(s, key) ==
  [b |-> (key.b * s) % Q[Full], a |-> (key.a * s) % Q[Full]]

Share(s, tape) ==
  /\ secretKeys' = Append(secretKeys, s)
  /\ shares' = Append(shares, ShareKeys(s, Len(secretKeys) + 1, tape))
  /\ UNCHANGED <<scheme, multKey, multipliers, alive, ciphertexts, partials,
                 refresh, revealed>>

\* The first party.
KeyGen == \E s \in Secrets, tape \in Tapes :
  /\ Joined = {}
  /\ publicKey' = [b |-> (- tape[1] * s) % Q[Full], a |-> tape[1]]
  /\ evalKey' = KeySwitchGen(s, s, tape[2])
  /\ Share(s, tape)

\* A further party; with fresh its key is added by MultiAddPubKeys.
MultipartyKeyGen == \E s \in Secrets, tape \in Tapes, fresh \in BOOLEAN :
  /\ Joined # {} /\ Joined # Parties
  /\ LET b == (- publicKey.a * s) % Q[Full]
         own == [publicKey EXCEPT !.b = IF fresh THEN b ELSE (@ + b) % Q[Full]]
     IN  publicKey' = IF fresh THEN MultiAddPubKeys(publicKey, own) ELSE own
  /\ evalKey' = MultiAddEvalKeys(evalKey, KeySwitchGen(s, s, evalKey.a))
  /\ Share(s, tape)

\* The parties multiply their keys into the joined key, the last one first.
MultiplyEvalKey ==
  LET i == scheme.parties - multipliers
  IN  /\ Joined = Parties /\ i > 0 /\ CanAct(i)
      /\ multipliers' = multipliers + 1
      /\ multKey' = LET part == MultiMultEvalKey(KeyOf(i), evalKey)
                    IN  IF multipliers = 0 THEN part
                        ELSE MultiAddEvalMultKeys(part, multKey)
      /\ UNCHANGED <<keyVars, alive, ciphertexts, partials, refresh, revealed>>

Abort == \E i \in alive :
  /\ Joined = Parties
  /\ alive' = alive \ {i}
  /\ UNCHANGED <<keyVars, multKey, multipliers, ciphertexts, partials, refresh, revealed>>

-----------------------------------------------------------------------------
(* Computing.                                                              *)

\* mutant: the towers are dropped from the parameters, not from the elements
ForgetTowers(c, towers) == [c EXCEPT !.towers = towers]
Compress(c, towers) ==
  [elements |-> [j \in DOMAIN c.elements |-> c.elements[j] % Q[towers]],
   towers |-> towers]

Store(c) ==
  /\ Joined = Parties
  /\ Len(ciphertexts) < MaxCiphertexts
  /\ ciphertexts' = Append(ciphertexts, c)
  /\ UNCHANGED <<keyVars, multKey, multipliers, alive, partials, revealed>>

Encrypt == \E m \in Messages, v \in {tape[1] : tape \in Tapes} :
  /\ Store([elements |-> << (publicKey.b * v + m) % Q[Full],
                            (publicKey.a * v) % Q[Full] >>, towers |-> Full])
  /\ UNCHANGED refresh

EvalAdd == \E j, k \in DOMAIN ciphertexts :
  LET c == ciphertexts[j]  d == ciphertexts[k]
  IN  /\ j <= k /\ c.towers = d.towers
      /\ Store([c EXCEPT !.elements = [e \in 1 .. 2 |->
                  (@[e] + d.elements[e]) % Q[c.towers]]])
      /\ UNCHANGED refresh

\* The product's third element is switched from s^2 by the joined key.
EvalMult == \E j, k \in DOMAIN ciphertexts :
  LET c == ciphertexts[j].elements  d == ciphertexts[k].elements
      q == Q[ciphertexts[j].towers]
      square == (c[2] * d[2]) % q
  IN  /\ j <= k /\ ciphertexts[j].towers = ciphertexts[k].towers
      /\ multipliers = scheme.parties
      /\ Store([ciphertexts[j] EXCEPT !.elements =
                  << (c[1] * d[1] + square * multKey.b) % q,
                     (c[1] * d[2] + c[2] * d[1] + square * multKey.a) % q >>])
      /\ UNCHANGED refresh

-----------------------------------------------------------------------------
(* Distributed decryption.                                                 *)

MultipartyDecryptMain(s, c) == (s * c.elements[2]) % Q[c.towers]
MultipartyDecryptLead(s, c) ==
  (c.elements[1] + MultipartyDecryptMain(s, c)) % Q[c.towers]

\* The first party to answer is the lead.
MultipartyDecrypt == \E i \in Parties, k \in DOMAIN ciphertexts :
  /\ CanAct(i)
  /\ \/ /\ partials = None
        /\ partials' = [of |-> k, part |-> [j \in {i} |-> MultipartyDecryptLead(KeyOf(i), ciphertexts[k])]]
     \/ /\ partials # None
        /\ partials.of = k /\ i \notin DOMAIN partials.part
        /\ partials' = [partials EXCEPT !.part = [j \in DOMAIN @ \cup {i} |->
                          IF j = i THEN MultipartyDecryptMain(KeyOf(i), ciphertexts[k]) ELSE @[j]]]
  /\ UNCHANGED <<keyVars, multKey, multipliers, alive, ciphertexts, refresh, revealed>>

MultipartyDecryptFusion ==
  /\ partials # None /\ DOMAIN partials.part = Parties
  /\ revealed' = << Centred(Sum(partials.part), Q[ciphertexts[partials.of].towers]) >>
  /\ partials' = None
  /\ UNCHANGED <<keyVars, multKey, multipliers, alive, ciphertexts, refresh>>

-----------------------------------------------------------------------------
(* Interactive bootstrapping: every party hides its part of the decryption *)
(* under a mask and hands out the mask encrypted with the large modulus.   *)

NumTowersToKeep == MessageTowers + CompressionLevel

IntMPBootAdjustScale == \E k \in DOMAIN ciphertexts, a \in {tape[1] : tape \in Tapes} :
  /\ refresh = None /\ Len(ciphertexts) < MaxCiphertexts
  /\ ciphertexts[k].towers >= NumTowersToKeep
  /\ refresh' = [input |-> Compress(ciphertexts[k], NumTowersToKeep), a |-> a,
                 pairs |-> <<>>, sum |-> None, adds |-> 0]
  /\ UNCHANGED <<keyVars, multKey, multipliers, alive, ciphertexts, partials, revealed>>

\* mutant: the mask is drawn from all the towers of the ciphertext
WideMask(draw) == Centred(draw, Q[NumTowersToKeep])
GenerateMi(draw) == Centred(draw, Q[CompressionLevel])

GenerateMaskedDecryptionShare(s, c, mask) == (s * c.elements[2] - mask) % Q[c.towers]
GenerateReEncryptionShare(s, a, mask) == (- s * a + mask) % Q[Full]

IntMPBootDecrypt == \E tape \in Tapes :
  LET i == Len(refresh.pairs) + 1
      mask == GenerateMi(tape[1])
      pair == << GenerateMaskedDecryptionShare(KeyOf(i), refresh.input, mask),
                 GenerateReEncryptionShare(KeyOf(i), refresh.a, mask) >>
  IN  /\ refresh # None /\ i \in Parties /\ CanAct(i)
      /\ refresh' = [refresh EXCEPT !.pairs = Append(@, pair)]
      /\ UNCHANGED <<keyVars, multKey, multipliers, alive, ciphertexts, partials, revealed>>

\* The sum is built in the first pair, which the caller still holds.
IntMPBootAdd ==
  LET total == << Sum([i \in Parties |-> refresh.pairs[i][1]]) % Q[NumTowersToKeep],
                  Sum([i \in Parties |-> refresh.pairs[i][2]]) % Q[Full] >>
  IN  /\ refresh # None /\ DOMAIN refresh.pairs = Parties
      /\ refresh.adds < MaxAdds
      /\ refresh' = [refresh EXCEPT !.pairs[1] = total, !.sum = total, !.adds = @ + 1]
      /\ UNCHANGED <<keyVars, multKey, multipliers, alive, ciphertexts, partials, revealed>>

IntMPBootEncrypt ==
  /\ refresh # None /\ refresh.sum # None
  /\ LET c0 == Centred(refresh.input.elements[1] + refresh.sum[1], Q[NumTowersToKeep])
     IN  Store([elements |-> << (c0 + refresh.sum[2]) % Q[Full], refresh.a >>,
                towers |-> Full])
  /\ refresh' = None

-----------------------------------------------------------------------------
Next ==
  \/ KeyGen \/ MultipartyKeyGen \/ MultiplyEvalKey \/ Abort
  \/ Encrypt \/ EvalAdd \/ EvalMult
  \/ MultipartyDecrypt \/ MultipartyDecryptFusion
  \/ IntMPBootAdjustScale \/ IntMPBootDecrypt \/ IntMPBootAdd \/ IntMPBootEncrypt

Spec == Init /\ [][Next]_vars

-----------------------------------------------------------------------------
(* Properties.                                                             *)

\* Every key and every ciphertext stays reduced modulo the towers it has.
TypeOK ==
  /\ scheme \in Schemes /\ alive \subseteq Parties /\ multipliers \in 0 .. scheme.parties
  /\ Joined \subseteq Parties
  /\ \A key \in {publicKey, evalKey, multKey} \ {None} :
       key.b \in 0 .. Q[Full] - 1 /\ key.a \in 0 .. Q[Full] - 1
  /\ \A c \in {ciphertexts[k] : k \in DOMAIN ciphertexts}
              \cup (IF refresh = None THEN {} ELSE {refresh.input}) :
       /\ c.towers \in 1 .. Full
       /\ \A e \in DOMAIN c.elements : c.elements[e] \in 0 .. Q[c.towers] - 1

\* Whichever parties are lost, those that remain recover a lost party's
\* secret key exactly, as long as they are at least the threshold
\* (ShareKeys, RecoverSharedKey).
RecoveryExact ==
  \A i \in Joined : Recoverable(i, alive) => RecoverSharedKey(i, alive) = secretKeys[i]

\* The number a ciphertext holds under the sum of the secret keys.
Phase(c) ==
  Centred(c.elements[1] + Centred(Sum(secretKeys), Q[Full]) * c.elements[2], Q[c.towers])

Ideal == INSTANCE IdealEvaluator WITH
  values <- [k \in DOMAIN ciphertexts |-> Phase(ciphertexts[k])]

\* The parties together are one ideal evaluator: no order of joining, of
\* contributing to the multiplication key and of answering, no lost party
\* that was recovered, and no interactive bootstrapping changes what a
\* ciphertext holds or what the fusion returns.
ImplementsIdeal == Ideal!Spec
=============================================================================
