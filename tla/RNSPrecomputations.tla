-------------------------- MODULE RNSPrecomputations --------------------------
(***************************************************************************)
(* The constants that the crypto parameters compute once from the moduli   *)
(* and hand to every call on a polynomial: residues of the complements of  *)
(* a basis, of their inverses and of their rounded quotients               *)
(* (CryptoParametersBFVRNS, CryptoParametersBGVRNS, CryptoParametersRNS).  *)
(* A basis is a sequence of moduli.  A double is an exact fraction: a      *)
(* numerator over the modulus the table names.                             *)
(***************************************************************************)
EXTENDS NumberTheoreticTransform

CONSTANTS Q,   \* the moduli of a fresh ciphertext
          P,   \* the special moduli of hybrid key switching
          R    \* the second basis of a BFV product; the first is also that
               \* of the extended encryption

ASSUME BasesAssumption ==
  /\ Len(R) = Len(Q)
  /\ \A s \in {Q, P, R} : \A i \in DOMAIN s : s[i] \in NTTModuli

Ql(l) == SubSeq(Q, 1, l)
Rl(l) == SubSeq(R, 1, l)
Qr == Append(Q, R[1])

ProductOf(basis) == FoldLeft(LAMBDA x, y : x * y, 1, basis)
Hat(basis, m) == ProductOf(basis) \div m
HatInverse(basis, m) == ModInverse(Hat(basis, m) % m, m)

-----------------------------------------------------------------------------
(* Conversion between bases: [(B/b_i)^-1]_{b_i}, [B/b_i]_{c_j} and         *)
(* [alpha B]_{c_j} for alpha up to the size of B                           *)
HatInvMod(basis) == [i \in DOMAIN basis |-> HatInverse(basis, basis[i])]
HatMod(basis, to) == [i \in DOMAIN basis |-> [j \in DOMAIN to |-> Hat(basis, basis[i]) % to[j]]]
AlphaMod(basis, to) ==
  [alpha \in 0 .. Len(basis) |->
     [j \in DOMAIN to |-> ModMul(ProductOf(basis) % to[j], alpha, to[j], ComputeMu(to[j]))]]

(* Key switching: [P^-1]_{q_i}; modulus switching: [-t^-1]_{q_l}, [q_l^-1]_{q_i} *)
PInvModq(l) == [i \in 1 .. l |-> ModInverse(ProductOf(P) % Q[i], Q[i])]
tInvMod(t, basis) == [i \in DOMAIN basis |-> ModInverse(t, basis[i])]
negtInvMod(t, ql) == ql - ModInverse(t, ql)
qlInvMod(ql, basis) == [i \in DOMAIN basis |-> ModInverse(ql, basis[i])]

(* Rescaling: Q' [Q'^-1]_{q_l} / q_l modulo the q_i, where Q' is Q_l / q_l *)
QlQlInvModqlDivqlMod(ql, basis) ==
  LET q == ProductOf(basis)
      result == (ModInverse(q % ql, ql) * q) \div ql
  IN  [i \in DOMAIN basis |-> result % basis[i]]

-----------------------------------------------------------------------------
(* Scaling by t O / (S / O): S is the basis before, O the basis after, and *)
(* x of S \ O.  The quotient t O [(S/x)^-1]_x / x modulo o_j, for every x  *)
(* and for o_j itself in the last place, and its fraction over x.          *)
ScaleQuotient(t, s, o, x) == (t * ProductOf(o) * HatInverse(s, x)) \div x
DivsMod(t, s, o, left) ==
  [j \in DOMAIN o |-> [i \in 1 .. Len(left) + 1 |->
     ScaleQuotient(t, s, o, IF i <= Len(left) THEN left[i] ELSE o[j]) % o[j]]]
DivsFrac(t, s, o, left) ==
  [i \in DOMAIN left |-> (t * ProductOf(o) * HatInverse(s, left[i])) % left[i]]

(* Q to R_l to Q_l R_l: [-R_l (B/b_i)^-1]_{b_i} and [b_i^-1]_{r_j} *)
negRlHatInvMod(basis, l) ==
  [i \in DOMAIN basis |->
     basis[i] - (((ProductOf(Rl(l)) % basis[i]) * HatInverse(basis, basis[i])) % basis[i])]
InvMod(basis, to) == [i \in DOMAIN basis |-> [j \in DOMAIN to |-> ModInverse(basis[i], to[j])]]

(* Q_l back to Q: [Q/Q_l]_{q_i} *)
QlHatMod(l) == [i \in 1 .. l |-> (ProductOf(Q) \div ProductOf(Ql(l))) % Q[i]]

(* Encryption: [-B]_t *)
negMod(basis, t) == t - (ProductOf(basis) % t)

(* Decryption: t [(Q/q_i)^-1]_{q_i}, shifted if the residues are split in  *)
(* halves, its quotient by q_i modulo t, and its fraction over q_i         *)
tQHatInvModq(t, i, shift) == t * HatInverse(Q, Q[i]) * 2 ^ shift
tQHatInvModqDivqModt(t, shift) == [i \in DOMAIN Q |-> (tQHatInvModq(t, i, shift) \div Q[i]) % t]
tQHatInvModqDivqFrac(t, shift) == [i \in DOMAIN Q |-> tQHatInvModq(t, i, shift) % Q[i]]
=============================================================================
