--------------------------- MODULE PlaintextRing ---------------------------
(* The plaintext space Z_t of BGV as an abstract commutative ring, and the  *)
(* tracked quantities that every RNS ciphertext carries.                    *)
(*                                                                          *)
(* Packed plaintexts are vectors over Z_t on which every homomorphic        *)
(* operation modelled here acts slot by slot (rotations excepted), so one   *)
(* slot stands for all of them.  Only ring laws are assumed: theorems hold  *)
(* for every plaintext modulus, and TLC instantiates Z_t for a small prime. *)
EXTENDS Integers

CONSTANTS
  Zt,               \* residues modulo the plaintext modulus
  Units,            \* the invertible residues
  Zero, One,
  ModAdd(_, _),     \* NativeInteger::ModAdd
  ModNeg(_),
  ModMul(_, _),     \* NativeInteger::ModMul
  ModInverse(_)     \* NativeInteger::ModInverse, meaningful on Units

ASSUME RingClosed ==
  /\ One \in Units /\ Zero \in Zt
  /\ Units \subseteq Zt
  /\ \A a \in Zt : ModNeg(a) \in Zt
  /\ \A a, b \in Zt : ModAdd(a, b) \in Zt /\ ModMul(a, b) \in Zt

ASSUME RingLaws ==
  /\ \A a \in Zt : ModMul(One, a) = a
  /\ \A a, b \in Zt : ModMul(a, b) = ModMul(b, a)
  /\ \A a, b, c \in Zt : ModMul(ModMul(a, b), c) = ModMul(a, ModMul(b, c))
  /\ \A a, b, c \in Zt :
       ModMul(a, ModAdd(b, c)) = ModAdd(ModMul(a, b), ModMul(a, c))
  /\ \A a, b \in Zt : ModMul(a, ModNeg(b)) = ModNeg(ModMul(a, b))

ASSUME UnitLaws ==
  /\ \A u, v \in Units : ModMul(u, v) \in Units
  /\ \A u \in Units : ModInverse(u) \in Units /\ ModMul(u, ModInverse(u)) = One

ModSub(a, b) == ModAdd(a, ModNeg(b))
=============================================================================
