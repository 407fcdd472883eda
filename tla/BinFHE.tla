------------------------------- MODULE BinFHE -------------------------------
(***************************************************************************)
(* BinFHEContext and BinFHEScheme: LWE ciphertexts of small messages, the  *)
(* bootstrapping keys of a context, and the calls that bootstrap.  An LWE  *)
(* ciphertext is a mask a, a body b and a modulus; its phase b - <a, s>    *)
(* is the encoded message plus noise.  The gadget base is a field of the   *)
(* parameters every call of the context shares; EvalSign and EvalDecomp    *)
(* change it while they run, so each of their rounds is a step of its own. *)
(* The noise of bootstrapping, key and modulus switching is one choice     *)
(* from BootNoise, the fresh mask of a result a choice from BootMasks.     *)
(***************************************************************************)
EXTENDS Accumulators, FiniteSets, FiniteSetsExt

CONSTANTS Q,            \* modulus of the accumulator
          Beta,         \* bound on the noise of a large-precision input
          LargeMod,     \* modulus of large-precision inputs
          Secrets,      \* secret keys: vectors over {-1, 0, 1}
          Masks,        \* masks of fresh ciphertexts
          BootMasks,    \* masks of bootstrapped and switched ciphertexts
          Noise,        \* noise of a fresh encryption
          BootNoise,    \* noise of a bootstrapped ciphertext
          LargeMessages,\* messages of large-precision inputs
          FuncMessages, \* messages of the inputs of EvalFunc
          Functions,    \* functions of the messages, for EvalFunc
          SmallMod,     \* moduli for the bases 3 and 2: 2^17 and 2^26 in the code
          MediumMod,
          Contexts,     \* parameters: [method, timeOptimization, base,
                        \* gadget], the gadget of a parameter set as [Q, B, digits]
          Threads,      \* threads of the application
          Rekeys,       \* whether BTKeyGen may be called over other keys
          LargeDim      \* whether Bootstrap is given ciphertexts modulo Q

VARIABLES ctx,          \* parameters of the context
          baseG,        \* RingGSWCryptoParams::m_baseG
          btKey,        \* m_BTKey: [sk, base]
          btKeyMap,     \* m_BTKey_map, by base
          owner,        \* the secret key of the last BTKeyGen
          cts,          \* ciphertexts the application holds
          calls         \* EvalSign or EvalDecomp in progress, by thread

vars == <<ctx, baseG, btKey, btKeyMap, owner, cts, calls>>

None == [sk |-> <<>>]
Dim == Len(CHOOSE s \in Secrets : TRUE)
Inner(a, s) == FoldLeft(LAMBDA sum, i : sum + a[i] * s[i], 0, Positions(Dim))
Zero == [i \in 1 .. Dim |-> 0]

Power(B, n) == LET pow[k \in 0 .. n] == IF k = 0 THEN 1 ELSE pow[k - 1] * B IN pow[n]

-----------------------------------------------------------------------------
(* Ciphertexts.  sk and m say whose ciphertext of which message it is.     *)

LWE(sk, m, p, mod, mask, body) ==
  [sk |-> sk, m |-> m, p |-> p, mod |-> mod, a |-> [i \in 1 .. Dim |-> mask[i] % mod], b |-> body % mod]

\* A ciphertext with this phase.
WithPhase(sk, m, p, mod, mask, phase) ==
  LWE(sk, m, p, mod, mask, phase + Inner(mask, sk))

EncryptOf(sk, m, p, mod, mask, e) == WithPhase(sk, m, p, mod, mask, (m % p) * (mod \div p) + e)

Decrypt(ct) ==
  LET r == (ct.b - Inner(ct.a, ct.sk) + ct.mod \div (2 * ct.p)) % ct.mod
  IN  (ct.p * r) \div ct.mod

EvalAdd(ct1, ct2) ==
  [ct1 EXCEPT !.a = [i \in 1 .. Dim |-> (@[i] + ct2.a[i]) % ct1.mod], !.b = (@ + ct2.b) % ct1.mod]
EvalSub(ct1, ct2) ==
  [ct1 EXCEPT !.a = [i \in 1 .. Dim |-> (@[i] - ct2.a[i]) % ct1.mod], !.b = (@ - ct2.b) % ct1.mod]

\* ModAddFast reduces once: the constant is expected below the modulus.
AddFast(x, y, mod) == IF x + y >= mod THEN x + y - mod ELSE x + y
EvalAddConst(ct, c) == [ct EXCEPT !.b = AddFast(@, c, ct.mod)]
EvalSubConst(ct, c) == [ct EXCEPT !.b = (@ - c) % ct.mod]

\* mutant: the residues are left as they are
RelabelModulus(ct, mod) == [ct EXCEPT !.mod = mod]
SetModulus(ct, mod) ==
  [ct EXCEPT !.mod = mod, !.a = [i \in 1 .. Dim |-> @[i] % mod], !.b = @ % mod]

RoundqQ(v, new, old) == ((2 * v * new + old) \div (2 * old)) % new
ModSwitch(ct, mod) ==
  [ct EXCEPT !.mod = mod, !.a = [i \in 1 .. Dim |-> RoundqQ(@[i], mod, ct.mod)],
             !.b = RoundqQ(@, mod, ct.mod)]

\* Ciphertexts modulo Q have their mask under the key of the ring: only their
\* phase is kept.  The switching key turns them to the modulus q and sk.
SwitchCTtoqn(key, ct, mask, e) == WithPhase(key.sk, ct.m, 4, q, mask, RoundqQ(ct.b, q, Q) + e)

\* What a call may work on: its inputs, the large ones switched.
Switched(key, in) ==
  {[i \in DOMAIN in |-> IF in[i].mod = Q THEN SwitchCTtoqn(key, in[i], mask, e) ELSE in[i]] :
     mask \in BootMasks, e \in BootNoise}

-----------------------------------------------------------------------------
(* Bootstrapping.                                                          *)

\* A key made for another base than the parameters' multiplies the wrong
\* powers: the phase is that of another message.
KeyError(key, mod) == IF key.base = baseG THEN 0 ELSE mod \div 2

GateConst ==
  [OR |-> 5 * (q \div 8), AND |-> 7 * (q \div 8), NOR |-> q \div 8, NAND |-> 3 * (q \div 8),
   XOR |-> 6 * (q \div 8), XNOR |-> 2 * (q \div 8), MAJORITY |-> 7 * (q \div 8),
   AND3 |-> 11 * (q \div 12), OR3 |-> 7 * (q \div 12),
   AND4 |-> 15 * (q \div 16), OR4 |-> 9 * (q \div 16)]

\* The phase modulo Q of BootstrapGateCore's accumulator, Q/(2p) or -Q/(2p).
BootstrapGateCore(gate, key, ct, p) ==
  LET q1 == GateConst[gate]
      q2 == AddFast(q1, q \div 2, q)
      swap == q1 >= q2
      inside(b) == IF swap THEN q2 <= b /\ b < q1 ELSE q1 <= b /\ b < q2
      Q2p == Q \div (2 * p) + 1
      factor == N \div (q \div 2)
      down(i) == IF ct.b >= i THEN ct.b - i ELSE ct.b - i + q
      m == [j \in 0 .. N - 1 |->
              IF j % factor # 0 THEN 0
              ELSE IF inside(down(j \div factor)) = swap THEN Q2p ELSE - Q2p]
  IN  Extract(m, EvalAcc(ctx.method, key.sk, ct.a, q))

\* The results of a gate.  Q/(2p) + 1 is added to come back to Q/p arithmetic;
\* an extended result stays modulo Q.
GateResults(key, m, p, acc, extended) ==
  LET phase == (Q \div (2 * p) + 1 + acc + KeyError(key, Q)) % Q
      ctExt == [sk |-> key.sk, m |-> m, p |-> p, mod |-> Q, a |-> Zero, b |-> phase]
  IN  IF extended THEN {ctExt}
      ELSE {[SwitchCTtoqn(key, ctExt, mask, e) EXCEPT !.p = p] : mask \in BootMasks, e \in BootNoise}

\* BootstrapFunc: f of the phase, a value modulo fmod.
BootstrapFunc(key, ct, f, fmod, mask, e) ==
  LET factor == M \div ct.mod
      m == [j \in 0 .. N - 1 |->
              IF j % factor # 0 THEN 0
              ELSE (Q \div fmod) * f[(ct.b - j \div factor) % ct.mod]]
      acc == Extract(m, EvalAcc(ctx.method, key.sk, ct.a, ct.mod)) % Q
  IN  WithPhase(key.sk, ct.m, ct.p, fmod, mask, RoundqQ(acc, fmod, Q) + KeyError(key, fmod) + e)

-----------------------------------------------------------------------------
(* Gates.                                                                  *)

Total(bits) == FoldLeft(LAMBDA sum, i : sum + bits[i], 0, Positions(Len(bits)))
Bit(x) == IF x THEN 1 ELSE 0

\* The message a gate stands for.
GateValue(gate, bits) ==
  LET sum == Total(bits)
  IN  CASE gate \in {"AND", "AND3", "AND4"} -> Bit(sum = Len(bits))
        [] gate \in {"OR", "OR3", "OR4"} -> Bit(sum > 0)
        [] gate = "NAND" -> Bit(sum < Len(bits))
        [] gate = "NOR" -> Bit(sum = 0)
        [] gate = "XOR" -> sum % 2
        [] gate = "XNOR" -> 1 - (sum % 2)
        [] gate = "MAJORITY" -> Bit(sum >= 2)
        [] gate = "CMUX" -> IF bits[3] = 0 THEN bits[1] ELSE bits[2]

Bits(in) == [i \in DOMAIN in |-> in[i].m]

TwoInputGates == {"OR", "AND", "NOR", "NAND", "XOR", "XNOR"}
MultiInputGates == {"MAJORITY", "AND3", "OR3", "AND4", "OR4"}
\* The plaintext modulus and the number of inputs a gate is meant for.
PtModulus(gate) == IF gate \in {"AND3", "OR3"} THEN 6 ELSE IF gate \in {"AND4", "OR4"} THEN 8 ELSE 4
Inputs(gate) == IF gate \in TwoInputGates THEN 2 ELSE IF PtModulus(gate) = 8 THEN 4 ELSE 3

\* The inputs are added up, for XOR and XNOR twice; a gate of two inputs takes
\* the plaintext modulus of its result to be 4.
BinGate(key, gate, in, extended) ==
  LET sumOf(cs) == FoldLeft(EvalAdd, cs[1], Tail(cs))
      outcomes(small) ==
        LET sum == sumOf(small)
            ct == IF gate \in {"XOR", "XNOR"} THEN EvalAdd(sum, sum) ELSE sum
            acc == BootstrapGateCore(gate, key, ct, in[1].p)
        IN  GateResults(key, GateValue(gate, Bits(in)),
                        IF gate \in TwoInputGates THEN 4 ELSE in[1].p, acc, extended)
  IN  UNION {outcomes(small) : small \in Switched(key, in)}

NotOf(ct) ==
  [ct EXCEPT !.m = 1 - @, !.p = 4, !.a = [i \in 1 .. Dim |-> (- @[i]) % ct.mod],
             !.b = (ct.mod \div 4 - @) % ct.mod]

CMUX(key, in) ==
  LET nand(x, y) == BinGate(key, "NAND", <<x, y>>, FALSE)
  IN  UNION {nand(x, y) : x \in nand(in[1], NotOf(in[3])), y \in nand(in[2], in[3])}

-----------------------------------------------------------------------------
(* Functions of the phase.                                                 *)

\* GenerateLUTviaFunction for a function of p messages.
LUT(fun, p) == [x \in 0 .. q - 1 |-> fun[(x * p) \div q] * (q \div p)]

\* 0 negacyclic, 1 periodic, 2 arbitrary
CheckInputFunction(lut, mod) ==
  LET mid == q \div 2
  IN  CASE lut[0] = mod - lut[mid] ->
             IF \A i \in 1 .. mid - 1 : lut[i] = mod - lut[mid + i] THEN 0 ELSE 2
        [] lut[0] = lut[mid] ->
             IF \A i \in 1 .. mid - 1 : lut[i] = lut[mid + i] THEN 1 ELSE 2
        [] OTHER -> 2

\* 1/4 or -1/4 of the modulus: the half the phase lies in
HalfSign(mod, fmod) ==
  [x \in 0 .. mod - 1 |-> IF x < mod \div 2 THEN fmod - mod \div 4 ELSE mod \div 4]

EvalFuncOf(key, ct, lut, mask, e) ==
  LET property == CheckInputFunction(lut, ct.mod)
      boot(c, f, fmod) == BootstrapFunc(key, c, f, fmod, mask, e)
      folded(mod) ==
        [x \in 0 .. mod - 1 |-> IF x < mod \div 2 THEN lut[x % q] ELSE mod - lut[(x - mod \div 2) % q]]
      half(c, mod) ==
        LET shifted == EvalSub(c, boot(EvalAddConst(c, Beta), HalfSign(mod, mod), mod))
        IN  EvalSubConst(EvalAddConst(shifted, Beta), mod \div 4)
  IN  CASE property = 0 -> boot(EvalAddConst(ct, Beta), lut, q)
        [] property = 1 -> boot(half(ct, q), folded(q), q)
        [] property = 2 ->
             LET raised == [ct EXCEPT !.mod = 2 * q]
             IN  SetModulus(boot(half(raised, 2 * q), folded(2 * q), 2 * q), q)

EvalFloorOf(key, ct, roundbits, mask, e) ==
  LET mod == ct.mod
      qr == IF roundbits = 0 THEN q ELSE Beta * 2 ^ (roundbits + 1)
      f2 == [x \in 0 .. qr - 1 |->
               IF x < qr \div 4 THEN mod - qr \div 2 - x
               ELSE IF x < 3 * (qr \div 4) THEN x ELSE mod + qr \div 2 - x]
      boot(c, f) == BootstrapFunc(key, SetModulus(c, qr), f, mod, mask, e)
      ct1 == EvalAddConst(ct, Beta)
      ct2 == EvalSub(ct1, boot(ct1, HalfSign(qr, mod)))
  IN  EvalSub(ct2, boot(ct2, f2))

-----------------------------------------------------------------------------
(* The calls of the context.                                               *)

Bases == 1 .. 3         \* stand for 2^14, 2^18 and 2^27
NoKeys == [b \in {} |-> None]

\* A secret key has a coefficient.
ASSUME SecretsAssumption == <<>> \notin Secrets
ASSUME BasesAssumption == \A c \in Contexts : c.base \in Bases
\* There are enough digits for Q: m_digitsG = ceil(log Q / log baseG).
ASSUME GadgetAssumption ==
  \A c \in Contexts :
    LET g == c.gadget
    IN  /\ g.Q \in Nat \ {0} /\ g.B \in Nat \ {0, 1} /\ g.digits \in Nat \ {0}
        /\ g.Q <= Power(g.B, g.digits)

Idle(t) == calls[t] = None
AllIdle == \A t \in Threads : Idle(t)

Init ==
  /\ ctx \in Contexts
  /\ baseG = ctx.base
  /\ btKey = None /\ btKeyMap = NoKeys /\ owner = <<>>
  /\ cts = {}
  /\ calls = [t \in Threads |-> None]

\* With timeOptimization there is a key for every base; without, the key of an
\* earlier call is kept.
BTKeyGen(sk) ==
  /\ AllIdle
  /\ Rekeys \/ btKeyMap = NoKeys \/ ctx.timeOptimization
  /\ btKeyMap' = IF ctx.timeOptimization THEN [b \in Bases |-> [sk |-> sk, base |-> b]]
                 ELSE IF btKeyMap # NoKeys THEN btKeyMap
                 ELSE [b \in {baseG} |-> [sk |-> sk, base |-> b]]
  /\ btKey' = btKeyMap'[baseG]
  /\ owner' = sk
  /\ cts' = {}
  /\ UNCHANGED <<ctx, baseG, calls>>

ClearBTKeys ==
  /\ AllIdle
  /\ btKey' = None /\ btKeyMap' = NoKeys /\ owner' = <<>>
  /\ cts' = {}
  /\ UNCHANGED <<ctx, baseG, calls>>

Unshared == UNCHANGED <<ctx, baseG, btKey, btKeyMap, owner, calls>>
\* The ciphertexts a call is given are not used again; keys are there.
Replace(in, out) == cts' = (cts \ in) \cup out
Ready(t) == Idle(t) /\ owner # <<>>

\* The application encrypts with the key of its bootstrapping keys, keeps to
\* one plaintext modulus at a time and to what the gates can take.
Room(p) == /\ \A ct \in cts : ct.p = p
           /\ Cardinality(cts) < (IF p = 8 THEN 4 ELSE IF p \in {4, 6} THEN 3 ELSE 1)

Encrypt(t, m, p, mod) ==
  /\ Ready(t) /\ Room(p)
  /\ \E mask \in Masks, e \in Noise :
       LET ct == EncryptOf(owner, m, p, mod, mask, e)
       IN  ct \notin cts /\ Replace({}, {ct})
  /\ Unshared

EvalConstant(t, value) ==
  /\ Ready(t) /\ Room(4)
  /\ Replace({}, {LWE(owner, value, 4, q, Zero, (q \div 4) * value)})
  /\ Unshared

\* A message 0 or 1 modulo 4.
EvalNOT(t, ct) ==
  /\ Ready(t) /\ ct.p = 4
  /\ Replace({ct}, {NotOf(ct)})
  /\ Unshared

\* The inputs must be different ciphertexts; all gates but CMUX add them up.
EvalBinGate(t, gate, in, extended) ==
  /\ Ready(t) /\ Len(in) = Inputs(gate)
  /\ \A i, j \in DOMAIN in : i # j => in[i] # in[j]
  /\ \A i \in DOMAIN in : in[i].p = PtModulus(gate)
  /\ \E out \in IF gate = "CMUX" THEN CMUX(btKey, in) ELSE BinGate(btKey, gate, in, extended) :
       Replace({in[i] : i \in DOMAIN in}, {out})
  /\ Unshared

\* The constant is a quarter of the modulus the ciphertext came with.
Bootstrap(t, ct, extended) ==
  LET outcomes(small) ==
        LET acc == BootstrapGateCore("AND", btKey, EvalAddConst(small, ct.mod \div 4), ct.p)
        IN  GateResults(btKey, ct.m, ct.p, acc, extended)
  IN  /\ Ready(t) /\ ct.p = 4
      /\ LargeDim \/ ct.mod # Q
      /\ \E out \in UNION {outcomes(small[1]) : small \in Switched(btKey, <<ct>>)} :
           Replace({ct}, {out})
      /\ Unshared

\* Bound: functions, floors and signs are of the only ciphertext there is.
\* Arbitrary functions are for q at most N, and for contexts with a CGGI accumulator.
EvalFunc(t, ct, fun) ==
  LET lut == CHOOSE table \in {LUT(fun, ct.p)} : TRUE
  IN  /\ Ready(t) /\ cts = {ct} /\ ct.mod = q /\ ct.p = q \div (2 * Beta)
      /\ CheckInputFunction(lut, q) = 2 => q <= N /\ ctx.method = "GINX"
      /\ \E mask \in BootMasks, e \in BootNoise :
           Replace({ct}, {[EvalFuncOf(btKey, ct, lut, mask, e) EXCEPT !.m = fun[ct.m]]})
      /\ Unshared

\* Rounds down the last roundbits bits of the message, or all below q.
EvalFloor(t, ct, roundbits) ==
  LET cut == IF roundbits = 0 THEN q \div (2 * Beta) ELSE 2 ^ roundbits
  IN  /\ Ready(t) /\ cts = {ct} /\ ctx.method = "GINX"
      /\ ct.p = ct.mod \div (2 * Beta) /\ ct.p > cut
      /\ \E mask \in BootMasks, e \in BootNoise :
           Replace({ct}, {[EvalFloorOf(btKey, ct, roundbits, mask, e)
                             EXCEPT !.m = @ \div cut, !.p = @ \div cut]})
      /\ Unshared

-----------------------------------------------------------------------------
(* EvalSign and EvalDecomp.                                                *)

\* Contexts for large precision have a CGGI accumulator.
StartLarge(t, kind, ct) ==
  /\ Ready(t) /\ ctx.method = "GINX"
  /\ ct.mod > q /\ ct.mod # Q /\ ct.p = ct.mod \div (2 * Beta)
  /\ baseG \in DOMAIN btKeyMap
  /\ calls' = [calls EXCEPT ![t] = [kind |-> kind, sk |-> ct.sk, ct |-> ct, home |-> baseG,
                                    key |-> btKeyMap[baseG], digits |-> {}]]
  /\ cts' = cts \ {ct}
  /\ UNCHANGED <<ctx, baseG, btKey, btKeyMap, owner>>

BaseOf(mod) == IF mod <= SmallMod THEN 3 ELSE 2

\* One round: floor, switch to the modulus mod * 2 Beta / q; with three keys the
\* base for a modulus that is small enough, and the key of that base.
Floor(t) ==
  LET call == calls[t]
      ct == call.ct
      cut == q \div (2 * Beta)
      mod == (2 * ct.mod * Beta) \div q
      dynamic == Cardinality(DOMAIN btKeyMap) = 3 /\ mod <= MediumMod
      base == IF dynamic THEN BaseOf(mod) ELSE baseG
      key == IF dynamic THEN btKeyMap[base] ELSE call.key
      digit == [SetModulus(ct, q) EXCEPT !.m = @ % cut, !.p = cut]
      digits == IF call.kind = "decomp" THEN call.digits \cup {digit} ELSE call.digits
  IN  /\ ~Idle(t) /\ ct.mod > q
      /\ \E mask \in BootMasks, e \in BootNoise :
           LET rest == [ModSwitch(EvalFloorOf(call.key, ct, 0, mask, e), mod)
                          EXCEPT !.m = @ \div cut, !.p = @ \div cut]
           IN  calls' = [calls EXCEPT ![t] = [call EXCEPT !.ct = rest, !.key = key, !.digits = digits]]
      /\ baseG' = base
      /\ UNCHANGED <<ctx, btKey, btKeyMap, owner, cts>>

\* mutant: Change_BaseG(curBase) is not called at the end
RestoreNothing(call) == baseG' = baseG
RestoreBase(call) == baseG' = call.home

EvalSign(t) ==
  LET call == calls[t]
      mod == call.ct.mod
      f3 == [x \in 0 .. mod - 1 |-> IF x < mod \div 2 THEN q \div 4 ELSE q - q \div 4]
  IN  /\ ~Idle(t) /\ call.kind = "sign" /\ call.ct.mod <= q
      /\ \E mask \in BootMasks, e \in BootNoise :
           LET high == BootstrapFunc(call.key, EvalAddConst(call.ct, Beta), f3, q, mask, e)
           IN  Replace({}, {[EvalSubConst(high, q \div 4)
                               EXCEPT !.m = Bit(@ >= call.ct.p \div 2), !.p = 2]})
      /\ RestoreBase(call)
      /\ calls' = [calls EXCEPT ![t] = None]
      /\ UNCHANGED <<ctx, btKey, btKeyMap, owner>>

EvalDecomp(t) ==
  LET call == calls[t]
  IN  /\ ~Idle(t) /\ call.kind = "decomp" /\ call.ct.mod <= q
      /\ Replace({}, call.digits \cup {call.ct})
      /\ RestoreBase(call)
      /\ calls' = [calls EXCEPT ![t] = None]
      /\ UNCHANGED <<ctx, btKey, btKeyMap, owner>>

SmallModuli == {4, 6, 8}
Next ==
  \/ \E sk \in Secrets : BTKeyGen(sk)
  \/ ClearBTKeys
  \/ \E t \in Threads :
       \/ \E p \in SmallModuli, m \in 0 .. 1 : Encrypt(t, m, p, q)
       \/ \E m \in FuncMessages : Encrypt(t, m, q \div (2 * Beta), q)
       \/ \E m \in LargeMessages : Encrypt(t, m, LargeMod \div (2 * Beta), LargeMod)
       \/ \E value \in 0 .. 1 : EvalConstant(t, value)
       \/ \E ct \in cts : EvalNOT(t, ct)
       \/ \E gate \in TwoInputGates \cup MultiInputGates, extended \in BOOLEAN :
            \E in \in kSubset(Inputs(gate), cts) :
              EvalBinGate(t, gate, SetToSeq(in), extended)
       \/ \E ct1, ct2, ct3 \in cts : EvalBinGate(t, "CMUX", <<ct1, ct2, ct3>>, FALSE)
       \/ \E ct \in cts, extended \in BOOLEAN : Bootstrap(t, ct, extended)
       \/ \E ct \in cts, fun \in Functions : EvalFunc(t, ct, fun)
       \/ \E ct \in cts, roundbits \in {0, 3} : EvalFloor(t, ct, roundbits)
       \/ \E ct \in cts, kind \in {"sign", "decomp"} : StartLarge(t, kind, ct)
       \/ Floor(t)
       \/ EvalSign(t)
       \/ EvalDecomp(t)

Spec == Init /\ [][Next]_vars

-----------------------------------------------------------------------------
\* Ciphertexts have reduced masks and bodies, keys are for known bases.
TypeOK ==
  /\ ctx \in Contexts /\ baseG \in Bases
  /\ btKey \in {None} \cup [sk : Secrets, base : Bases]
  /\ \A ct \in cts : /\ ct.m \in 0 .. ct.p - 1 /\ ct.b \in 0 .. ct.mod - 1
                     /\ \A i \in 1 .. Dim : ct.a[i] \in 0 .. ct.mod - 1

\* Whatever was computed, with whichever accumulator, every ciphertext the
\* application holds decrypts to its message: gates, negations, constants,
\* bootstrapping, functions, floors, signs and digits, composed in any order.
DecryptsRight == \A ct \in cts : Decrypt(ct) = ct.m

\* The key a call uses is of the application's secret and of the base the
\* parameters have, and between calls that base is the context's own.
KeysMatchBase ==
  /\ btKey # None => btKey.sk = owner
  /\ AllIdle => /\ baseG = ctx.base
                /\ btKey # None => btKey.base = baseG /\ btKeyMap[baseG] = btKey
  /\ \A t \in Threads : ~Idle(t) => calls[t].key = [sk |-> owner, base |-> baseG]

Centred(x, mod) == IF x % mod > mod \div 2 THEN mod - (x % mod) ELSE x % mod

\* d_1 B + ... + d_n B^n
DigitsValue(ds, B, n) ==
  LET upTo[k \in 0 .. n] == IF k = 0 THEN 0 ELSE upTo[k - 1] + ds[k] * Power(B, k) IN upTo[n]

\* The digits of an external product recompose x up to the half of the ignored
\* first digit and what a carry out of the last digit weighs.
Recomposes(x, g) ==
  Centred(x - DigitsValue(SignedDigitDecompose(x, g.Q, g.B, g.digits), g.B, g.digits - 1), g.Q)
    <= g.B \div 2 + Centred(Power(g.B, g.digits), g.Q)

\* Values next to a change of a digit.
Edges(g) ==
  LET edges == {0, g.Q \div 2, g.Q} \cup {Power(g.B, k) \div 2 : k \in 1 .. g.digits}
  IN  {e + i : e \in edges, i \in -2 .. 2} \cap 0 .. g.Q - 1

\* The gadget of a context keeps what an external product multiplies.
GadgetRecomposes == \A x \in Edges(ctx.gadget) : Recomposes(x, ctx.gadget)
=============================================================================
