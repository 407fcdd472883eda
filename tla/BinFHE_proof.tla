---------------------------- MODULE BinFHE_proof ----------------------------
(***************************************************************************)
(* Proofs about BinFHE, for all parameters, keys and messages: calls of    *)
(* one thread use a bootstrapping key of the application's secret and of   *)
(* the base the parameters have, and the digits of an external product     *)
(* recompose every value modulo Q.                                         *)
(***************************************************************************)
EXTENDS BinFHE, FiniteSetTheorems, WellFoundedInduction, TLAPS

-----------------------------------------------------------------------------
(* Induction over the natural numbers, for sets.                           *)

(* A non-empty set of natural numbers has a least element.                  *)
LEMMA LeastExists ==
  ASSUME NEW S \in SUBSET Nat, S # {}
  PROVE  \E x \in S : \A y \in S : x <= y
PROOF
<1> DEFINE T == {0 .. n : n \in S}
<1>1. \A n \in Nat : 0 .. n \in SUBSET Nat /\ IsFiniteSet(0 .. n)
  BY FS_Interval
<1>2. T \subseteq FiniteSubsetsOf(Nat) /\ T # {}
  BY <1>1 DEF FiniteSubsetsOf
<1>3. PICK X \in T : \A Y \in T : <<Y, X>> \notin StrictSubsetOrdering(Nat)
  <2> HIDE DEF T
  <2> QED
    BY <1>2, FS_StrictSubsetOrderingWellFounded, WFMin
<1>4. PICK x \in S : X = 0 .. x
  BY <1>3
<1>5. ASSUME NEW y \in S, y < x
      PROVE  FALSE
  <2>1. x \in 0 .. x /\ x \notin 0 .. y /\ 0 .. y \subseteq 0 .. x
    BY <1>5
  <2>2. <<0 .. y, 0 .. x>> \in (SUBSET Nat) \X (SUBSET Nat)
    BY <1>1
  <2>3. <<0 .. y, 0 .. x>> \in StrictSubsetOrdering(Nat)
    BY <2>1, <2>2 DEF StrictSubsetOrdering
  <2> QED
    BY <1>3, <1>4, <2>3
<1> QED
  BY <1>5

(* A set that holds 0, and with a number its successor, holds them all.     *)
LEMMA SetInduction ==
  ASSUME NEW Members, 0 \in Members, \A n \in Nat : n \in Members => n + 1 \in Members
  PROVE  \A n \in Nat : n \in Members
PROOF
<1>1. SUFFICES ASSUME Nat \ Members # {} PROVE FALSE
  OBVIOUS
<1>2. PICK x \in Nat \ Members : \A y \in Nat \ Members : x <= y
  BY <1>1, LeastExists
<1>3. /\ x - 1 \in Nat /\ x - 1 \in Members
      /\ x - 1 + 1 = x
  BY <1>2
<1> QED
  BY <1>2, <1>3

(* A set that holds 0, and with a number its successor, up to a bound.      *)
LEMMA BoundedInduction ==
  ASSUME NEW Members, NEW top \in Nat, 0 \in Members, \A n \in 0 .. top - 1 : n \in Members => n + 1 \in Members
  PROVE  \A n \in 0 .. top : n \in Members
PROOF
<1> DEFINE Missing == {n \in 0 .. top : n \notin Members}
<1>1. SUFFICES ASSUME Missing # {} PROVE FALSE
  OBVIOUS
<1>2. Missing \in SUBSET Nat
  OBVIOUS
<1>3. PICK x \in Missing : \A y \in Missing : x <= y
  <2> HIDE DEF Missing
  <2> QED
    BY <1>1, <1>2, LeastExists
<1>4. x - 1 \in 0 .. top - 1 /\ x - 1 \in Members /\ x - 1 + 1 = x
  BY <1>3
<1> QED
  BY <1>3, <1>4

(* Recursion up to a bound: F[k] makes the k-th value, in S, of the one    *)
(* before, and there is a function of these values.                        *)
RecursionSteps(S, top) == [1 .. top -> [S -> S]]
IsRecursion(f, S, a, F, top) ==
  /\ f \in [0 .. top -> S]
  /\ f[0] = a
  /\ \A k \in 1 .. top : f[k] = F[k][f[k - 1]]

LEMMA RecursionExists ==
  ASSUME NEW S, NEW a \in S, NEW top \in Nat, NEW F \in RecursionSteps(S, top)
  PROVE  \E f : IsRecursion(f, S, a, F, top)
PROOF
<1> USE DEF RecursionSteps
<1> DEFINE Is(f, n) == f = [k \in 0 .. n |-> IF k = 0 THEN a ELSE F[k][f[k - 1]]]
           Members == {n \in 0 .. top : \E f \in [0 .. n -> S] : Is(f, n)}
<1>1. 0 \in Members
  <2> DEFINE f == [k \in 0 .. 0 |-> a]
  <2>1. f \in [0 .. 0 -> S]
    OBVIOUS
  <2>2. Is(f, 0)
    OBVIOUS
  <2>3. 0 \in 0 .. top
    OBVIOUS
  <2> HIDE DEF f
  <2> QED
    BY <2>1, <2>2, <2>3
<1>2. ASSUME NEW n \in 0 .. top - 1, n \in Members
      PROVE  n + 1 \in Members
  <2>1. PICK f \in [0 .. n -> S] : Is(f, n)
    BY <1>2
  <2> DEFINE h == [k \in 0 .. n + 1 |-> IF k = 0 THEN a ELSE F[k][f[k - 1]]]
  <2>2. \A k \in 0 .. n : h[k] = f[k]
    <3>1. \A k \in 0 .. n : f[k] = IF k = 0 THEN a ELSE F[k][f[k - 1]]
      BY <2>1
    <3>2. \A k \in 0 .. n : k \in 0 .. n + 1
      OBVIOUS
    <3> HIDE DEF Is, Members
    <3> QED
      BY <3>1, <3>2
  <2>3. \A k \in 0 .. n + 1 : h[k] \in S
    <3>1. \A k \in 0 .. n + 1 : k # 0 => k - 1 \in 0 .. n /\ k \in 1 .. top
      OBVIOUS
    <3>2. \A k \in 1 .. top, v \in S : F[k][v] \in S
      OBVIOUS
    <3> HIDE DEF Is, Members
    <3> QED
      BY <3>1, <3>2
  <2> HIDE DEF h
  <2>4. \A k \in 0 .. n + 1 : k # 0 => f[k - 1] = h[k - 1]
    BY <2>2
  <2>5. Is(h, n + 1)
    BY <2>4 DEF h
  <2>6. h \in [0 .. n + 1 -> S]
    BY <2>3, <2>5
  <2>7. n + 1 \in 0 .. top
    OBVIOUS
  <2> QED
    BY <2>5, <2>6, <2>7
<1>3. \A n \in 0 .. top : n \in Members
  <2> HIDE DEF Members
  <2> QED
    BY <1>1, <1>2, BoundedInduction, Zenon
<1>4. PICK f \in [0 .. top -> S] : Is(f, top)
  BY <1>3
<1>5. f[0] = a /\ \A k \in 1 .. top : f[k] = F[k][f[k - 1]]
  BY <1>4
<1> QED
  BY <1>5 DEF IsRecursion

(* Quotient and remainder.                                                 *)
LEMMA Division ==
  ASSUME NEW a \in Int, NEW b \in Nat \ {0}
  PROVE  \E k \in Int, r \in 0 .. b - 1 : a = b * k + r /\ k = a \div b /\ r = a % b
OBVIOUS

LEMMA Quotient ==
  ASSUME NEW a \in Int, NEW b \in Nat \ {0}, NEW k \in Int, a = b * k
  PROVE  a \div b = k
OBVIOUS

(* How the context is used: its parameters are written by EvalSign and     *)
(* EvalDecomp without a lock, so one thread makes the calls; without time  *)
(* optimization BTKeyGen keeps the key of an earlier call, so the keys are *)
(* cleared before they are made for another secret.                        *)
OneThread == \A t, u \in Threads : t = u
ClearsKeys == Rekeys => \A c \in Contexts : c.timeOptimization

-----------------------------------------------------------------------------
(* The inductive invariant of the keys and the base.                       *)
KeyOf(b) == [sk |-> owner, base |-> b]

Keys ==
  /\ ctx \in Contexts /\ baseG \in Bases
  /\ owner \in Secrets \cup {<<>>}
  /\ DOMAIN btKeyMap \in {{}, {ctx.base}, Bases}
  /\ btKeyMap = [b \in DOMAIN btKeyMap |-> KeyOf(b)]
  /\ owner = <<>> => btKeyMap = NoKeys
  /\ IF btKeyMap = NoKeys THEN btKey = None ELSE btKey = KeyOf(ctx.base)

\* A call knows the base to return to and has the key for the present one.
CallOK(c) ==
  /\ DOMAIN c = {"kind", "sk", "ct", "home", "key", "digits"}
  /\ c.home = ctx.base
  /\ c.key = KeyOf(baseG)
Calls ==
  /\ calls = [t \in Threads |-> calls[t]]
  /\ \A t \in Threads : calls[t] # None => CallOK(calls[t]) /\ owner # <<>>
  /\ AllIdle => baseG = ctx.base

IInv == Keys /\ Calls
-----------------------------------------------------------------------------
LEMMA ThreeBases == Cardinality(Bases) = 3
PROOF
<1>1. 1 \in Int /\ 3 \in Int
  OBVIOUS
<1>2. Cardinality(1 .. 3) = IF 1 > 3 THEN 0 ELSE 3 - 1 + 1
  BY <1>1, FS_Interval, Zenon
<1> QED
  BY <1>2 DEF Bases

LEMMA NoKeysEmpty ==
  ASSUME Keys
  PROVE  btKeyMap = NoKeys <=> DOMAIN btKeyMap = {}
BY DEF Keys, NoKeys

LEMMA KeyNotNone ==
  ASSUME NEW s, s # <<>>, NEW b
  PROVE  [sk |-> s, base |-> b] # None
BY DEF None

LEMMA InitKeys == Init => IInv
BY BasesAssumption DEF Init, IInv, Keys, Calls, NoKeys, None, AllIdle, Idle

(* BTKeyGen makes a key for every base or for the base of the context.     *)
LEMMA BTKeyGenKeys ==
  ASSUME ClearsKeys, IInv, NEW s \in Secrets, BTKeyGen(s)
  PROVE  IInv'
PROOF
<1>1. ctx' = ctx /\ baseG' = baseG /\ calls' = calls /\ owner' = s /\ AllIdle /\ ctx \in Contexts
  BY DEF BTKeyGen, IInv, Keys
<1>2. baseG = ctx.base /\ ctx.base \in Bases
  BY <1>1 DEF IInv, Calls, Keys
<1>3. /\ DOMAIN btKeyMap' \in {{ctx.base}, Bases}
      /\ btKeyMap' = [b \in DOMAIN btKeyMap' |-> [sk |-> s, base |-> b]]
  <2>1. CASE ctx.timeOptimization
    BY <2>1 DEF BTKeyGen
  <2>2. CASE ~ ctx.timeOptimization
    <3>1. btKeyMap = NoKeys
      BY <1>1, <2>2 DEF BTKeyGen, ClearsKeys
    <3> QED
      BY <1>2, <2>2, <3>1 DEF BTKeyGen
  <2> QED
    BY <2>1, <2>2
<1>4. ctx.base \in DOMAIN btKeyMap'
  BY <1>2, <1>3
<1>5. btKey' = [sk |-> s, base |-> ctx.base]
  BY <1>2, <1>3, <1>4 DEF BTKeyGen
<1>6. btKeyMap' # NoKeys /\ s # <<>>
  BY <1>4, SecretsAssumption DEF NoKeys
<1>7. Keys'
  BY <1>1, <1>2, <1>3, <1>5, <1>6 DEF Keys, KeyOf, NoKeys, IInv
<1>8. Calls'
  BY <1>1 DEF Calls, IInv, AllIdle, Idle
<1> QED
  BY <1>7, <1>8 DEF IInv

LEMMA ClearBTKeysKeys ==
  ASSUME IInv, ClearBTKeys
  PROVE  IInv'
PROOF
<1>1. Keys'
  BY DEF IInv, Keys, ClearBTKeys, NoKeys
<1>2. Calls'
  BY DEF IInv, Calls, ClearBTKeys, AllIdle, Idle
<1> QED
  BY <1>1, <1>2 DEF IInv

(* What only replaces ciphertexts leaves keys, base and calls alone.       *)
LEMMA UnsharedKeys ==
  ASSUME IInv, Unshared
  PROVE  IInv'
BY DEF IInv, Keys, Calls, CallOK, KeyOf, Unshared, AllIdle, Idle

LEMMA StartLargeKeys ==
  ASSUME OneThread, IInv, NEW t \in Threads, NEW kind, NEW ct, StartLarge(t, kind, ct)
  PROVE  IInv'
PROOF
<1>1. /\ ctx' = ctx /\ baseG' = baseG /\ btKey' = btKey /\ btKeyMap' = btKeyMap /\ owner' = owner
      /\ Idle(t) /\ owner # <<>> /\ baseG \in DOMAIN btKeyMap
  BY DEF StartLarge, Ready
<1>2. AllIdle /\ baseG = ctx.base
  BY <1>1 DEF OneThread, AllIdle, IInv, Calls
<1>3. btKeyMap[baseG] = KeyOf(baseG)
  BY <1>1 DEF IInv, Keys
<1> DEFINE c == [kind |-> kind, sk |-> ct.sk, ct |-> ct, home |-> baseG,
                 key |-> btKeyMap[baseG], digits |-> {}]
<1>4. calls' = [calls EXCEPT ![t] = c]
  BY DEF StartLarge
<1>5. /\ DOMAIN c = {"kind", "sk", "ct", "home", "key", "digits"}
      /\ c.home = ctx.base /\ c.key = KeyOf(baseG)
  BY <1>2, <1>3
<1> HIDE DEF c
<1>6. calls' = [u \in Threads |-> IF u = t THEN c ELSE calls[u]]
  BY <1>4 DEF IInv, Calls
<1>7. \A u \in Threads : calls'[u] = c
  BY <1>6 DEF OneThread
<1>8. Calls'
  BY <1>1, <1>2, <1>5, <1>6, <1>7 DEF Calls, CallOK, KeyOf
<1>9. Keys'
  BY <1>1 DEF IInv, Keys, KeyOf
<1> QED
  BY <1>8, <1>9 DEF IInv

(* A round goes on with the key of the base it changes to.                 *)
LEMMA FloorKeys ==
  ASSUME OneThread, IInv, NEW t \in Threads, Floor(t)
  PROVE  IInv'
PROOF
<1> DEFINE call == calls[t]
           mod == (2 * call.ct.mod * Beta) \div q
           dynamic == Cardinality(DOMAIN btKeyMap) = 3 /\ mod <= MediumMod
           base == IF dynamic THEN BaseOf(mod) ELSE baseG
           key == IF dynamic THEN btKeyMap[base] ELSE call.key
<1>1. /\ ctx' = ctx /\ btKey' = btKey /\ btKeyMap' = btKeyMap /\ owner' = owner
      /\ baseG' = base /\ call # None
  BY DEF Floor, Idle
<1>2. PICK ct, digits :
        calls' = [calls EXCEPT ![t] =
                    [call EXCEPT !.ct = ct, !.key = key, !.digits = digits]]
  BY DEF Floor
<1>3. CallOK(call) /\ owner # <<>> /\ baseG \in Bases /\ ctx \in Contexts
  BY <1>1 DEF IInv, Calls, Keys
<1>4. BaseOf(mod) \in Bases
  BY <1>3 DEF BaseOf, Bases
<1>5. base \in Bases /\ key = KeyOf(base)
  <2>1. CASE ~dynamic
    BY <1>3, <2>1 DEF CallOK
  <2>2. CASE dynamic
    <3>1. Cardinality(DOMAIN btKeyMap) = 3 /\ base \in Bases
      BY <1>4, <2>2
    <3>2. DOMAIN btKeyMap = Bases
      <4>1. Cardinality({}) = 0 /\ Cardinality({ctx.base}) = 1
        BY FS_EmptySet, FS_Singleton, Zenon
      <4> QED
        BY <3>1, <4>1 DEF IInv, Keys
    <3> QED
      BY <2>2, <3>1, <3>2 DEF IInv, Keys
  <2> QED
    BY <2>1, <2>2
<1> DEFINE c == [call EXCEPT !.ct = ct, !.key = key, !.digits = digits]
<1>7. calls' = [u \in Threads |-> IF u = t THEN c ELSE calls[u]]
  <2>1. calls' = [calls EXCEPT ![t] = c]
    BY <1>2
  <2> HIDE DEF c
  <2> QED
    BY <2>1 DEF IInv, Calls
<1>8. /\ DOMAIN c = {"kind", "sk", "ct", "home", "key", "digits"}
      /\ c.home = ctx.base /\ c.key = KeyOf(base)
  <2>1. DOMAIN call = {"kind", "sk", "ct", "home", "key", "digits"} /\ call.home = ctx.base
    BY <1>3 DEF CallOK
  <2>2. c = [call EXCEPT !.ct = ct, !.key = key, !.digits = digits]
    OBVIOUS
  <2> HIDE DEF base, key, call, c
  <2> QED
    BY <1>5, <2>1, <2>2
<1>9. c # None
  <2>1. "kind" \in DOMAIN c
    BY <1>8
  <2>2. "kind" \notin DOMAIN None
    BY DEF None
  <2> HIDE DEF c
  <2> QED
    BY <2>1, <2>2
<1> HIDE DEF c, base
<1>10. \A u \in Threads : calls'[u] = c
  BY <1>7 DEF OneThread
<1>11. Calls'
  BY <1>1, <1>3, <1>7, <1>8, <1>9, <1>10 DEF Calls, CallOK, KeyOf, AllIdle, Idle
<1>12. Keys'
  BY <1>1, <1>5 DEF IInv, Keys, KeyOf
<1> QED
  BY <1>11, <1>12 DEF IInv

(* A call that ends leaves the base the context was made with.             *)
LEMMA EndKeys ==
  ASSUME OneThread, IInv, NEW t \in Threads, ~ Idle(t),
         RestoreBase(calls[t]), calls' = [calls EXCEPT ![t] = None],
         UNCHANGED <<ctx, btKey, btKeyMap, owner>>
  PROVE  IInv'
PROOF
<1>1. baseG' = ctx.base /\ ctx.base \in Bases
  BY BasesAssumption DEF IInv, Keys, Calls, CallOK, RestoreBase, Idle
<1>2. calls' = [u \in Threads |-> None]
  BY DEF IInv, Calls, OneThread
<1>3. Calls'
  BY <1>1, <1>2 DEF Calls, AllIdle, Idle
<1>4. Keys'
  BY <1>1 DEF IInv, Keys, KeyOf
<1> QED
  BY <1>3, <1>4 DEF IInv

\* The steps that only replace ciphertexts.
Replaces(t) ==
  \/ \E m, p, mod : Encrypt(t, m, p, mod)
  \/ \E value : EvalConstant(t, value)
  \/ \E ct : EvalNOT(t, ct)
  \/ \E gate, in, extended : EvalBinGate(t, gate, in, extended)
  \/ \E ct, extended : Bootstrap(t, ct, extended)
  \/ \E ct, fun : EvalFunc(t, ct, fun)
  \/ \E ct, roundbits : EvalFloor(t, ct, roundbits)

LEMMA ReplacesUnshared ==
  ASSUME NEW t \in Threads, Replaces(t)
  PROVE  Unshared
PROOF
<1>1. ASSUME NEW m, NEW p, NEW mod, Encrypt(t, m, p, mod) PROVE Unshared
  BY <1>1 DEF Encrypt
<1>2. ASSUME NEW value, EvalConstant(t, value) PROVE Unshared
  BY <1>2 DEF EvalConstant
<1>3. ASSUME NEW ct, EvalNOT(t, ct) PROVE Unshared
  BY <1>3 DEF EvalNOT
<1>4. ASSUME NEW gate, NEW in, NEW extended, EvalBinGate(t, gate, in, extended) PROVE Unshared
  BY <1>4 DEF EvalBinGate
<1>5. ASSUME NEW ct, NEW extended, Bootstrap(t, ct, extended) PROVE Unshared
  BY <1>5 DEF Bootstrap
<1>6. ASSUME NEW ct, NEW fun, EvalFunc(t, ct, fun) PROVE Unshared
  BY <1>6 DEF EvalFunc
<1>7. ASSUME NEW ct, NEW roundbits, EvalFloor(t, ct, roundbits) PROVE Unshared
  BY <1>7 DEF EvalFloor
<1> QED
  BY <1>1, <1>2, <1>3, <1>4, <1>5, <1>6, <1>7 DEF Replaces

LEMMA NextCases ==
  ASSUME Next
  PROVE  \/ \E s \in Secrets : BTKeyGen(s)
         \/ ClearBTKeys
         \/ \E t \in Threads : \/ Replaces(t)
                               \/ \E kind, ct : StartLarge(t, kind, ct)
                               \/ Floor(t)
                               \/ EvalSign(t)
                               \/ EvalDecomp(t)
BY Zenon DEF Next, Replaces

LEMMA StepKeys ==
  ASSUME OneThread, ClearsKeys, IInv, [Next]_vars
  PROVE  IInv'
PROOF
<1>1. ASSUME NEW s \in Secrets, BTKeyGen(s) PROVE IInv'
  BY <1>1, BTKeyGenKeys
<1>2. ASSUME ClearBTKeys PROVE IInv'
  BY <1>2, ClearBTKeysKeys
<1>3. ASSUME NEW t \in Threads, Replaces(t) PROVE IInv'
  BY <1>3, ReplacesUnshared, UnsharedKeys
<1>4. ASSUME NEW t \in Threads, NEW kind, NEW ct, StartLarge(t, kind, ct) PROVE IInv'
  BY <1>4, StartLargeKeys
<1>5. ASSUME NEW t \in Threads, Floor(t) PROVE IInv'
  BY <1>5, FloorKeys
<1>6. ASSUME NEW t \in Threads, EvalSign(t) PROVE IInv'
  <2>1. /\ ~ Idle(t) /\ RestoreBase(calls[t]) /\ calls' = [calls EXCEPT ![t] = None]
        /\ UNCHANGED <<ctx, btKey, btKeyMap, owner>>
    BY <1>6 DEF EvalSign
  <2> QED
    BY <2>1, EndKeys
<1>7. ASSUME NEW t \in Threads, EvalDecomp(t) PROVE IInv'
  <2>1. /\ ~ Idle(t) /\ RestoreBase(calls[t]) /\ calls' = [calls EXCEPT ![t] = None]
        /\ UNCHANGED <<ctx, btKey, btKeyMap, owner>>
    BY <1>7 DEF EvalDecomp
  <2> QED
    BY <2>1, EndKeys
<1>8. ASSUME UNCHANGED vars PROVE IInv'
  BY <1>8, UnsharedKeys DEF vars, Unshared
<1> QED
  BY <1>1, <1>2, <1>3, <1>4, <1>5, <1>6, <1>7, <1>8, NextCases, Zenon

LEMMA KeysMatch == IInv => KeysMatchBase
PROOF
<1> SUFFICES ASSUME IInv PROVE KeysMatchBase
  OBVIOUS
<1>1. btKey # None => btKey.sk = owner
  BY DEF IInv, Keys, KeyOf
<1>2. ASSUME AllIdle
      PROVE  baseG = ctx.base /\ (btKey # None => btKey.base = baseG /\ btKeyMap[baseG] = btKey)
  <2>1. baseG = ctx.base /\ ctx.base \in Bases
    BY <1>2, BasesAssumption DEF IInv, Keys, Calls
  <2>2. btKey # None => ctx.base \in DOMAIN btKeyMap /\ btKey = KeyOf(ctx.base)
    BY <2>1, NoKeysEmpty DEF IInv, Keys
  <2> QED
    BY <2>1, <2>2 DEF IInv, Keys, KeyOf
<1>3. ASSUME NEW t \in Threads, ~ Idle(t)
      PROVE  calls[t].key = [sk |-> owner, base |-> baseG]
  BY <1>3 DEF IInv, Calls, CallOK, KeyOf, Idle
<1> QED
  BY <1>1, <1>2, <1>3 DEF KeysMatchBase

LEMMA Invariance == OneThread /\ ClearsKeys => (Spec => []IInv)
PROOF
<1> SUFFICES ASSUME OneThread, ClearsKeys PROVE Spec => []IInv
  OBVIOUS
<1>1. IInv /\ [Next]_vars => IInv'
  BY StepKeys
<1> QED
  BY InitKeys, <1>1, PTL DEF Spec

(* KeysMatchBase: the key a call uses is of the application's secret and   *)
(* of the base the parameters have at that time, through all the rounds of *)
(* EvalSign and EvalDecomp, and between calls the base is the context's    *)
(* own: Change_BaseG leaves the shared parameters as it found them.  For   *)
(* one thread that clears its keys before it makes others (OneThread,      *)
(* ClearsKeys), with every kind of context.                                *)
THEOREM KeysFollowBase ==
  ASSUME OneThread, ClearsKeys
  PROVE  Spec => []KeysMatchBase
PROOF
<1>1. Spec => []IInv
  BY Invariance
<1> QED
  BY <1>1, KeysMatch, PTL

-----------------------------------------------------------------------------
(* The digits of an external product.                                      *)

Pow(B, n) == CHOOSE pow : pow = [k \in 0 .. n |-> IF k = 0 THEN 1 ELSE pow[k - 1] * B]

LEMMA PowFacts ==
  ASSUME NEW B \in Int, NEW n \in Nat
  PROVE  /\ \A k \in 0 .. n : Pow(B, n)[k] \in Int
         /\ Pow(B, n)[0] = 1
         /\ \A k \in 1 .. n : Pow(B, n)[k] = Pow(B, n)[k - 1] * B
PROOF
<1> DEFINE Is(f) == f = [k \in 0 .. n |-> IF k = 0 THEN 1 ELSE f[k - 1] * B]
           F == [k \in 1 .. n |-> [v \in Int |-> v * B]]
<1>1. 1 \in Int /\ F \in RecursionSteps(Int, n)
  BY DEF RecursionSteps
<1>2. PICK f : IsRecursion(f, Int, 1, F, n)
  <2> HIDE DEF F
  <2> QED
    BY <1>1, RecursionExists, Zenon
<1>3. f \in [0 .. n -> Int] /\ f[0] = 1 /\ \A k \in 1 .. n : f[k] = f[k - 1] * B
  <2>1. f \in [0 .. n -> Int] /\ f[0] = 1 /\ \A k \in 1 .. n : f[k] = F[k][f[k - 1]]
    <3> HIDE DEF F, Is
    <3> QED
      BY <1>2 DEF IsRecursion
  <2>2. \A k \in 1 .. n : f[k - 1] \in Int
    BY <2>1
  <2> QED
    BY <2>1, <2>2
<1>4. f = [k \in 0 .. n |-> IF k = 0 THEN 1 ELSE f[k - 1] * B]
  <2>1. f = [k \in 0 .. n |-> f[k]]
    BY <1>3
  <2>2. \A k \in 0 .. n : f[k] = IF k = 0 THEN 1 ELSE f[k - 1] * B
    BY <1>3
  <2> QED
    BY <2>1, <2>2
<1> DEFINE p == Pow(B, n)
<1>5. Is(p)
  BY <1>4 DEF Pow
<1>6. p[0] = 1 /\ \A k \in 1 .. n : p[k] = p[k - 1] * B
  BY <1>5
<1>7. \A k \in 0 .. n : p[k] \in Int
  <2> DEFINE P == {k \in 0 .. n : p[k] \in Int}
  <2>1. 0 \in P
    BY <1>6
  <2>2. ASSUME NEW k \in 0 .. n - 1, k \in P
        PROVE  k + 1 \in P
    <3>1. k + 1 \in 1 .. n /\ k + 1 - 1 = k
      OBVIOUS
    <3> HIDE DEF p
    <3> QED
      BY <1>6, <2>2, <3>1
  <2> HIDE DEF P
  <2>3. \A k \in 0 .. n : k \in P
    BY <2>1, <2>2, BoundedInduction, Zenon
  <2> QED
    BY <2>3 DEF P
<1> QED
  BY <1>6, <1>7

LEMMA PowerIs ==
  ASSUME NEW B, NEW n
  PROVE  Power(B, n) = Pow(B, n)[n]
BY DEF Power, Pow

LEMMA PowersAgree ==
  ASSUME NEW B \in Int, NEW n \in Nat
  PROVE  Pow(B, n + 1)[n] = Pow(B, n)[n]
PROOF
<1> DEFINE f == Pow(B, n)
           g == Pow(B, n + 1)
           P == {k \in 0 .. n : f[k] = g[k]}
<1>1. f[0] = 1 /\ \A k \in 1 .. n : f[k] = f[k - 1] * B
  BY PowFacts
<1>2. g[0] = 1 /\ \A k \in 1 .. n + 1 : g[k] = g[k - 1] * B
  BY PowFacts
<1> HIDE DEF f, g
<1>3. 0 \in P
  BY <1>1, <1>2
<1>4. ASSUME NEW k \in 0 .. n - 1, k \in P
      PROVE  k + 1 \in P
  <2>1. k + 1 \in 1 .. n /\ k + 1 \in 1 .. n + 1 /\ k + 1 - 1 = k
    OBVIOUS
  <2> QED
    BY <1>1, <1>2, <1>4, <2>1
<1> HIDE DEF P
<1>5. \A k \in 0 .. n : k \in P
  BY <1>3, <1>4, BoundedInduction, Zenon
<1> QED
  BY <1>5 DEF P, f, g

LEMMA PowerStep ==
  ASSUME NEW B \in Int, NEW n \in Nat
  PROVE  /\ Power(B, 0) = 1 /\ Power(B, n) \in Int
         /\ Power(B, n + 1) = Power(B, n) * B
PROOF
<1>1. Power(B, 0) = 1
  BY PowFacts, PowerIs
<1>2. Power(B, n) = Pow(B, n)[n] /\ Pow(B, n)[n] \in Int
  BY PowFacts, PowerIs
<1>3. Power(B, n + 1) = Pow(B, n + 1)[n + 1] /\ n + 1 \in Nat /\ n + 1 \in 1 .. n + 1 /\ n + 1 - 1 = n
  BY PowerIs
<1>4. Pow(B, n + 1)[n + 1] = Pow(B, n + 1)[n] * B
  BY <1>3, PowFacts
<1> QED
  BY <1>1, <1>2, <1>3, <1>4, PowersAgree

LEMMA PowerPositive ==
  ASSUME NEW B \in Nat \ {0, 1}, NEW n \in Nat
  PROVE  Power(B, n) \in Nat \ {0}
PROOF
<1> DEFINE P == {k \in Nat : Power(B, k) \in Nat \ {0}}
<1>1. 0 \in P
  BY PowerStep
<1>2. ASSUME NEW k \in Nat, k \in P
      PROVE  k + 1 \in P
  <2>1. Power(B, k + 1) = Power(B, k) * B
    BY PowerStep
  <2>2. \A i, j \in Nat \ {0} : i * j \in Nat \ {0}
    OBVIOUS
  <2> QED
    BY <1>2, <2>1, <2>2
<1> HIDE DEF P
<1>3. \A k \in Nat : k \in P
  BY <1>1, <1>2, SetInduction, Zenon
<1> QED
  BY <1>3 DEF P

-----------------------------------------------------------------------------
(* The remainders of a decomposition and the value of the digits.          *)

First(x, mod) == IF x < mod \div 2 THEN x ELSE x - mod
Rest(y, B) == (y - SignedDigit(y, B)) \div B

LEMMA DigitFacts ==
  ASSUME NEW y \in Int, NEW B \in Nat \ {0, 1}
  PROVE  /\ SignedDigit(y, B) \in Int /\ Rest(y, B) \in Int
         /\ y = SignedDigit(y, B) + B * Rest(y, B)
         /\ SignedDigit(y, B) <= B \div 2 /\ - SignedDigit(y, B) <= B \div 2
PROOF
<1> DEFINE h == B \div 2
<1>1. h \in Int /\ 2 * h <= B /\ B <= 2 * h + 1
  OBVIOUS
<1> HIDE DEF h
<1>2. PICK k \in Int, r \in 0 .. B - 1 : y + h = B * k + r /\ r = (y + h) % B
  <2>1. y + h \in Int /\ B \in Nat \ {0}
    BY <1>1
  <2> QED
    BY <2>1, Division
<1>3. SignedDigit(y, B) = r - h
  BY <1>2 DEF SignedDigit, h
<1>4. y - SignedDigit(y, B) = B * k /\ y - SignedDigit(y, B) \in Int
  BY <1>1, <1>2, <1>3
<1>5. Rest(y, B) = k
  BY <1>4, Quotient DEF Rest
<1>6. B * k \in Int
  OBVIOUS
<1> HIDE DEF h
<1>7. SignedDigit(y, B) <= h /\ - SignedDigit(y, B) <= h
  BY <1>1, <1>3
<1>8. SignedDigit(y, B) \in Int /\ y = SignedDigit(y, B) + B * k
  BY <1>1, <1>3, <1>4, <1>6
<1> QED
  BY <1>5, <1>7, <1>8 DEF h

LEMMA RestsFacts ==
  ASSUME NEW x \in Int, NEW mod \in Nat \ {0}, NEW B \in Nat \ {0, 1}, NEW n \in Nat
  PROVE  /\ \A k \in 0 .. n : Rests(x, mod, B, n)[k] \in Int
         /\ Rests(x, mod, B, n)[0] = First(x, mod)
         /\ \A k \in 1 .. n : Rests(x, mod, B, n)[k] = Rest(Rests(x, mod, B, n)[k - 1], B)
PROOF
<1> DEFINE a == First(x, mod)
           Is(f) == f = [k \in 0 .. n |-> IF k = 0 THEN a ELSE Rest(f[k - 1], B)]
           F == [k \in 1 .. n |-> [v \in Int |-> Rest(v, B)]]
<1>1. a \in Int /\ F \in RecursionSteps(Int, n)
  BY DigitFacts DEF RecursionSteps, First
<1>2. PICK f : IsRecursion(f, Int, a, F, n)
  <2> HIDE DEF F, a
  <2> QED
    BY <1>1, RecursionExists, Zenon
<1>3. f \in [0 .. n -> Int] /\ f[0] = a /\ \A k \in 1 .. n : f[k] = Rest(f[k - 1], B)
  <2>1. f \in [0 .. n -> Int] /\ f[0] = a /\ \A k \in 1 .. n : f[k] = F[k][f[k - 1]]
    <3> HIDE DEF F, Is
    <3> QED
      BY <1>2 DEF IsRecursion
  <2>2. \A k \in 1 .. n : f[k - 1] \in Int
    BY <2>1
  <2> QED
    BY <2>1, <2>2
<1>4. Is(f)
  <2>1. f = [k \in 0 .. n |-> f[k]]
    BY <1>3
  <2>2. \A k \in 0 .. n : f[k] = IF k = 0 THEN a ELSE Rest(f[k - 1], B)
    BY <1>3
  <2> QED
    BY <2>1, <2>2
<1> DEFINE p == Rests(x, mod, B, n)
<1>5. Is(p)
  <2>1. p = CHOOSE f_1 : Is(f_1)
    BY DEF Rests, First, Rest
  <2> HIDE DEF p, Is
  <2> QED
    BY <1>4, <2>1
<1>6. p[0] = a /\ \A k \in 1 .. n : p[k] = Rest(p[k - 1], B)
  <2> HIDE DEF p, a
  <2> QED
    BY <1>5
<1>7. \A k \in 0 .. n : p[k] \in Int
  <2> DEFINE P == {k \in 0 .. n : p[k] \in Int}
  <2> HIDE DEF p, a
  <2>1. 0 \in P
    BY <1>1, <1>6
  <2>2. ASSUME NEW k \in 0 .. n - 1, k \in P
        PROVE  k + 1 \in P
    <3>1. k + 1 \in 1 .. n /\ k + 1 - 1 = k /\ k + 1 \in 0 .. n /\ p[k] \in Int
      BY <2>2
    <3>2. p[k + 1] = Rest(p[k], B)
      BY <1>6, <3>1
    <3>3. Rest(p[k], B) \in Int
      BY <3>1, DigitFacts
    <3> QED
      BY <3>1, <3>2, <3>3
  <2> HIDE DEF P
  <2>3. \A k \in 0 .. n : k \in P
    BY <2>1, <2>2, BoundedInduction, Zenon
  <2> QED
    BY <2>3 DEF P
<1> QED
  BY <1>6, <1>7

Values(ds, B, n) ==
  CHOOSE f : f = [k \in 0 .. n |-> IF k = 0 THEN 0 ELSE f[k - 1] + ds[k] * Power(B, k)]

LEMMA ValuesFacts ==
  ASSUME NEW B \in Int, NEW n \in Nat, NEW ds \in [1 .. n -> Int]
  PROVE  /\ \A k \in 0 .. n : Values(ds, B, n)[k] \in Int
         /\ Values(ds, B, n)[0] = 0
         /\ \A k \in 1 .. n : Values(ds, B, n)[k] = Values(ds, B, n)[k - 1] + ds[k] * Power(B, k)
PROOF
<1> DEFINE w == [k \in 1 .. n |-> ds[k] * Power(B, k)]
           Is(f) == f = [k \in 0 .. n |-> IF k = 0 THEN 0 ELSE f[k - 1] + ds[k] * Power(B, k)]
           F == [k \in 1 .. n |-> [v \in Int |-> v + w[k]]]
<1>1. \A k \in 1 .. n : w[k] \in Int /\ w[k] = ds[k] * Power(B, k)
  <2>1. \A k \in 1 .. n : ds[k] \in Int /\ k \in Nat
    OBVIOUS
  <2>2. \A k \in Nat : Power(B, k) \in Int
    BY PowerStep
  <2>3. \A k \in 1 .. n : ds[k] \in Int /\ Power(B, k) \in Int
    BY <2>1, <2>2
  <2> QED
    BY <2>3
<1> HIDE DEF w
<1>2. 0 \in Int /\ F \in RecursionSteps(Int, n)
  BY <1>1 DEF RecursionSteps
<1>3. PICK f : IsRecursion(f, Int, 0, F, n)
  <2> HIDE DEF F
  <2> QED
    BY <1>2, RecursionExists, Zenon
<1>4. f \in [0 .. n -> Int] /\ f[0] = 0 /\ \A k \in 1 .. n : f[k] = f[k - 1] + w[k]
  <2>1. f \in [0 .. n -> Int] /\ f[0] = 0 /\ \A k \in 1 .. n : f[k] = F[k][f[k - 1]]
    <3> HIDE DEF F, Is
    <3> QED
      BY <1>3 DEF IsRecursion
  <2>2. \A k \in 1 .. n : f[k - 1] \in Int
    BY <2>1
  <2> QED
    BY <2>1, <2>2
<1>5. Is(f)
  <2>1. f = [k \in 0 .. n |-> f[k]]
    BY <1>4
  <2>2. \A k \in 0 .. n : f[k] = IF k = 0 THEN 0 ELSE f[k - 1] + ds[k] * Power(B, k)
    <3> HIDE DEF F, Is
    <3> QED
      BY <1>1, <1>4
  <2> QED
    BY <2>1, <2>2
<1> DEFINE p == Values(ds, B, n)
<1>6. Is(p)
  BY <1>5 DEF Values
<1>7. p[0] = 0 /\ \A k \in 1 .. n : p[k] = p[k - 1] + ds[k] * Power(B, k)
  <2> HIDE DEF p
  <2> QED
    BY <1>6
<1>8. \A k \in 0 .. n : p[k] \in Int
  <2> DEFINE P == {k \in 0 .. n : p[k] \in Int}
  <2> HIDE DEF p, Is, F
  <2>1. 0 \in P
    BY <1>7
  <2>2. ASSUME NEW k \in 0 .. n - 1, k \in P
        PROVE  k + 1 \in P
    <3>1. k + 1 \in 1 .. n /\ k + 1 - 1 = k /\ k + 1 \in 0 .. n /\ p[k] \in Int
      BY <2>2
    <3>2. p[k + 1] = p[k] + w[k + 1] /\ w[k + 1] \in Int
      BY <1>1, <1>7, <3>1
    <3> QED
      BY <3>1, <3>2
  <2> HIDE DEF P
  <2>3. \A k \in 0 .. n : k \in P
    BY <2>1, <2>2, BoundedInduction, Zenon
  <2> QED
    BY <2>3 DEF P
<1> QED
  BY <1>7, <1>8

LEMMA DigitsValueIs ==
  ASSUME NEW ds, NEW B, NEW n
  PROVE  DigitsValue(ds, B, n) = Values(ds, B, n)[n]
BY DEF DigitsValue, Values

(* The ignored digit, the digits kept and the carry make up the value.     *)
LEMMA Recomposition ==
  ASSUME NEW x \in Int, NEW mod \in Nat \ {0}, NEW B \in Nat \ {0, 1}, NEW n \in Nat \ {0}
  PROVE  LET R == Rests(x, mod, B, n)
             V == DigitsValue(SignedDigitDecompose(x, mod, B, n), B, n - 1)
         IN  /\ V \in Int /\ R[n] \in Int
             /\ First(x, mod) = SignedDigit(First(x, mod), B) + V + Power(B, n) * R[n]
PROOF
<1> DEFINE R == Rests(x, mod, B, n)
           ds == SignedDigitDecompose(x, mod, B, n)
           V == Values(ds, B, n - 1)
           a == First(x, mod)
           s == SignedDigit(a, B)
           P == {k \in 0 .. n - 1 : a = s + V[k] + Power(B, k + 1) * R[k + 1]}
<1>1. /\ \A k \in 0 .. n : R[k] \in Int
      /\ R[0] = a
      /\ \A k \in 1 .. n : R[k] = Rest(R[k - 1], B)
  BY RestsFacts
<1>2. ds \in [1 .. n - 1 -> Int] /\ \A k \in 1 .. n - 1 : ds[k] = SignedDigit(R[k], B)
  <2>1. \A k \in 1 .. n - 1 : R[k] \in Int
    BY <1>1
  <2>2. \A k \in 1 .. n - 1 : SignedDigit(R[k], B) \in Int
    BY <2>1, DigitFacts
  <2>3. ds = [k \in 1 .. n - 1 |-> SignedDigit(R[k], B)]
    BY DEF SignedDigitDecompose
  <2> HIDE DEF ds, R
  <2> QED
    BY <2>2, <2>3
<1>3. n - 1 \in Nat /\ B \in Int
  OBVIOUS
<1> HIDE DEF R, ds
<1>4. /\ \A k \in 0 .. n - 1 : V[k] \in Int
      /\ V[0] = 0
      /\ \A k \in 1 .. n - 1 : V[k] = V[k - 1] + ds[k] * Power(B, k)
  BY <1>2, <1>3, ValuesFacts
<1>5. a \in Int /\ s \in Int
  BY <1>1, DigitFacts
<1> HIDE DEF V, a
<1>6. 0 \in P
  <2>1. R[1] = Rest(a, B) /\ a = s + B * R[1] /\ R[1] \in Int
    <3>1. 1 \in 1 .. n /\ 1 - 1 = 0
      OBVIOUS
    <3>2. R[1] = Rest(a, B)
      BY <1>1, <3>1
    <3> QED
      BY <1>5, <3>2, DigitFacts
  <2>2. Power(B, 0 + 1) = B
    <3>1. Power(B, 0 + 1) = Power(B, 0) * B /\ Power(B, 0) = 1
      BY <1>3, PowerStep
    <3> QED
      BY <1>3, <3>1
  <2>3. Power(B, 0 + 1) * R[0 + 1] = B * R[1]
    BY <2>2
  <2>4. B * R[1] \in Int
    BY <2>1
  <2> HIDE DEF s
  <2>5. a = s + V[0] + B * R[1]
    BY <1>4, <1>5, <2>1, <2>4
  <2> QED
    BY <2>3, <2>5
<1>7. ASSUME NEW k \in 0 .. n - 2, k \in P
      PROVE  k + 1 \in P
  <2>1. /\ k + 1 \in 1 .. n - 1 /\ k + 1 \in 1 .. n /\ k + 1 - 1 = k /\ k + 1 \in 0 .. n - 1
        /\ k + 1 + 1 \in 1 .. n /\ k + 1 + 1 - 1 = k + 1 /\ k + 1 \in Nat
    OBVIOUS
  <2> DEFINE y == R[k + 1]
             z == R[k + 1 + 1]
             d == ds[k + 1]
             e == Power(B, k + 1)
             e1 == Power(B, k + 1 + 1)
             v == V[k]
             v1 == V[k + 1]
  <2>2. y \in Int /\ z \in Int /\ d \in Int /\ v \in Int /\ v1 \in Int
    BY <1>1, <1>2, <1>4, <2>1
  <2>3. y = d + B * z
    <3>1. z = Rest(y, B) /\ d = SignedDigit(y, B)
      BY <1>1, <1>2, <2>1
    <3> QED
      BY <2>2, <3>1, DigitFacts
  <2>4. e \in Int /\ e1 = e * B
    BY <1>3, <2>1, PowerStep
  <2>5. v1 = v + d * e
    BY <1>4, <2>1
  <2>6. a = s + v + e * y
    BY <1>7
  <2> HIDE DEF y, z, d, e, e1, v, v1, s, P
  <2>7. e * y = d * e + e1 * z
    <3>1. e * y = e * (d + B * z)
      BY <2>3
    <3>2. \A i, j, b, w \in Int : i * (j + b * w) = j * i + (i * b) * w
      OBVIOUS
    <3> QED
      BY <1>3, <2>2, <2>4, <3>1, <3>2
  <2>8. d * e \in Int /\ e1 * z \in Int
    BY <1>3, <2>2, <2>4
  <2>9. a = s + v1 + e1 * z
    BY <1>5, <2>2, <2>5, <2>6, <2>7, <2>8
  <2> QED
    BY <2>1, <2>9 DEF P, v1, e1, z
<1>8. n - 1 \in P
  <2>1. n - 1 - 1 = n - 2
    OBVIOUS
  <2> HIDE DEF P
  <2>2. \A k \in 0 .. n - 1 : k \in P
    BY <1>3, <1>6, <1>7, <2>1, BoundedInduction, Zenon
  <2> QED
    BY <2>2
<1>9. n - 1 + 1 = n /\ n - 1 \in 0 .. n - 1 /\ n \in 0 .. n
  OBVIOUS
<1>10. a = s + V[n - 1] + Power(B, n) * R[n]
  BY <1>8, <1>9
<1>11. V[n - 1] \in Int /\ R[n] \in Int
  BY <1>1, <1>4, <1>9
<1>12. V[n - 1] = DigitsValue(ds, B, n - 1)
  BY DigitsValueIs DEF V
<1> HIDE DEF s
<1> QED
  BY <1>10, <1>11, <1>12 DEF s, a, R, ds

LEMMA Cancel ==
  ASSUME NEW i \in Int, NEW j \in Int, NEW B \in Nat \ {0}, B * i < B * j
  PROVE  i < j
OBVIOUS

(* A remainder is half of what is left to represent, and a little more.    *)
LEMMA RestBound ==
  ASSUME NEW y \in Int, NEW B \in Nat \ {0, 1}, NEW e \in Int,
         2 * y <= e * B + 2, - (2 * y) <= e * B + 2
  PROVE  2 * Rest(y, B) <= e + 2 /\ - (2 * Rest(y, B)) <= e + 2
PROOF
<1> DEFINE z == Rest(y, B)
           d == SignedDigit(y, B)
           f == B * z
           g == B * e
<1>1. z \in Int /\ d \in Int /\ y = d + f /\ d <= B \div 2 /\ - d <= B \div 2
  BY DigitFacts
<1>2. 2 * (B \div 2) <= B /\ B \div 2 \in Int
  OBVIOUS
<1> HIDE DEF z, d
<1>3. f \in Int /\ g \in Int /\ e * B = g
  BY <1>1
<1>4. B * (2 * z) = 2 * f /\ B * (- (2 * z)) = - (2 * f) /\ B * (e + 3) = g + 3 * B
  BY <1>1
<1> HIDE DEF f, g
<1>5. 2 * d <= B /\ - (2 * d) <= B
  BY <1>1, <1>2
<1>6. 2 * f <= g + 2 + B /\ - (2 * f) <= g + 2 + B
  BY <1>1, <1>3, <1>5
<1>7. 2 * f < g + 3 * B /\ - (2 * f) < g + 3 * B
  BY <1>3, <1>6
<1>8. 2 * z < e + 3 /\ - (2 * z) < e + 3
  <2>1. 2 * z \in Int /\ - (2 * z) \in Int /\ e + 3 \in Int /\ B \in Nat \ {0}
    BY <1>1
  <2>2. B * (2 * z) < B * (e + 3) /\ B * (- (2 * z)) < B * (e + 3)
    BY <1>4, <1>7
  <2> QED
    BY <2>1, <2>2, Cancel
<1> QED
  BY <1>1, <1>8 DEF z

LEMMA CarryBound ==
  ASSUME NEW mod \in Nat \ {0}, NEW x \in 0 .. mod - 1, NEW B \in Nat \ {0, 1}, NEW n \in Nat \ {0},
         mod <= Power(B, n)
  PROVE  Rests(x, mod, B, n)[n] \in {-1, 0, 1}
PROOF
<1> DEFINE R == Rests(x, mod, B, n)
           a == First(x, mod)
           P == {k \in 0 .. n : /\ 2 * R[k] <= Power(B, n - k) + 2
                                /\ - (2 * R[k]) <= Power(B, n - k) + 2}
<1>1. /\ \A k \in 0 .. n : R[k] \in Int
      /\ R[0] = a
      /\ \A k \in 1 .. n : R[k] = Rest(R[k - 1], B)
  <2>1. x \in Int
    OBVIOUS
  <2> QED
    BY <2>1, RestsFacts
<1>2. B \in Int /\ Power(B, n) \in Int
  BY PowerStep
<1> HIDE DEF R
<1>3. 0 \in P
  <2>1. mod \div 2 \in Int /\ 2 * (mod \div 2) <= mod /\ mod <= 2 * (mod \div 2) + 1
    OBVIOUS
  <2>2. 2 * a <= mod + 1 /\ - (2 * a) <= mod + 1
    BY <2>1 DEF First
  <2>3. n - 0 = n /\ 0 \in 0 .. n
    OBVIOUS
  <2>4. a \in Int
    BY <1>1
  <2> HIDE DEF a
  <2>5. 2 * a <= Power(B, n) + 2 /\ - (2 * a) <= Power(B, n) + 2
    BY <1>2, <2>2, <2>4
  <2> QED
    BY <1>1, <2>3, <2>5
<1>4. ASSUME NEW k \in 0 .. n - 1, k \in P
      PROVE  k + 1 \in P
  <2>1. /\ k + 1 \in 1 .. n /\ k + 1 \in 0 .. n /\ k + 1 - 1 = k /\ k \in 0 .. n
        /\ n - (k + 1) \in Nat /\ n - k = n - (k + 1) + 1
    OBVIOUS
  <2> DEFINE y == R[k]
             m == n - (k + 1)
             e == Power(B, m)
  <2>2. y \in Int /\ R[k + 1] = Rest(y, B)
    BY <1>1, <2>1
  <2>3. e \in Int /\ Power(B, n - k) = e * B
    <3>1. Power(B, m + 1) = e * B /\ e \in Int
      BY <1>2, <2>1, PowerStep
    <3> QED
      BY <2>1, <3>1
  <2>4. 2 * y <= e * B + 2 /\ - (2 * y) <= e * B + 2
    BY <1>4, <2>3
  <2> HIDE DEF y, e
  <2>5. 2 * Rest(y, B) <= e + 2 /\ - (2 * Rest(y, B)) <= e + 2
    BY <2>2, <2>3, <2>4, RestBound
  <2> QED
    BY <2>1, <2>2, <2>5 DEF e
<1>5. n \in P
  <2> HIDE DEF P
  <2>1. \A k \in 0 .. n : k \in P
    BY <1>3, <1>4, BoundedInduction, Zenon
  <2> QED
    BY <2>1
<1>6. Power(B, n - n) = 1 /\ n \in 0 .. n
  <2>1. n - n = 0
    OBVIOUS
  <2> QED
    BY <1>2, <2>1, PowerStep
<1>7. R[n] \in Int /\ 2 * R[n] <= 3 /\ - (2 * R[n]) <= 3
  BY <1>1, <1>5, <1>6
<1> QED
  BY <1>7 DEF R

(* The distance to the nearest multiple of the modulus.                    *)
Size(y) == IF y < 0 THEN - y ELSE y

LEMMA CentredWitness ==
  ASSUME NEW y \in Int, NEW mod \in Nat \ {0}
  PROVE  \E k \in Int : Centred(y, mod) = Size(y - mod * k)
PROOF
<1>1. PICK k \in Int, r \in 0 .. mod - 1 : y = mod * k + r /\ r = y % mod
  BY Division
<1>2. mod * (k + 1) = mod * k + mod /\ mod * k \in Int
  OBVIOUS
<1>3. y - mod * k = r /\ y - mod * (k + 1) = r - mod
  BY <1>1, <1>2
<1>4. CASE r > mod \div 2
  <2>1. Centred(y, mod) = mod - r
    BY <1>1, <1>4 DEF Centred
  <2>2. Size(y - mod * (k + 1)) = mod - r
    BY <1>3 DEF Size
  <2>3. k + 1 \in Int
    OBVIOUS
  <2> QED
    BY <2>1, <2>2, <2>3
<1>5. CASE ~ (r > mod \div 2)
  <2>1. Centred(y, mod) = r
    BY <1>1, <1>5 DEF Centred
  <2>2. Size(y - mod * k) = r
    BY <1>3 DEF Size
  <2> QED
    BY <2>1, <2>2
<1> QED
  BY <1>4, <1>5

LEMMA CentredLeast ==
  ASSUME NEW y \in Int, NEW mod \in Nat \ {0}, NEW k \in Int
  PROVE  Centred(y, mod) <= Size(y - mod * k)
PROOF
<1>1. PICK t \in Int, r \in 0 .. mod - 1 : y = mod * t + r /\ r = y % mod
  BY Division
<1> DEFINE j == mod * (t - k)
<1>2. mod * (t - k) = mod * t - mod * k /\ mod * t \in Int /\ mod * k \in Int
  OBVIOUS
<1>3. y - mod * k = j + r /\ j \in Int
  BY <1>1, <1>2
<1>4. mod \div 2 \in Int /\ 2 * (mod \div 2) <= mod /\ mod <= 2 * (mod \div 2) + 1
  OBVIOUS
<1>5. Centred(y, mod) = IF r > mod \div 2 THEN mod - r ELSE r
  BY <1>1 DEF Centred
<1>6. j >= 0 \/ j <= - mod
  <2>1. CASE t - k >= 0
    BY <2>1
  <2>2. CASE t - k < 0
    BY <2>2
  <2> QED
    BY <2>1, <2>2
<1> HIDE DEF j
<1> QED
  BY <1>3, <1>4, <1>5, <1>6 DEF Size

(* The digits of an external product recompose every value modulo Q, not   *)
(* only those near a change of a digit that the runs take.                 *)
THEOREM DigitsRecompose ==
  ASSUME NEW c \in Contexts, NEW x \in 0 .. c.gadget.Q - 1
  PROVE  Recomposes(x, c.gadget)
PROOF
<1> DEFINE g == c.gadget
           mod == g.Q
           B == g.B
           n == g.digits
           h == B \div 2
           e == Power(B, n)
           a == First(x, mod)
           s == SignedDigit(a, B)
           V == DigitsValue(SignedDigitDecompose(x, mod, B, n), B, n - 1)
           r == Rests(x, mod, B, n)[n]
<1>1. mod \in Nat \ {0} /\ B \in Nat \ {0, 1} /\ n \in Nat \ {0} /\ mod <= e
  BY GadgetAssumption
<1>2. x \in Int /\ x \in 0 .. mod - 1
  <2>1. mod \in Int
    BY <1>1
  <2> HIDE DEF mod
  <2> QED
    BY <2>1 DEF mod
<1> HIDE DEF mod, B, n
<1>3. e \in Int /\ h \in Int
  BY <1>1, PowerStep
<1>4. V \in Int /\ r \in Int /\ a = s + V + e * r
  BY <1>1, <1>2, Recomposition
<1>5. r \in {-1, 0, 1}
  BY <1>1, <1>2, CarryBound
<1>6. a \in Int
  BY <1>1, <1>2 DEF First
<1>7. s \in Int /\ s <= h /\ - s <= h
  BY <1>1, <1>6, DigitFacts
<1>8. PICK k \in Int : Centred(e, mod) = Size(e - mod * k)
  BY <1>1, <1>3, CentredWitness
<1> DEFINE u == IF a = x THEN 0 ELSE 1
           d == e - mod * k
<1>9. mod * k \in Int /\ d \in Int /\ u \in Int
  BY <1>1, <1>3
<1>10. x = a + mod * u
  BY <1>1, <1>2 DEF First
<1> HIDE DEF a, s, V, r, e, u, h
<1>11. x - V = s + e * r + mod * u /\ x - V \in Int
  <2>1. e * r \in Int /\ mod * u \in Int
    BY <1>1, <1>3, <1>4, <1>9
  <2> QED
    BY <1>2, <1>4, <1>6, <1>7, <1>10, <2>1
<1> DEFINE j == k * r + u
<1>12. j \in Int /\ mod * j = (mod * k) * r + mod * u
  <2>1. \A a1, a2, a3, a4 \in Int : a1 * (a2 * a3 + a4) = (a1 * a2) * a3 + a1 * a4
    OBVIOUS
  <2>2. mod \in Int /\ k \in Int /\ r \in Int /\ u \in Int
    BY <1>1, <1>4, <1>9
  <2>3. k * r \in Int
    BY <2>2
  <2> QED
    BY <2>1, <2>2, <2>3
<1> HIDE DEF j
<1>13. x - V - mod * j = s + d * r
  <2>1. \A a1, a2, a3 \in Int : (a1 - a2) * a3 = a1 * a3 - a2 * a3
    OBVIOUS
  <2>2. d * r = e * r - (mod * k) * r
    BY <1>3, <1>4, <1>9, <2>1
  <2>3. e * r \in Int /\ (mod * k) * r \in Int /\ mod * u \in Int
    BY <1>1, <1>3, <1>4, <1>9
  <2> HIDE DEF d
  <2> QED
    BY <1>7, <1>9, <1>11, <1>12, <2>2, <2>3
<1>14. Centred(x - V, mod) <= Size(s + d * r)
  BY <1>1, <1>11, <1>12, <1>13, CentredLeast
<1>15. Size(s + d * r) <= h + Size(d)
  <2>1. d * r = d \/ d * r = 0 \/ d * r = - d
    BY <1>5, <1>9
  <2> HIDE DEF d
  <2> QED
    BY <1>3, <1>7, <1>9, <2>1 DEF Size
<1>16. Centred(x - V, mod) \in Int /\ Size(s + d * r) \in Int /\ h + Size(d) \in Int
  <2>1. \A y \in Int : Size(y) \in Int
    BY DEF Size
  <2>2. s + d * r \in Int
    BY <1>4, <1>7, <1>9
  <2>3. mod \div 2 \in Int /\ (x - V) % mod \in Int
    BY <1>1, <1>11
  <2>4. Centred(x - V, mod) \in Int
    BY <1>1, <2>3 DEF Centred
  <2> HIDE DEF d
  <2> QED
    BY <1>3, <1>9, <2>1, <2>2, <2>4
<1>17. Centred(x - V, mod) <= h + Size(d)
  <2> DEFINE c1 == Centred(x - V, mod)
             c2 == Size(s + d * r)
             c3 == h + Size(d)
  <2> HIDE DEF c1, c2, c3
  <2>1. c1 <= c2 /\ c2 <= c3
    BY <1>14, <1>15 DEF c1, c2, c3
  <2>2. c1 \in Int /\ c2 \in Int /\ c3 \in Int
    BY <1>16 DEF c1, c2, c3
  <2>3. c1 <= c3
    BY <2>1, <2>2
  <2> QED
    BY <2>3 DEF c1, c3
<1>18. Centred(x - V, mod) <= h + Centred(e, mod)
  BY <1>8, <1>17
<1> QED
  BY <1>18 DEF Recomposes, mod, B, n, V, h, e

(* GadgetRecomposes: the digits an external product multiplies the keys    *)
(* with make up the accumulator's coefficient, up to the half of the first *)
(* digit, which SignedDigitDecompose skips, and the carry it drops after   *)
(* the last. For every gadget with enough digits for its modulus.          *)
THEOREM GadgetsRecompose == Spec => []GadgetRecomposes
PROOF
<1>1. ctx \in Contexts => GadgetRecomposes
  <2> SUFFICES ASSUME ctx \in Contexts, NEW x \in Edges(ctx.gadget)
               PROVE  Recomposes(x, ctx.gadget)
    BY DEF GadgetRecomposes
  <2>1. x \in 0 .. ctx.gadget.Q - 1
    BY DEF Edges
  <2> QED
    BY <2>1, DigitsRecompose
<1>2. Init => ctx \in Contexts
  BY DEF Init
<1>3. ctx \in Contexts /\ [Next]_vars => (ctx \in Contexts)'
  <2> SUFFICES ASSUME ctx \in Contexts, [Next]_vars PROVE ctx' = ctx
    OBVIOUS
  <2>1. ASSUME NEW s \in Secrets, BTKeyGen(s) PROVE ctx' = ctx
    BY <2>1 DEF BTKeyGen
  <2>2. ASSUME ClearBTKeys PROVE ctx' = ctx
    BY <2>2 DEF ClearBTKeys
  <2>3. ASSUME NEW t \in Threads, Replaces(t) PROVE ctx' = ctx
    BY <2>3, ReplacesUnshared DEF Unshared
  <2>4. ASSUME NEW t \in Threads, NEW kind, NEW ct, StartLarge(t, kind, ct) PROVE ctx' = ctx
    BY <2>4 DEF StartLarge
  <2>5. ASSUME NEW t \in Threads, Floor(t) PROVE ctx' = ctx
    BY <2>5 DEF Floor
  <2>6. ASSUME NEW t \in Threads, EvalSign(t) PROVE ctx' = ctx
    BY <2>6 DEF EvalSign
  <2>7. ASSUME NEW t \in Threads, EvalDecomp(t) PROVE ctx' = ctx
    BY <2>7 DEF EvalDecomp
  <2>8. ASSUME UNCHANGED vars PROVE ctx' = ctx
    BY <2>8 DEF vars
  <2> QED
    BY <2>1, <2>2, <2>3, <2>4, <2>5, <2>6, <2>7, <2>8, NextCases, Zenon
<1> QED
  BY <1>1, <1>2, <1>3, PTL DEF Spec
=============================================================================
