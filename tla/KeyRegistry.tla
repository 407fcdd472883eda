---------------------------- MODULE KeyRegistry ----------------------------
(* The process-wide state of the PKE layer: the crypto contexts the factory *)
(* knows, and the two static registries of evaluation keys, one of vectors  *)
(* of relinearization keys and one of shared maps of automorphism keys,     *)
(* both addressed by the tag of a secret key.  Key generation, insertion,   *)
(* serialization, the three forms of clearing and the release of all        *)
(* contexts work on it; every homomorphic operation reads it.               *)
(*                                                                          *)
(* A key is the secret it was made for, the context object it belongs to    *)
(* and a mark that tells two generations apart.  A map of automorphism keys *)
(* is an object: the registry and the application may hold the same one.    *)
EXTENDS Naturals, FiniteSets

CONSTANTS
  Params,         \* parameter sets
  Ctxs,           \* context objects; a bound on how many are ever made
  Tags,           \* key tags, in the order of std::map
  RelinTags,      \* the tags whose owners ask for relinearization keys
  Indices,        \* automorphism indices
  MapIds,         \* objects holding a map of keys; a bound
  Gens,           \* marks of key generations
  RelinKeys,      \* maxRelinSkDeg - 1
  KeepReleased,   \* whether the application uses contexts it released
  None

EmptyTag == 0
Degrees == 1 .. RelinKeys

ASSUME TagsAssumption == Tags \subseteq Nat \ {EmptyTag} /\ RelinTags \subseteq Tags
ASSUME CtxsAssumption == Ctxs /= {}
ASSUME IndicesAssumption == Indices \subseteq Nat
ASSUME RelinAssumption == RelinKeys \in Nat \ {0}
ASSUME KeepAssumption == KeepReleased \in BOOLEAN

EvalKey == [sk : Tags, ctx : Ctxs, gen : Gens]
StoredKey == [sk : Tags, params : Params, gen : Gens]
MapOf(S, K) == [S -> K \cup {None}]
ASSUME NoneAssumption ==
  /\ None \notin Params \cup Ctxs \cup Tags \cup MapIds \cup EvalKey \cup StoredKey
  /\ None \notin MapOf(Degrees, EvalKey)
  /\ None \notin MapOf(Degrees, StoredKey) \cup MapOf(Indices, StoredKey)

VARIABLES
  AllContexts,    \* CryptoContextFactory::AllContexts
  ctxParams,      \* the parameters of every context object made so far
  sk,             \* the context of the secret key with a tag
  evalMultKeyMap, \* s_evalMultKeyMap: vector by position, None if no entry
  evalAutomorphismKeyMap,  \* s_evalAutomorphismKeyMap: pointers to maps
  maps,           \* the map objects
  held,           \* the map object the application holds
  stream,         \* what the application serialized last
  loading,        \* the deserialized entries still to be inserted
  granted,        \* indices key generation promised and nobody cleared
  last            \* the last call of those the documentation is quoted on

vars == <<AllContexts, ctxParams, sk, evalMultKeyMap, evalAutomorphismKeyMap,
          maps, held, stream, loading, granted, last>>
contexts == <<AllContexts, ctxParams, sk>>

-----------------------------------------------------------------------------
(* Maps of keys.                                                            *)

Nothing(S) == [i \in S |-> None]
KeysAt(m) == {i \in DOMAIN m : m[i] /= None}
IsFirst(i, m) == i \in KeysAt(m) /\ \A j \in KeysAt(m) : i <= j

(* The map registered for a tag, and its indices.                           *)
Registered(t) ==
  IF evalAutomorphismKeyMap[t] = None THEN Nothing(Indices)
  ELSE maps[evalAutomorphismKeyMap[t]]
GetExistingEvalAutomorphismKeyIndices(t) == KeysAt(Registered(t))

(* Objects nobody points to any more are destroyed.                         *)
Sweep(f, registry, h) ==
  [m \in MapIds |-> IF m = h \/ \E t \in Tags : registry[t] = m THEN f[m]
                    ELSE Nothing(Indices)]
Unregistered == {m \in MapIds : \A t \in Tags : evalAutomorphismKeyMap[t] /= m}
(* Which unused object a new map gets does not matter.                      *)
OneOf(S) == IF S = {} THEN {} ELSE {CHOOSE m \in S : TRUE}
NewMap == OneOf(Unregistered \ {held})

(* InsertEvalAutomorphismKey: an empty map is ignored, the first map of a   *)
(* tag is taken over as it is (the object itself), of a later one only the  *)
(* indices that are missing.  M holds the object content is in.             *)
Merged(old, new) == [i \in Indices |-> IF old[i] /= None THEN old[i] ELSE new[i]]

InsertWholeMap(M, content, t) ==      \* mutant: the new map takes the place of the old
  IF KeysAt(content) = {} THEN UNCHANGED <<evalAutomorphismKeyMap, maps>>
  ELSE \E m \in M :
         /\ evalAutomorphismKeyMap' = [evalAutomorphismKeyMap EXCEPT ![t] = m]
         /\ maps' = Sweep([maps EXCEPT ![m] = content], evalAutomorphismKeyMap', held)

InsertEvalAutomorphismKey(M, content, t) ==
  LET existing == GetExistingEvalAutomorphismKeyIndices(t)
  IN  IF KeysAt(content) = {} THEN UNCHANGED <<evalAutomorphismKeyMap, maps>>
      ELSE IF existing = {}
      THEN \E m \in M :
             /\ evalAutomorphismKeyMap' = [evalAutomorphismKeyMap EXCEPT ![t] = m]
             /\ maps' = Sweep([maps EXCEPT ![m] = content], evalAutomorphismKeyMap', held)
      ELSE /\ maps' = [maps EXCEPT ![evalAutomorphismKeyMap[t]] = Merged(@, content)]
           /\ UNCHANGED evalAutomorphismKeyMap

-----------------------------------------------------------------------------
(* Contexts.                                                                *)

FindContext(p) == {c \in AllContexts : ctxParams[c] = p}
Fresh == {c \in Ctxs : ctxParams[c] = None}

GetNewContext(P, f) ==                \* mutant: no search for an equal context
  /\ \A p \in P : f[p] \in Fresh
  /\ \A p, q \in P : p /= q => f[p] /= f[q]
  /\ AllContexts' = AllContexts \cup {f[p] : p \in P}
  /\ ctxParams' = [c \in Ctxs |-> IF \E p \in P : f[p] = c
                                  THEN CHOOSE p \in P : f[p] = c ELSE ctxParams[c]]

(* GetContext for a set of parameters: f names the context of each, found   *)
(* in AllContexts or made and added to it.                                  *)
GetContext(P, f) ==
  /\ \A p \in P : f[p] \in (IF FindContext(p) /= {} THEN FindContext(p) ELSE Fresh)
  /\ \A p, q \in P : p /= q => f[p] /= f[q]
  /\ AllContexts' = AllContexts \cup {f[p] : p \in P}
  /\ ctxParams' = [c \in Ctxs |-> IF \E p \in P : f[p] = c
                                  THEN CHOOSE p \in P : f[p] = c ELSE ctxParams[c]]

Idle == loading = None
NoCall == [op |-> "other", arg |-> None]
Call(op, a) == last' = [op |-> op, arg |-> a]
OtherCall == last' = NoCall
Live(c) == KeepReleased \/ c \in AllContexts
HasKey(t) == sk[t] /= None /\ Live(sk[t])
NewKey(t, g) == [sk |-> t, ctx |-> sk[t], gen |-> g]

Init ==
  /\ AllContexts = {}
  /\ ctxParams = [c \in Ctxs |-> None]
  /\ sk = [t \in Tags |-> None]
  /\ evalMultKeyMap = [t \in Tags |-> None]
  /\ evalAutomorphismKeyMap = [t \in Tags |-> None]
  /\ maps = [m \in MapIds |-> Nothing(Indices)]
  /\ held = None
  /\ stream = None
  /\ loading = None
  /\ granted = [t \in Tags |-> {}]
  /\ last = NoCall

GenCryptoContext(p) ==
  /\ Idle
  /\ \E c \in Ctxs : GetContext({p}, [q \in {p} |-> c])
  /\ OtherCall
  /\ UNCHANGED <<sk, evalMultKeyMap, evalAutomorphismKeyMap, maps, held, stream,
                 loading, granted>>

(* A new secret key has a new random tag.                                   *)
KeyGen(t, c) ==
  /\ Idle
  /\ sk[t] = None /\ ctxParams[c] /= None /\ Live(c)
  /\ sk' = [sk EXCEPT ![t] = c]
  /\ OtherCall
  /\ UNCHANGED <<AllContexts, ctxParams, evalMultKeyMap, evalAutomorphismKeyMap,
                 maps, held, stream, loading, granted>>

(* Loading a secret key finds or makes the context it belongs to.           *)
DeserializeSecretKey(t) ==
  /\ Idle
  /\ sk[t] /= None
  /\ LET p == ctxParams[sk[t]]
     IN  \E c \in Ctxs : GetContext({p}, [q \in {p} |-> c]) /\ sk' = [sk EXCEPT ![t] = c]
  /\ OtherCall
  /\ UNCHANGED <<evalMultKeyMap, evalAutomorphismKeyMap, maps, held, stream,
                 loading, granted>>

ClearRegistries ==
  /\ evalMultKeyMap' = [t \in Tags |-> None]
  /\ evalAutomorphismKeyMap' = [t \in Tags |-> None]
  /\ maps' = Sweep(maps, evalAutomorphismKeyMap', held)
  /\ granted' = [t \in Tags |-> {}]

ClearStaticMapsAndVectors ==
  /\ Idle
  /\ ClearRegistries
  /\ OtherCall
  /\ UNCHANGED <<contexts, held, stream, loading>>

ReleaseContextsOnly ==                \* mutant: the registries are kept
  /\ Idle
  /\ AllContexts' = {}
  /\ OtherCall
  /\ UNCHANGED <<ctxParams, sk, evalMultKeyMap, evalAutomorphismKeyMap, maps, held,
                 stream, loading, granted>>

(* The registries are emptied only if there is a context to release.        *)
ReleaseAllContexts ==
  /\ Idle
  /\ IF AllContexts /= {} THEN ClearRegistries
     ELSE UNCHANGED <<evalMultKeyMap, evalAutomorphismKeyMap, maps, granted>>
  /\ AllContexts' = {}
  /\ OtherCall
  /\ UNCHANGED <<ctxParams, sk, held, stream, loading>>

-----------------------------------------------------------------------------
(* Relinearization keys.                                                    *)

MultUnchanged ==
  UNCHANGED <<contexts, evalAutomorphismKeyMap, maps, held, stream, loading, granted>>

(* Both do nothing when the tag already has an entry.                       *)
EvalMultKeyGen(t, g) ==
  /\ Idle /\ HasKey(t) /\ t \in RelinTags
  /\ evalMultKeyMap' =
       IF evalMultKeyMap[t] /= None THEN evalMultKeyMap
       ELSE [evalMultKeyMap EXCEPT
               ![t] = [i \in Degrees |-> IF i = 1 THEN NewKey(t, g) ELSE None]]
  /\ OtherCall
  /\ MultUnchanged

EvalMultKeysGenAnew(t, g) ==          \* mutant: no search for an entry of the tag
  /\ Idle /\ HasKey(t) /\ t \in RelinTags
  /\ evalMultKeyMap' = [evalMultKeyMap EXCEPT ![t] = [i \in Degrees |-> NewKey(t, g)]]
  /\ Call("multKeysGen", t)
  /\ MultUnchanged

EvalMultKeysGen(t, g) ==
  /\ Idle /\ HasKey(t) /\ t \in RelinTags
  /\ evalMultKeyMap' =
       IF evalMultKeyMap[t] /= None THEN evalMultKeyMap
       ELSE [evalMultKeyMap EXCEPT ![t] = [i \in Degrees |-> NewKey(t, g)]]
  /\ Call("multKeysGen", t)
  /\ MultUnchanged

(* An existing entry is never replaced: the call throws.                    *)
InsertMult(content, t) ==
  evalMultKeyMap' = IF evalMultKeyMap[t] = None
                    THEN [evalMultKeyMap EXCEPT ![t] = content] ELSE evalMultKeyMap

(* The application inserts the joint key of a multiparty protocol.          *)
InsertEvalMultKey(t, g) ==
  /\ Idle /\ HasKey(t) /\ t \in RelinTags
  /\ InsertMult([i \in Degrees |-> IF i = 1 THEN NewKey(t, g) ELSE None], t)
  /\ OtherCall
  /\ MultUnchanged

ClearEvalMultKeys ==
  /\ Idle
  /\ evalMultKeyMap' = [t \in Tags |-> None]
  /\ OtherCall
  /\ MultUnchanged

ClearEvalMultKeysOfTag(t) ==
  /\ Idle
  /\ evalMultKeyMap' = [u \in Tags |-> IF u = t THEN None ELSE evalMultKeyMap[u]]
  /\ Call("clearMultTag", t)
  /\ MultUnchanged

(* The context of an entry is the one of its first key.                     *)
ClearEvalMultKeysOfContext(c) ==
  /\ Idle /\ ctxParams[c] /= None /\ Live(c)
  /\ evalMultKeyMap' =
       [t \in Tags |-> IF evalMultKeyMap[t] /= None /\ evalMultKeyMap[t][1].ctx = c
                       THEN None ELSE evalMultKeyMap[t]]
  /\ OtherCall
  /\ MultUnchanged

-----------------------------------------------------------------------------
(* Automorphism keys.                                                       *)

AutoUnchanged == UNCHANGED <<contexts, evalMultKeyMap, stream, loading>>

(* EvalAtIndexKeyGen, EvalSumKeyGen, EvalSumRowsKeyGen, EvalSumColsKeyGen:  *)
(* only the missing indices are generated, into a new map.                  *)
EvalAtIndexKeyGen(t, I, g) ==
  /\ Idle /\ HasKey(t)
  /\ LET new == I \ GetExistingEvalAutomorphismKeyIndices(t)
     IN  InsertEvalAutomorphismKey(
           NewMap,
           [i \in Indices |-> IF i \in new THEN NewKey(t, g) ELSE None], t)
  /\ granted' = [granted EXCEPT ![t] = @ \cup I]
  /\ OtherCall
  /\ UNCHANGED held /\ AutoUnchanged

(* The application takes a pointer to the registered map.                   *)
GetEvalAutomorphismKeyMapPtr(t) ==
  /\ Idle
  /\ evalAutomorphismKeyMap[t] /= None
  /\ held' = evalAutomorphismKeyMap[t]
  /\ maps' = Sweep(maps, evalAutomorphismKeyMap, held')
  /\ OtherCall
  /\ UNCHANGED <<evalAutomorphismKeyMap, granted>> /\ AutoUnchanged

(* A copy of the keys of some indices; it throws if one is missing.         *)
GetPartialEvalAutomorphismKeyMapPtr(t, I) ==
  /\ Idle
  /\ I /= {} /\ I \subseteq GetExistingEvalAutomorphismKeyIndices(t)
  /\ held' \in OneOf(Unregistered)
  /\ maps' = Sweep([maps EXCEPT ![held'] =
                       [i \in Indices |-> IF i \in I THEN Registered(t)[i] ELSE None]],
                    evalAutomorphismKeyMap, held')
  /\ OtherCall
  /\ UNCHANGED <<evalAutomorphismKeyMap, granted>> /\ AutoUnchanged

(* MultiEvalAtIndexKeyGen, MultiAddEvalAutomorphismKeys: a new map of joint *)
(* keys in the hands of the application.                                    *)
MakeJointKeys(t, I, g) ==
  /\ Idle /\ HasKey(t) /\ I /= {}
  /\ held' \in OneOf(Unregistered)
  /\ maps' = Sweep([maps EXCEPT ![held'] =
                       [i \in Indices |-> IF i \in I THEN NewKey(t, g) ELSE None]],
                    evalAutomorphismKeyMap, held')
  /\ OtherCall
  /\ UNCHANGED <<evalAutomorphismKeyMap, granted>> /\ AutoUnchanged

InsertHeldAnywhere ==                 \* mutant: the tag is not that of the keys
  /\ Idle /\ held /= None
  /\ \E t \in Tags : InsertEvalAutomorphismKey({held}, maps[held], t)
  /\ OtherCall
  /\ UNCHANGED <<held, granted>> /\ AutoUnchanged

(* InsertEvalSumKey, InsertEvalAutomorphismKey without a tag: the tag is    *)
(* that of the first key.                                                   *)
InsertHeldMap ==
  /\ Idle /\ held /= None
  /\ \A i \in KeysAt(maps[held]) : Live(maps[held][i].ctx)
  /\ \E i \in Indices :
       /\ IsFirst(i, maps[held])
       /\ InsertEvalAutomorphismKey({held}, maps[held], maps[held][i].sk)
  /\ OtherCall
  /\ UNCHANGED <<held, granted>> /\ AutoUnchanged

ForgetHeldMap ==
  /\ Idle /\ held /= None
  /\ held' = None
  /\ maps' = Sweep(maps, evalAutomorphismKeyMap, None)
  /\ OtherCall
  /\ UNCHANGED <<evalAutomorphismKeyMap, granted>> /\ AutoUnchanged

EraseAuto(T) ==
  /\ evalAutomorphismKeyMap' =
       [t \in Tags |-> IF t \in T THEN None ELSE evalAutomorphismKeyMap[t]]
  /\ maps' = Sweep(maps, evalAutomorphismKeyMap', held)
  /\ granted' = [t \in Tags |-> IF t \in T THEN {} ELSE granted[t]]

ClearEvalAutomorphismKeys ==
  /\ Idle
  /\ EraseAuto(Tags)
  /\ OtherCall
  /\ UNCHANGED held /\ AutoUnchanged

ClearEvalAutomorphismKeysOfTag(t) ==
  /\ Idle
  /\ EraseAuto({t})
  /\ OtherCall
  /\ UNCHANGED held /\ AutoUnchanged

(* The context of a map is the one of its first key.                        *)
BelongsTo(t, c) ==
  evalAutomorphismKeyMap[t] /= None
    /\ \E i \in Indices : IsFirst(i, Registered(t)) /\ Registered(t)[i].ctx = c

ClearEvalAutomorphismKeysOfContext(c) ==
  /\ Idle /\ ctxParams[c] /= None /\ Live(c)
  /\ EraseAuto({t \in Tags : BelongsTo(t, c)})
  /\ Call("clearAutoContext", c)
  /\ UNCHANGED held /\ AutoUnchanged

-----------------------------------------------------------------------------
(* Serialization.  A stored key holds the parameters of its context.        *)

Store(m) ==
  [i \in DOMAIN m |-> IF m[i] = None THEN None
     ELSE [sk |-> m[i].sk, params |-> ctxParams[m[i].ctx], gen |-> m[i].gen]]
LoadUnresolved(m, f) == m             \* mutant: no context is looked up
Load(m, f) ==
  [i \in DOMAIN m |-> IF m[i] = None THEN None
     ELSE [sk |-> m[i].sk, ctx |-> f[m[i].params], gen |-> m[i].gen]]

SerializeUnchanged ==
  UNCHANGED <<contexts, evalMultKeyMap, evalAutomorphismKeyMap, maps, held, loading, granted>>

MultTags == {t \in Tags : evalMultKeyMap[t] /= None}
AutoTags == {t \in Tags : evalAutomorphismKeyMap[t] /= None}

StoreMult(T) ==
  stream' = [kind |-> "mult",
             keys |-> [t \in Tags |-> IF t \in T THEN Store(evalMultKeyMap[t]) ELSE None]]
StoreAuto(T, I) ==
  stream' = [kind |-> "auto",
             keys |-> [t \in Tags |->
                         IF t \in T
                         THEN Store([i \in Indices |-> IF i \in I THEN Registered(t)[i]
                                                        ELSE None])
                         ELSE None]]

(* The whole registry, the entry of one tag, or those of one context; the   *)
(* calls that find nothing store nothing.                                   *)
SerializeEvalMultKey(T) ==
  /\ Idle
  /\ \/ T = MultTags
     \/ \E t \in MultTags : T = {t}
     \/ \E c \in Ctxs : T /= {} /\ T = {t \in MultTags : evalMultKeyMap[t][1].ctx = c}
  /\ StoreMult(T)
  /\ OtherCall
  /\ SerializeUnchanged

SerializeEvalAutomorphismKey(T) ==
  /\ Idle
  /\ \/ T = AutoTags
     \/ \E t \in AutoTags : T = {t}
     \/ \E c \in Ctxs : T /= {} /\ T = {t \in Tags : BelongsTo(t, c)}
  /\ StoreAuto(T, Indices)
  /\ OtherCall
  /\ SerializeUnchanged

SerializeEvalAutomorphismKeyIndices(t, I) ==
  /\ Idle
  /\ I /= {} /\ I \subseteq GetExistingEvalAutomorphismKeyIndices(t)
  /\ StoreAuto({t}, I)
  /\ OtherCall
  /\ SerializeUnchanged

(* Deserialization makes the contexts of all keys, then inserts one tag     *)
(* after the other.                                                         *)
ParamsIn(keys) ==
  {p \in Params : \E t \in Tags : keys[t] /= None
     /\ \E i \in KeysAt(keys[t]) : keys[t][i].params = p}

DeserializeEvalKeys ==
  /\ Idle /\ stream /= None
  /\ LET P == ParamsIn(stream.keys)
     IN  \E f \in [P -> Ctxs] :
           /\ GetContext(P, f)
           /\ loading' = [kind |-> stream.kind,
                          keys |-> [t \in Tags |-> IF stream.keys[t] = None THEN None
                                                   ELSE Load(stream.keys[t], f)]]
  /\ OtherCall
  /\ UNCHANGED <<sk, evalMultKeyMap, evalAutomorphismKeyMap, maps, held, stream, granted>>

ToLoad == {t \in Tags : loading.keys[t] /= None}
NextTag(t) == ~Idle /\ t \in ToLoad /\ \A u \in ToLoad : t <= u
Loaded(t) == loading' = [loading EXCEPT !.keys = [@ EXCEPT ![t] = None]]

(* A tag that has an entry ends the call; those before it stay inserted.    *)
DeserializeEvalMultKeyStep(t) ==
  /\ NextTag(t) /\ loading.kind = "mult"
  /\ IF evalMultKeyMap[t] = None THEN Loaded(t) ELSE loading' = None
  /\ InsertMult(loading.keys[t], t)
  /\ OtherCall
  /\ UNCHANGED <<contexts, evalAutomorphismKeyMap, maps, held, stream, granted>>

DeserializeEvalAutomorphismKeyStep(t) ==
  /\ NextTag(t) /\ loading.kind = "auto"
  /\ InsertEvalAutomorphismKey(NewMap, loading.keys[t], t)
  /\ Loaded(t)
  /\ OtherCall
  /\ UNCHANGED <<contexts, evalMultKeyMap, held, stream, granted>>

DeserializeReturn ==
  /\ ~Idle /\ ToLoad = {}
  /\ loading' = None
  /\ OtherCall
  /\ UNCHANGED <<contexts, evalMultKeyMap, evalAutomorphismKeyMap, maps, held, stream,
                 granted>>

-----------------------------------------------------------------------------
Contexts ==
  \/ \E p \in Params : GenCryptoContext(p)
  \/ \E t \in Tags, c \in Ctxs : KeyGen(t, c)
  \/ \E t \in Tags : DeserializeSecretKey(t)
  \/ ClearStaticMapsAndVectors
  \/ ReleaseAllContexts

Relinearization ==
  \/ \E t \in Tags, g \in Gens : EvalMultKeyGen(t, g)
  \/ \E t \in Tags, g \in Gens : EvalMultKeysGen(t, g)
  \/ \E t \in Tags, g \in Gens : InsertEvalMultKey(t, g)
  \/ ClearEvalMultKeys
  \/ \E t \in Tags \cup {EmptyTag} : ClearEvalMultKeysOfTag(t)
  \/ \E c \in Ctxs : ClearEvalMultKeysOfContext(c)

Automorphism ==
  \/ \E t \in Tags, I \in SUBSET Indices, g \in Gens : EvalAtIndexKeyGen(t, I, g)
  \/ \E t \in Tags : GetEvalAutomorphismKeyMapPtr(t)
  \/ \E t \in Tags, I \in SUBSET Indices : GetPartialEvalAutomorphismKeyMapPtr(t, I)
  \/ \E t \in Tags, I \in SUBSET Indices, g \in Gens : MakeJointKeys(t, I, g)
  \/ InsertHeldMap
  \/ ForgetHeldMap
  \/ ClearEvalAutomorphismKeys
  \/ \E t \in Tags \cup {EmptyTag} : ClearEvalAutomorphismKeysOfTag(t)
  \/ \E c \in Ctxs : ClearEvalAutomorphismKeysOfContext(c)

Serialization ==
  \/ \E T \in SUBSET Tags : SerializeEvalMultKey(T)
  \/ \E T \in SUBSET Tags : SerializeEvalAutomorphismKey(T)
  \/ \E t \in Tags, I \in SUBSET Indices : SerializeEvalAutomorphismKeyIndices(t, I)
  \/ DeserializeEvalKeys
  \/ \E t \in Tags : DeserializeEvalMultKeyStep(t)
  \/ \E t \in Tags : DeserializeEvalAutomorphismKeyStep(t)
  \/ DeserializeReturn

Next == Contexts \/ Relinearization \/ Automorphism \/ Serialization

Spec == Init /\ [][Next]_vars

-----------------------------------------------------------------------------
(* Properties.                                                              *)

(* Types of the factory, the registries, the map objects and the grants.    *)
TypeOK ==
  /\ AllContexts \subseteq Ctxs
  /\ ctxParams \in [Ctxs -> Params \cup {None}]
  /\ sk \in [Tags -> Ctxs \cup {None}]
  /\ evalMultKeyMap \in [Tags -> MapOf(Degrees, EvalKey) \cup {None}]
  /\ evalAutomorphismKeyMap \in [Tags -> MapIds \cup {None}]
  /\ maps \in [MapIds -> MapOf(Indices, EvalKey)]
  /\ held \in MapIds \cup {None}
  /\ granted \in [Tags -> SUBSET Indices]

(* Two equal contexts never exist side by side in the factory, and all the  *)
(* registered keys of a tag belong to one context of the factory: clearing  *)
(* and serializing by context, which look at one key of an entry, treat     *)
(* all of its keys alike.  Whatever the order of key generation,            *)
(* serialization, release and deserialization.                              *)
OneContextPerTag ==
  /\ \A c, d \in AllContexts : ctxParams[c] = ctxParams[d] => c = d
  /\ \A t \in Tags : \E c \in Ctxs :
       /\ evalMultKeyMap[t] /= None =>
            c \in AllContexts /\ \A i \in KeysAt(evalMultKeyMap[t]) : evalMultKeyMap[t][i].ctx = c
       /\ evalAutomorphismKeyMap[t] /= None =>
            c \in AllContexts /\ \A i \in KeysAt(Registered(t)) : Registered(t)[i].ctx = c

(* An operation on ciphertexts of one key never works with another key's    *)
(* evaluation keys, although maps are shared objects and tags are optional. *)
KeysBelongToTag ==
  \A t \in Tags :
    /\ \A i \in KeysAt(Registered(t)) : Registered(t)[i].sk = t
    /\ evalMultKeyMap[t] /= None =>
         \A i \in KeysAt(evalMultKeyMap[t]) : evalMultKeyMap[t][i].sk = t

(* An index for which key generation returned stays available until its tag *)
(* is cleared, whatever is inserted or deserialized meanwhile.              *)
GrantedKeysStay ==
  \A t \in Tags : granted[t] \subseteq GetExistingEvalAutomorphismKeyIndices(t)

(* The calls of which cryptocontext.h (679, 718, 782, 905, 943) says that   *)
(* they replace matching keys.                                              *)
DocumentedToReplace ==
  \/ \E t \in Tags, g \in Gens : InsertEvalMultKey(t, g)
  \/ InsertHeldMap
  \/ \E t \in Tags : DeserializeEvalMultKeyStep(t) \/ DeserializeEvalAutomorphismKeyStep(t)

(* No other call replaces a registered key by another one, although maps    *)
(* are shared with the application and generation is repeated: operations   *)
(* hold references into the registries.  Generation looks for the tag, or   *)
(* the indices, first (cryptocontext.cpp:89, 98).                           *)
KeysNotReplaced ==
  [][~DocumentedToReplace =>
       \A t \in Tags :
         /\ \A i \in KeysAt(Registered(t)) : Registered(t)'[i] \in {Registered(t)[i], None}
         /\ (evalMultKeyMap[t] /= None /\ evalMultKeyMap'[t] /= None)
              => evalMultKeyMap'[t] = evalMultKeyMap[t]]_vars

-----------------------------------------------------------------------------
(* What the documentation says of the calls; the code does otherwise.       *)

(* DeserializeEvalMultKey "silently replaces any existing matching keys":   *)
(* the relinearization keys it loads are in the registry afterwards.  The   *)
(* code throws (cryptocontext.cpp:135).                                     *)
LoadReplacesMultKeys ==
  [][\A t \in Tags : DeserializeEvalMultKeyStep(t) => evalMultKeyMap'[t] = loading.keys[t]]_vars

(* DeserializeEvalAutomorphismKey "silently replaces any existing matching  *)
(* keys": each automorphism key it loads is in the registry afterwards.     *)
(* The code inserts missing indices only (cryptocontext.cpp:353-367).       *)
LoadReplacesAutomorphismKeys ==
  [][\A t \in Tags : DeserializeEvalAutomorphismKeyStep(t) =>
       \A i \in KeysAt(loading.keys[t]) : Registered(t)'[i] = loading.keys[t][i]]_vars

(* ClearEvalMultKeys(keyTag) clears the entire EvalMultKey cache if keyTag  *)
(* is empty.                                                                *)
EmptyTagClearsAll ==
  (last.op = "clearMultTag" /\ last.arg = EmptyTag) => \A t \in Tags : evalMultKeyMap[t] = None

(* EvalMultKeysGen stores a vector of keys, one for each degree.            *)
KeysGenStoresVector ==
  last.op = "multKeysGen" => KeysAt(evalMultKeyMap[last.arg]) = Degrees

(* ClearEvalAutomorphismKeys(cc) clears all the keys of the context.        *)
ContextCleared ==
  last.op = "clearAutoContext" =>
    \A t \in Tags : \A i \in KeysAt(Registered(t)) : Registered(t)[i].ctx /= last.arg

-----------------------------------------------------------------------------
(* The inductive invariant.                                                 *)

(* The keys of a map were made for the secret with tag t, in contexts with  *)
(* the parameters of that secret's context.                                 *)
OwnKeys(m, t, secrets, par) ==
  \A i \in KeysAt(m) :
    m[i].sk = t /\ secrets[t] /= None /\ par[m[i].ctx] = par[secrets[t]]
OwnStored(m, t, secrets, par) ==
  \A i \in KeysAt(m) :
    m[i].sk = t /\ secrets[t] /= None /\ m[i].params = par[secrets[t]]
AllIn(m, C) == \A i \in KeysAt(m) : m[i].ctx \in C

Slots(kind) == IF kind = "mult" THEN Degrees ELSE Indices
(* A vector of relinearization keys has a first key, no map is empty.       *)
Filled(kind, m) == IF kind = "mult" THEN m[1] /= None ELSE KeysAt(m) /= {}

ContextsOK(all, par, secrets) ==
  /\ \A c \in all : par[c] /= None
  /\ \A c, d \in all : par[c] = par[d] => c = d
  /\ \A t \in Tags : secrets[t] /= None => par[secrets[t]] /= None

MultOK ==
  \A t \in Tags : evalMultKeyMap[t] /= None =>
    /\ Filled("mult", evalMultKeyMap[t])
    /\ OwnKeys(evalMultKeyMap[t], t, sk, ctxParams)
    /\ ~KeepReleased => AllIn(evalMultKeyMap[t], AllContexts)

AutoOK ==
  \A t \in Tags : evalAutomorphismKeyMap[t] /= None =>
    /\ Filled("auto", maps[evalAutomorphismKeyMap[t]])
    /\ OwnKeys(maps[evalAutomorphismKeyMap[t]], t, sk, ctxParams)
    /\ ~KeepReleased => AllIn(maps[evalAutomorphismKeyMap[t]], AllContexts)

HeldOK ==
  held /= None =>
    /\ Filled("auto", maps[held])
    /\ \E t \in Tags : OwnKeys(maps[held], t, sk, ctxParams)

StreamOK ==
  stream /= None =>
    /\ stream \in [kind : {"mult", "auto"}, keys : [Tags -> MapOf(Slots(stream.kind), StoredKey) \cup {None}]]
    /\ \A t \in Tags : stream.keys[t] /= None =>
         Filled(stream.kind, stream.keys[t]) /\ OwnStored(stream.keys[t], t, sk, ctxParams)

LoadingOK ==
  loading /= None =>
    /\ loading \in [kind : {"mult", "auto"}, keys : [Tags -> MapOf(Slots(loading.kind), EvalKey) \cup {None}]]
    /\ \A t \in Tags : loading.keys[t] /= None =>
         /\ Filled(loading.kind, loading.keys[t])
         /\ OwnKeys(loading.keys[t], t, sk, ctxParams)
         /\ AllIn(loading.keys[t], AllContexts)

(* Every key that is registered, held, stored or being loaded belongs to    *)
(* the secret of its tag and has that secret's parameters; with the factory *)
(* free of duplicates this fixes its context.                               *)
IInv ==
  /\ TypeOK
  /\ ContextsOK(AllContexts, ctxParams, sk)
  /\ MultOK
  /\ AutoOK
  /\ HeldOK
  /\ StreamOK
  /\ LoadingOK
  /\ GrantedKeysStay
=============================================================================
