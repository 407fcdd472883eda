------------------------ MODULE KeyRegistry_proof ------------------------
(* Proofs about KeyRegistry for every number of contexts, tags, indices and *)
(* map objects.                                                             *)
EXTENDS KeyRegistry, TLAPS

(* GetContext only adds contexts, leaves the parameters of existing ones    *)
(* alone, and keeps the factory free of duplicates.                         *)
LEMMA GetContextGrows ==
  ASSUME TypeOK, ContextsOK(AllContexts, ctxParams, sk),
         NEW P \in SUBSET Params, NEW f \in [P -> Ctxs], GetContext(P, f)
  PROVE  /\ AllContexts' \subseteq Ctxs
         /\ AllContexts \subseteq AllContexts'
         /\ ctxParams' \in [Ctxs -> Params \cup {None}]
         /\ \A c \in Ctxs : ctxParams[c] /= None => ctxParams'[c] = ctxParams[c]
         /\ \A p \in P : f[p] \in AllContexts' /\ ctxParams'[f[p]] = p
         /\ \A c \in AllContexts' : ctxParams'[c] /= None
         /\ \A c, d \in AllContexts' : ctxParams'[c] = ctxParams'[d] => c = d
PROOF
<1>1. None \notin Params
  BY NoneAssumption
<1>2. \A p \in P : ctxParams'[f[p]] = p
  <2> TAKE p \in P
  <2>1. \A q \in P : f[q] = f[p] => q = p
    BY DEF GetContext
  <2>2. f[p] \in Ctxs
    OBVIOUS
  <2>3. ctxParams'[f[p]] = CHOOSE q \in P : f[q] = f[p]
    BY <2>2 DEF GetContext
  <2> QED
    BY <2>1, <2>3
<1>3. \A c \in Ctxs : (\A p \in P : f[p] /= c) => ctxParams'[c] = ctxParams[c]
  BY DEF GetContext
<1>4. \A p \in P : f[p] \in FindContext(p) \/ (FindContext(p) = {} /\ f[p] \in Fresh)
  BY DEF GetContext
<1>5. AllContexts' = AllContexts \cup {f[p] : p \in P}
  BY DEF GetContext
<1>6. AllContexts' \subseteq Ctxs
  BY <1>5 DEF TypeOK
<1>7. ctxParams' \in [Ctxs -> Params \cup {None}]
  <2>1. ctxParams' = [c \in Ctxs |-> ctxParams'[c]]
    BY DEF GetContext
  <2>2. \A c \in Ctxs : ctxParams'[c] \in Params \cup {None}
    BY <1>2, <1>3 DEF TypeOK
  <2> QED
    BY <2>1, <2>2
<1>8. \A c \in Ctxs : ctxParams[c] /= None => ctxParams'[c] = ctxParams[c]
  BY <1>2, <1>3, <1>4 DEF FindContext, Fresh
<1>9. \A c \in AllContexts' : ctxParams'[c] /= None
  BY <1>1, <1>2, <1>5, <1>8 DEF ContextsOK, TypeOK
<1>10. ASSUME NEW c \in AllContexts', NEW d \in AllContexts', ctxParams'[c] = ctxParams'[d]
       PROVE  c = d
  <2>1. ASSUME NEW a \in AllContexts, NEW q \in P, ctxParams'[a] = q
        PROVE  a = f[q]
    <3>1. ctxParams[a] = q
      BY <1>8, <2>1 DEF ContextsOK, TypeOK
    <3>2. a \in FindContext(q)
      BY <3>1 DEF FindContext
    <3>3. f[q] \in FindContext(q)
      BY <3>2, <1>4
    <3> QED
      BY <3>1, <3>3 DEF FindContext, ContextsOK
  <2>2. CASE c \in AllContexts /\ d \in AllContexts
    BY <2>2, <1>8, <1>10 DEF ContextsOK, TypeOK
  <2>3. CASE c \in AllContexts /\ d \notin AllContexts
    BY <2>1, <2>3, <1>2, <1>5, <1>10
  <2>4. CASE c \notin AllContexts /\ d \in AllContexts
    BY <2>1, <2>4, <1>2, <1>5, <1>10
  <2>5. CASE c \notin AllContexts /\ d \notin AllContexts
    BY <2>5, <1>2, <1>5, <1>10
  <2> QED
    BY <2>2, <2>3, <2>4, <2>5
<1> QED
  BY <1>2, <1>5, <1>6, <1>7, <1>8, <1>9, <1>10

(* A context step keeps what is known of every key: no parameters change    *)
(* and a secret moves only to a context with the parameters it had.         *)
Grown ==
  /\ AllContexts \subseteq AllContexts'
  /\ ctxParams' \in [Ctxs -> Params \cup {None}]
  /\ sk' \in [Tags -> Ctxs \cup {None}]
  /\ \A c \in Ctxs : ctxParams[c] /= None => ctxParams'[c] = ctxParams[c]
  /\ \A t \in Tags : sk[t] /= None =>
       sk'[t] /= None /\ ctxParams'[sk'[t]] = ctxParams[sk[t]]

(* The keys of a map stay the keys of their tag in a context step.          *)
LEMMA OwnKeysGrow ==
  ASSUME TypeOK, ContextsOK(AllContexts, ctxParams, sk), Grown,
         NEW S, NEW m \in MapOf(S, EvalKey), NEW t \in Tags, OwnKeys(m, t, sk, ctxParams)
  PROVE  OwnKeys(m, t, sk', ctxParams')
PROOF
<1> SUFFICES ASSUME NEW i \in KeysAt(m)
             PROVE  m[i].sk = t /\ sk'[t] /= None /\ ctxParams'[m[i].ctx] = ctxParams'[sk'[t]]
  BY DEF OwnKeys
<1>1. m[i] \in EvalKey
  BY DEF KeysAt, MapOf
<1>2. m[i].sk = t /\ sk[t] /= None /\ ctxParams[m[i].ctx] = ctxParams[sk[t]]
  BY DEF OwnKeys
<1>3. m[i].ctx \in Ctxs
  BY <1>1 DEF EvalKey
<1> QED
  BY <1>2, <1>3 DEF Grown, ContextsOK

(* The same for stored keys.                                                *)
LEMMA OwnStoredGrow ==
  ASSUME TypeOK, Grown, NEW S, NEW m \in MapOf(S, StoredKey), NEW t \in Tags,
         OwnStored(m, t, sk, ctxParams)
  PROVE  OwnStored(m, t, sk', ctxParams')
BY DEF OwnStored, Grown

(* A context step that touches neither registry keeps their invariants.     *)
LEMMA GrownKeeps ==
  ASSUME IInv, Grown,
         UNCHANGED <<evalMultKeyMap, evalAutomorphismKeyMap, maps, held, stream, granted>>
  PROVE  MultOK' /\ AutoOK' /\ HeldOK' /\ StreamOK' /\ GrantedKeysStay'
PROOF
<1> USE DEF IInv
<1>1. MultOK'
  <2> SUFFICES ASSUME NEW t \in Tags, evalMultKeyMap[t] /= None
               PROVE  /\ Filled("mult", evalMultKeyMap[t])
                      /\ OwnKeys(evalMultKeyMap[t], t, sk', ctxParams')
                      /\ ~KeepReleased => AllIn(evalMultKeyMap[t], AllContexts')
    BY DEF MultOK
  <2>1. evalMultKeyMap[t] \in MapOf(Degrees, EvalKey)
    BY DEF TypeOK
  <2>2. OwnKeys(evalMultKeyMap[t], t, sk', ctxParams')
    BY <2>1, OwnKeysGrow DEF MultOK
  <2> QED
    BY <2>2 DEF MultOK, AllIn, Grown
<1>2. AutoOK'
  <2> SUFFICES ASSUME NEW t \in Tags, evalAutomorphismKeyMap[t] /= None
               PROVE  /\ Filled("auto", maps[evalAutomorphismKeyMap[t]])
                      /\ OwnKeys(maps[evalAutomorphismKeyMap[t]], t, sk', ctxParams')
                      /\ ~KeepReleased => AllIn(maps[evalAutomorphismKeyMap[t]], AllContexts')
    BY DEF AutoOK
  <2>1. maps[evalAutomorphismKeyMap[t]] \in MapOf(Indices, EvalKey)
    BY DEF TypeOK
  <2>2. OwnKeys(maps[evalAutomorphismKeyMap[t]], t, sk', ctxParams')
    BY <2>1, OwnKeysGrow DEF AutoOK
  <2> QED
    BY <2>2 DEF AutoOK, AllIn, Grown
<1>3. HeldOK'
  <2> SUFFICES ASSUME held /= None
               PROVE  Filled("auto", maps[held])
                      /\ \E t \in Tags : OwnKeys(maps[held], t, sk', ctxParams')
    BY DEF HeldOK
  <2>1. maps[held] \in MapOf(Indices, EvalKey)
    BY DEF TypeOK
  <2>2. PICK t \in Tags : OwnKeys(maps[held], t, sk, ctxParams)
    BY DEF HeldOK
  <2>3. OwnKeys(maps[held], t, sk', ctxParams')
    BY <2>1, <2>2, OwnKeysGrow
  <2> QED
    BY <2>3 DEF HeldOK
<1>4. StreamOK'
  <2> SUFFICES ASSUME stream /= None, NEW t \in Tags, stream.keys[t] /= None
               PROVE  OwnStored(stream.keys[t], t, sk', ctxParams')
    BY DEF StreamOK
  <2>1. stream.keys[t] \in MapOf(Slots(stream.kind), StoredKey)
    BY DEF StreamOK
  <2>2. OwnStored(stream.keys[t], t, sk, ctxParams)
    BY DEF StreamOK
  <2> QED
    BY <2>1, <2>2, OwnStoredGrow
<1>5. GrantedKeysStay'
  BY DEF GrantedKeysStay, GetExistingEvalAutomorphismKeyIndices, Registered
<1> QED
  BY <1>1, <1>2, <1>3, <1>4, <1>5

(* No two tags share a map object, since no map is empty.                   *)
LEMMA MapsNotShared ==
  ASSUME IInv
  PROVE  \A t, u \in Tags :
           (evalAutomorphismKeyMap[t] /= None /\ evalAutomorphismKeyMap[t] = evalAutomorphismKeyMap[u])
           => t = u
BY DEF IInv, AutoOK, Filled, OwnKeys

(* InsertEvalAutomorphismKey keeps every registered key where it is, makes  *)
(* the inserted indices available and touches no other tag.                 *)
LEMMA InsertKeeps ==
  ASSUME IInv, NEW t \in Tags, NEW M, NEW content \in MapOf(Indices, EvalKey),
         OwnKeys(content, t, sk, ctxParams),
         ~KeepReleased => AllIn(content, AllContexts),
         M = NewMap \/ (held /= None /\ M = {held} /\ content = maps[held]),
         InsertEvalAutomorphismKey(M, content, t),
         UNCHANGED <<AllContexts, ctxParams, sk, held>>
  PROVE  /\ evalAutomorphismKeyMap' \in [Tags -> MapIds \cup {None}]
         /\ maps' \in [MapIds -> MapOf(Indices, EvalKey)]
         /\ AutoOK' /\ HeldOK'
         /\ \A u \in Tags : \A i \in KeysAt(Registered(u)) : Registered(u)'[i] = Registered(u)[i]
         /\ KeysAt(content) \subseteq GetExistingEvalAutomorphismKeyIndices(t)'
PROOF
<1> USE DEF IInv
<1> DEFINE E == GetExistingEvalAutomorphismKeyIndices(t)
<1>t. /\ evalAutomorphismKeyMap \in [Tags -> MapIds \cup {None}]
      /\ maps \in [MapIds -> MapOf(Indices, EvalKey)]
      /\ held \in MapIds \cup {None}
      /\ None \notin MapIds
  BY NoneAssumption DEF TypeOK
<1>k. \A u \in Tags : KeysAt(Registered(u)) \subseteq Indices
  BY <1>t DEF KeysAt, Registered, Nothing, MapOf
<1>1. CASE KeysAt(content) = {}
  <2>1. UNCHANGED <<evalAutomorphismKeyMap, maps>>
    BY <1>1 DEF InsertEvalAutomorphismKey
  <2>2. AutoOK' /\ HeldOK'
    BY <2>1 DEF AutoOK, HeldOK
  <2> QED
    BY <1>1, <1>t, <2>1, <2>2 DEF Registered
<1>2. CASE KeysAt(content) /= {} /\ E = {}
  <2>1. PICK m \in M :
          /\ evalAutomorphismKeyMap' = [evalAutomorphismKeyMap EXCEPT ![t] = m]
          /\ maps' = Sweep([maps EXCEPT ![m] = content], evalAutomorphismKeyMap', held)
    BY <1>2 DEF InsertEvalAutomorphismKey
  <2>2. evalAutomorphismKeyMap[t] = None
    BY <1>2 DEF AutoOK, Filled, GetExistingEvalAutomorphismKeyIndices, Registered
  <2>3. m \in MapIds /\ ((m \in Unregistered /\ m /= held) \/ (m = held /\ content = maps[held]))
    BY <1>t DEF NewMap, OneOf, Unregistered
  <2>4. evalAutomorphismKeyMap' \in [Tags -> MapIds \cup {None}]
    BY <1>t, <2>1, <2>3
  <2>5. \A n \in MapIds :
          maps'[n] = IF n = held \/ \E u \in Tags : evalAutomorphismKeyMap'[u] = n
                     THEN (IF n = m THEN content ELSE maps[n]) ELSE Nothing(Indices)
    BY <1>t, <2>1, <2>3 DEF Sweep
  <2>6. maps' \in [MapIds -> MapOf(Indices, EvalKey)]
    <3>1. maps' = [n \in MapIds |-> maps'[n]]
      BY <2>1 DEF Sweep
    <3>2. Nothing(Indices) \in MapOf(Indices, EvalKey)
      BY DEF Nothing, MapOf
    <3> QED
      BY <1>t, <2>5, <3>1, <3>2
  <2>7. evalAutomorphismKeyMap'[t] = m /\ maps'[m] = content
    BY <1>t, <2>1, <2>3, <2>5
  <2>8. ASSUME NEW u \in Tags, u /= t, evalAutomorphismKeyMap[u] /= None
        PROVE  /\ evalAutomorphismKeyMap'[u] = evalAutomorphismKeyMap[u]
               /\ maps'[evalAutomorphismKeyMap[u]] = maps[evalAutomorphismKeyMap[u]]
    <3>1. evalAutomorphismKeyMap'[u] = evalAutomorphismKeyMap[u]
      BY <1>t, <2>1, <2>8
    <3>2. evalAutomorphismKeyMap[u] \in MapIds
      BY <1>t, <2>8
    <3>3. evalAutomorphismKeyMap[u] = m => content = maps[m]
      BY <2>3 DEF Unregistered
    <3> QED
      BY <2>5, <3>1, <3>2, <3>3
  <2>9. held /= None => maps'[held] = maps[held]
    BY <1>t, <2>3, <2>5
  <2>10. ASSUME NEW u \in Tags, u /= t
         PROVE  Registered(u)' = Registered(u)
    <3>1. evalAutomorphismKeyMap'[u] = evalAutomorphismKeyMap[u]
      BY <1>t, <2>1, <2>10
    <3> QED
      BY <2>8, <2>10, <3>1 DEF Registered
  <2>11. AutoOK'
    <3> SUFFICES ASSUME NEW u \in Tags, evalAutomorphismKeyMap'[u] /= None
                 PROVE  /\ Filled("auto", maps'[evalAutomorphismKeyMap'[u]])
                        /\ OwnKeys(maps'[evalAutomorphismKeyMap'[u]], u, sk, ctxParams)
                        /\ ~KeepReleased => AllIn(maps'[evalAutomorphismKeyMap'[u]], AllContexts)
      BY DEF AutoOK
    <3>1. CASE u = t
      BY <1>2, <2>7, <3>1 DEF Filled
    <3>2. CASE u /= t
      <4>1. evalAutomorphismKeyMap[u] /= None
        BY <1>t, <2>1, <3>2
      <4> QED
        BY <2>8, <3>2, <4>1 DEF AutoOK
    <3> QED
      BY <3>1, <3>2
  <2>12. HeldOK'
    BY <2>9 DEF HeldOK
  <2>13. Registered(t)' = content
    BY <1>t, <2>3, <2>7 DEF Registered
  <2>14. KeysAt(Registered(t)) = {}
    BY <1>2 DEF GetExistingEvalAutomorphismKeyIndices
  <2> QED
    BY <2>4, <2>6, <2>10, <2>11, <2>12, <2>13, <2>14 DEF GetExistingEvalAutomorphismKeyIndices
<1>3. CASE KeysAt(content) /= {} /\ E /= {}
  <2> DEFINE r == evalAutomorphismKeyMap[t]
  <2>1. /\ maps' = [maps EXCEPT ![r] = Merged(maps[r], content)]
        /\ evalAutomorphismKeyMap' = evalAutomorphismKeyMap
    BY <1>3 DEF InsertEvalAutomorphismKey
  <2>2. r /= None
    BY <1>3 DEF GetExistingEvalAutomorphismKeyIndices, Registered, KeysAt, Nothing
  <2>3. r \in MapIds
    BY <1>t, <2>2
  <2>4. maps[r] \in MapOf(Indices, EvalKey)
    BY <1>t, <2>3
  <2> DEFINE new == Merged(maps[r], content)
  <2>5. new \in MapOf(Indices, EvalKey)
    BY <2>4 DEF Merged, MapOf
  <2>6. \A i \in Indices : new[i] = IF maps[r][i] /= None THEN maps[r][i] ELSE content[i]
    BY DEF Merged
  <2>7. DOMAIN new = Indices /\ DOMAIN content = Indices /\ DOMAIN maps[r] = Indices
    BY <2>4, <2>5 DEF MapOf
  <2>8. KeysAt(new) = KeysAt(maps[r]) \cup KeysAt(content)
    BY <2>6, <2>7 DEF KeysAt
  <2>9. \A i \in KeysAt(new) : (i \in KeysAt(maps[r]) /\ new[i] = maps[r][i])
                               \/ (i \in KeysAt(content) /\ new[i] = content[i])
    BY <2>6, <2>7 DEF KeysAt
  <2>10. /\ Filled("auto", maps[r]) /\ OwnKeys(maps[r], t, sk, ctxParams)
         /\ ~KeepReleased => AllIn(maps[r], AllContexts)
    BY <2>2 DEF AutoOK
  <2>11. /\ Filled("auto", new) /\ OwnKeys(new, t, sk, ctxParams)
         /\ ~KeepReleased => AllIn(new, AllContexts)
    <3> HIDE DEF new, r
    <3> QED
      BY <2>8, <2>9, <2>10 DEF Filled, OwnKeys, AllIn
  <2>12. maps' \in [MapIds -> MapOf(Indices, EvalKey)]
    BY <1>t, <2>1, <2>3, <2>5
  <2>13. maps'[r] = new /\ \A n \in MapIds : n /= r => maps'[n] = maps[n]
    BY <1>t, <2>1, <2>3
  <2>14. \A u \in Tags : u /= t /\ evalAutomorphismKeyMap[u] /= None =>
            maps'[evalAutomorphismKeyMap[u]] = maps[evalAutomorphismKeyMap[u]]
    BY <1>t, <2>2, <2>13, MapsNotShared
  <2>15. AutoOK'
    <3> SUFFICES ASSUME NEW u \in Tags, evalAutomorphismKeyMap[u] /= None
                 PROVE  /\ Filled("auto", maps'[evalAutomorphismKeyMap[u]])
                        /\ OwnKeys(maps'[evalAutomorphismKeyMap[u]], u, sk, ctxParams)
                        /\ ~KeepReleased => AllIn(maps'[evalAutomorphismKeyMap[u]], AllContexts)
      BY <2>1 DEF AutoOK
    <3> HIDE DEF new
    <3>1. CASE u = t
      BY <2>11, <2>13, <3>1
    <3>2. CASE u /= t
      BY <2>14, <3>2 DEF AutoOK
    <3> QED
      BY <3>1, <3>2
  <2>16. HeldOK'
    <3> HIDE DEF new
    <3>1. CASE held = r
      BY <2>11, <2>13, <3>1 DEF HeldOK
    <3>2. CASE held /= r
      BY <1>t, <2>13, <3>2 DEF HeldOK
    <3> QED
      BY <3>1, <3>2
  <2>17. Registered(t)' = new /\ Registered(t) = maps[r]
    BY <2>1, <2>2, <2>13 DEF Registered
  <2>18. \A u \in Tags : u /= t => Registered(u)' = Registered(u)
    BY <2>1, <2>14 DEF Registered
  <2>19. \A i \in KeysAt(maps[r]) : new[i] = maps[r][i]
    BY <2>6, <2>7 DEF KeysAt
  <2>20. \A u \in Tags : \A i \in KeysAt(Registered(u)) : Registered(u)'[i] = Registered(u)[i]
    <3> HIDE DEF new, r
    <3> QED
      BY <2>17, <2>18, <2>19
  <2>21. KeysAt(content) \subseteq GetExistingEvalAutomorphismKeyIndices(t)'
    BY <2>8, <2>17 DEF GetExistingEvalAutomorphismKeyIndices
  <2> QED
    BY <1>t, <2>1, <2>12, <2>15, <2>16, <2>20, <2>21
<1> QED
  BY <1>1, <1>2, <1>3

-----------------------------------------------------------------------------
(* No registered key is exchanged in a step: what KeysNotReplaced says, and *)
(* of all calls.                                                            *)
NoReplacement ==
  \A t \in Tags :
    /\ \A i \in KeysAt(Registered(t)) : Registered(t)'[i] \in {Registered(t)[i], None}
    /\ (evalMultKeyMap[t] /= None /\ evalMultKeyMap'[t] /= None)
         => evalMultKeyMap'[t] = evalMultKeyMap[t]

(* A step that leaves both registries alone replaces nothing.               *)
LEMMA RegistriesUnchanged ==
  ASSUME UNCHANGED <<evalMultKeyMap, evalAutomorphismKeyMap, maps>>
  PROVE  NoReplacement
BY DEF NoReplacement, Registered

(* Loading nothing is fine.                                                 *)
LEMMA IdleLoading == Idle /\ loading' = loading => LoadingOK'
BY DEF Idle, LoadingOK

(* Removing entries, or pointers of the application, destroys only maps     *)
(* nobody can reach.                                                        *)
LEMMA SweepKeeps ==
  ASSUME IInv,
         evalAutomorphismKeyMap' \in [Tags -> MapIds \cup {None}],
         \A t \in Tags : evalAutomorphismKeyMap'[t] \in {evalAutomorphismKeyMap[t], None},
         NEW m \in MapIds \cup {None}, held' = m,
         NEW f \in [MapIds -> MapOf(Indices, EvalKey)],
         \A t \in Tags : evalAutomorphismKeyMap[t] /= None =>
           f[evalAutomorphismKeyMap[t]] = maps[evalAutomorphismKeyMap[t]],
         maps' = Sweep(f, evalAutomorphismKeyMap', m)
  PROVE  /\ maps' \in [MapIds -> MapOf(Indices, EvalKey)]
         /\ m /= None => maps'[m] = f[m]
         /\ \A t \in Tags : evalAutomorphismKeyMap'[t] /= None =>
              Registered(t)' = Registered(t)
         /\ \A t \in Tags : evalAutomorphismKeyMap'[t] = None => Registered(t)' = Nothing(Indices)
PROOF
<1>1. \A n \in MapIds : maps'[n] = IF n = m \/ \E t \in Tags : evalAutomorphismKeyMap'[t] = n
                                   THEN f[n] ELSE Nothing(Indices)
  BY DEF Sweep
<1>2. Nothing(Indices) \in MapOf(Indices, EvalKey)
  BY DEF Nothing, MapOf
<1>3. maps' \in [MapIds -> MapOf(Indices, EvalKey)]
  <2>1. maps' = [n \in MapIds |-> maps'[n]]
    BY DEF Sweep
  <2> QED
    BY <1>1, <1>2, <2>1
<1>4. m /= None => maps'[m] = f[m]
  BY <1>1
<1>5. ASSUME NEW t \in Tags, evalAutomorphismKeyMap'[t] /= None
      PROVE  Registered(t)' = Registered(t)
  <2>1. evalAutomorphismKeyMap'[t] = evalAutomorphismKeyMap[t] /\ evalAutomorphismKeyMap'[t] \in MapIds
    BY <1>5
  <2>2. maps'[evalAutomorphismKeyMap'[t]] = f[evalAutomorphismKeyMap'[t]]
    BY <1>1, <2>1
  <2> QED
    BY <1>5, <2>1, <2>2 DEF Registered
<1>6. ASSUME NEW t \in Tags, evalAutomorphismKeyMap'[t] = None
      PROVE  Registered(t)' = Nothing(Indices)
  BY <1>6 DEF Registered
<1> QED
  BY <1>3, <1>4, <1>5, <1>6

(* An entry that is still there keeps its invariant when only entries are   *)
(* removed and the contexts stay; an empty registry needs no contexts.      *)
LEMMA RemovalKeeps ==
  ASSUME IInv, UNCHANGED <<ctxParams, sk>>,
         \A t \in Tags : evalAutomorphismKeyMap'[t] \in {evalAutomorphismKeyMap[t], None},
         \A t \in Tags : evalAutomorphismKeyMap'[t] /= None => Registered(t)' = Registered(t),
         AllContexts' = AllContexts \/ \A t \in Tags : evalAutomorphismKeyMap'[t] = None
  PROVE  AutoOK'
PROOF
<1> SUFFICES ASSUME NEW t \in Tags, evalAutomorphismKeyMap'[t] /= None
             PROVE  /\ Filled("auto", maps'[evalAutomorphismKeyMap'[t]])
                    /\ OwnKeys(maps'[evalAutomorphismKeyMap'[t]], t, sk, ctxParams)
                    /\ ~KeepReleased => AllIn(maps'[evalAutomorphismKeyMap'[t]], AllContexts')
  BY DEF AutoOK
<1>1. evalAutomorphismKeyMap[t] /= None /\ AllContexts' = AllContexts
  OBVIOUS
<1>2. maps'[evalAutomorphismKeyMap'[t]] = maps[evalAutomorphismKeyMap[t]]
  BY <1>1 DEF Registered
<1> QED
  BY <1>1, <1>2 DEF IInv, AutoOK

(* A step that leaves the automorphism registry alone keeps what is known   *)
(* of it.                                                                   *)
LEMMA AutoFrame ==
  ASSUME IInv, UNCHANGED <<AllContexts, ctxParams, sk, evalAutomorphismKeyMap, maps, held>>
  PROVE  AutoOK' /\ HeldOK'
BY DEF IInv, AutoOK, HeldOK

(* The same for the registry of relinearization keys and for the stream.    *)
LEMMA MultFrame ==
  ASSUME IInv, UNCHANGED <<AllContexts, ctxParams, sk, evalMultKeyMap>>
  PROVE  MultOK'
BY DEF IInv, MultOK
LEMMA StreamFrame ==
  ASSUME IInv, UNCHANGED <<ctxParams, sk, stream>>
  PROVE  StreamOK'
BY DEF IInv, StreamOK

(* Freshly generated keys belong to the secret and its context.             *)
LEMMA MadeKeys ==
  ASSUME IInv, NEW t \in Tags, HasKey(t), NEW g \in Gens, NEW S, NEW m,
         m = [i \in S |-> m[i]], \A i \in S : m[i] \in {NewKey(t, g), None}
  PROVE  /\ NewKey(t, g) \in EvalKey /\ NewKey(t, g) /= None
         /\ m \in MapOf(S, EvalKey)
         /\ OwnKeys(m, t, sk, ctxParams)
         /\ ~KeepReleased => AllIn(m, AllContexts)
PROOF
<1>1. sk[t] \in Ctxs /\ (~KeepReleased => sk[t] \in AllContexts)
  BY DEF IInv, TypeOK, HasKey, Live
<1>2. NewKey(t, g) \in EvalKey /\ NewKey(t, g) /= None
  BY <1>1, NoneAssumption DEF NewKey, EvalKey
<1>3. m \in MapOf(S, EvalKey)
  BY <1>2 DEF MapOf
<1>4. \A i \in KeysAt(m) : m[i] = NewKey(t, g)
  BY <1>3 DEF KeysAt, MapOf
<1> QED
  BY <1>1, <1>2, <1>3, <1>4 DEF OwnKeys, AllIn, NewKey, HasKey

-----------------------------------------------------------------------------
(* Steps on contexts and secret keys.                                       *)

(* A step that grows the contexts and touches nothing else.                 *)
LEMMA GrowingStep ==
  ASSUME IInv, Idle, Grown, AllContexts' \subseteq Ctxs,
         ContextsOK(AllContexts', ctxParams', sk'),
         UNCHANGED <<evalMultKeyMap, evalAutomorphismKeyMap, maps, held, stream,
                     loading, granted>>
  PROVE  IInv' /\ NoReplacement
PROOF
<1>1. TypeOK'
  BY DEF IInv, TypeOK, Grown
<1>2. MultOK' /\ AutoOK' /\ HeldOK' /\ StreamOK' /\ GrantedKeysStay'
  BY GrownKeeps
<1>3. LoadingOK'
  BY IdleLoading
<1> QED
  BY <1>1, <1>2, <1>3, RegistriesUnchanged DEF IInv

(* GenCryptoContext finds or makes one context.                             *)
LEMMA GenCryptoContextStep ==
  ASSUME IInv, NEW p \in Params, GenCryptoContext(p)
  PROVE  IInv' /\ NoReplacement
PROOF
<1>1. PICK c \in Ctxs : GetContext({p}, [q \in {p} |-> c])
  BY DEF GenCryptoContext
<1> DEFINE f == [q \in {p} |-> c]
<1>2. {p} \in SUBSET Params /\ f \in [{p} -> Ctxs]
  OBVIOUS
<1>3. GetContext({p}, f)
  BY <1>1
<1> HIDE DEF f
<1>4. /\ AllContexts' \subseteq Ctxs
      /\ AllContexts \subseteq AllContexts'
      /\ ctxParams' \in [Ctxs -> Params \cup {None}]
      /\ \A d \in Ctxs : ctxParams[d] /= None => ctxParams'[d] = ctxParams[d]
      /\ \A d \in AllContexts' : ctxParams'[d] /= None
      /\ \A d, e \in AllContexts' : ctxParams'[d] = ctxParams'[e] => d = e
  BY <1>2, <1>3, GetContextGrows DEF IInv
<1>5. sk' = sk /\ Idle /\ UNCHANGED <<evalMultKeyMap, evalAutomorphismKeyMap, maps, held, stream,
                     loading, granted>>
  BY DEF GenCryptoContext
<1>6. Grown
  BY <1>4, <1>5 DEF Grown, IInv, TypeOK, ContextsOK
<1>7. ContextsOK(AllContexts', ctxParams', sk')
  BY <1>4, <1>5 DEF IInv, TypeOK, ContextsOK
<1> QED
  BY <1>4, <1>5, <1>6, <1>7, GrowingStep

(* KeyGen makes the first secret with its tag.                              *)
LEMMA KeyGenStep ==
  ASSUME IInv, NEW t \in Tags, NEW c \in Ctxs, KeyGen(t, c)
  PROVE  IInv' /\ NoReplacement
PROOF
<1>1. /\ sk[t] = None /\ ctxParams[c] /= None /\ sk' = [sk EXCEPT ![t] = c]
      /\ UNCHANGED <<AllContexts, ctxParams>>
      /\ Idle
      /\ UNCHANGED <<evalMultKeyMap, evalAutomorphismKeyMap, maps, held, stream, loading, granted>>
  BY DEF KeyGen
<1>2. Grown
  BY <1>1 DEF Grown, IInv, TypeOK
<1>3. ContextsOK(AllContexts', ctxParams', sk')
  BY <1>1 DEF IInv, TypeOK, ContextsOK
<1>4. AllContexts' \subseteq Ctxs
  BY <1>1 DEF IInv, TypeOK
<1> QED
  BY <1>1, <1>2, <1>3, <1>4, GrowingStep

(* Loading a secret key moves it to the factory's context of its parameters.*)
LEMMA DeserializeSecretKeyStep ==
  ASSUME IInv, NEW t \in Tags, DeserializeSecretKey(t)
  PROVE  IInv' /\ NoReplacement
PROOF
<1> DEFINE p == ctxParams[sk[t]]
<1>1. p \in Params /\ sk[t] /= None /\ sk[t] \in Ctxs
  BY DEF DeserializeSecretKey, IInv, TypeOK, ContextsOK
<1>2. PICK c \in Ctxs : GetContext({p}, [q \in {p} |-> c]) /\ sk' = [sk EXCEPT ![t] = c]
  BY DEF DeserializeSecretKey
<1> HIDE DEF p
<1> DEFINE f == [q \in {p} |-> c]
<1>3. {p} \in SUBSET Params /\ f \in [{p} -> Ctxs] /\ f[p] = c
  BY <1>1
<1>4. GetContext({p}, f)
  BY <1>2
<1> HIDE DEF f
<1>5. /\ AllContexts' \subseteq Ctxs
      /\ AllContexts \subseteq AllContexts'
      /\ ctxParams' \in [Ctxs -> Params \cup {None}]
      /\ \A d \in Ctxs : ctxParams[d] /= None => ctxParams'[d] = ctxParams[d]
      /\ ctxParams'[c] = p
      /\ \A d \in AllContexts' : ctxParams'[d] /= None
      /\ \A d, e \in AllContexts' : ctxParams'[d] = ctxParams'[e] => d = e
  BY <1>3, <1>4, GetContextGrows DEF IInv
<1>6. Idle /\ UNCHANGED <<evalMultKeyMap, evalAutomorphismKeyMap, maps, held, stream,
                     loading, granted>>
  BY DEF DeserializeSecretKey
<1>7. sk' \in [Tags -> Ctxs \cup {None}]
  BY <1>2 DEF IInv, TypeOK
<1>8. None \notin Params \cup Ctxs
  BY NoneAssumption
<1>9. \A u \in Tags : sk[u] /= None =>
         sk'[u] /= None /\ ctxParams'[sk'[u]] = ctxParams[sk[u]]
  BY <1>1, <1>2, <1>5, <1>8 DEF p, IInv, TypeOK, ContextsOK
<1>10. Grown
  BY <1>5, <1>7, <1>9 DEF Grown
<1>11. \A u \in Tags : sk'[u] /= None => ctxParams'[sk'[u]] /= None
  BY <1>1, <1>2, <1>5, <1>8, <1>9 DEF IInv, TypeOK, ContextsOK
<1>12. ContextsOK(AllContexts', ctxParams', sk')
  BY <1>5, <1>11 DEF ContextsOK
<1> QED
  BY <1>5, <1>6, <1>10, <1>12, GrowingStep

(* Emptying both registries, with or without the factory.                   *)
LEMMA ClearingStep ==
  ASSUME IInv, Idle, ClearRegistries, AllContexts' \subseteq AllContexts,
         UNCHANGED <<ctxParams, sk, held, stream, loading>>
  PROVE  IInv' /\ NoReplacement
PROOF
<1> USE DEF IInv
<1>1. /\ evalMultKeyMap' = [t \in Tags |-> None]
      /\ evalAutomorphismKeyMap' = [t \in Tags |-> None]
      /\ maps' = Sweep(maps, evalAutomorphismKeyMap', held)
      /\ granted' = [t \in Tags |-> {}]
  BY DEF ClearRegistries
<1>2. held \in MapIds \cup {None} /\ maps \in [MapIds -> MapOf(Indices, EvalKey)]
  BY DEF TypeOK
<1>3. /\ maps' \in [MapIds -> MapOf(Indices, EvalKey)]
      /\ held /= None => maps'[held] = maps[held]
      /\ \A t \in Tags : Registered(t)' = Nothing(Indices)
  <2>1. \A t \in Tags : evalAutomorphismKeyMap'[t] = None
    BY <1>1
  <2>2. evalAutomorphismKeyMap' \in [Tags -> MapIds \cup {None}]
    BY <1>1
  <2> QED
    BY <1>1, <1>2, <2>1, <2>2, SweepKeeps
<1>4. TypeOK'
  BY <1>1, <1>2, <1>3 DEF TypeOK
<1>5. ContextsOK(AllContexts', ctxParams', sk')
  BY DEF ContextsOK
<1>6. MultOK' /\ AutoOK'
  BY <1>1 DEF MultOK, AutoOK
<1>7. HeldOK'
  BY <1>3 DEF HeldOK
<1>8. StreamOK' /\ LoadingOK'
  BY StreamFrame, IdleLoading
<1>9. GrantedKeysStay'
  BY <1>1 DEF GrantedKeysStay
<1>10. NoReplacement
  <2>1. \A t \in Tags : KeysAt(Registered(t)) \subseteq Indices
    BY DEF TypeOK, Registered, KeysAt, Nothing, MapOf
  <2> QED
    BY <1>1, <1>3, <2>1 DEF NoReplacement, Nothing
<1> QED
  BY <1>4, <1>5, <1>6, <1>7, <1>8, <1>9, <1>10

(* All steps on contexts.                                                   *)
LEMMA ContextSteps == IInv /\ Contexts => IInv' /\ NoReplacement
PROOF
<1> SUFFICES ASSUME IInv, Contexts PROVE IInv' /\ NoReplacement
  OBVIOUS
<1>1. CASE \E p \in Params : GenCryptoContext(p)
  BY <1>1, GenCryptoContextStep
<1>2. CASE \E t \in Tags, c \in Ctxs : KeyGen(t, c)
  BY <1>2, KeyGenStep
<1>3. CASE \E t \in Tags : DeserializeSecretKey(t)
  BY <1>3, DeserializeSecretKeyStep
<1>4. CASE ClearStaticMapsAndVectors
  BY <1>4, ClearingStep DEF ClearStaticMapsAndVectors, contexts
<1>5. CASE ReleaseAllContexts
  <2>1. Idle /\ AllContexts' = {} /\ UNCHANGED <<ctxParams, sk, held, stream, loading>>
    BY <1>5 DEF ReleaseAllContexts
  <2>2. CASE AllContexts /= {}
    BY <1>5, <2>1, <2>2, ClearingStep DEF ReleaseAllContexts
  <2>3. CASE AllContexts = {}
    <3>1. UNCHANGED <<AllContexts, evalMultKeyMap, evalAutomorphismKeyMap, maps, granted>>
      BY <1>5, <2>1, <2>3 DEF ReleaseAllContexts
    <3>2. Grown
      BY <2>1, <3>1 DEF Grown, IInv, TypeOK, ContextsOK
    <3>3. ContextsOK(AllContexts', ctxParams', sk')
      BY <2>1, <3>1 DEF IInv
    <3> QED
      BY <2>1, <3>1, <3>2, <3>3, GrowingStep
  <2> QED
    BY <2>2, <2>3
<1> QED
  BY <1>1, <1>2, <1>3, <1>4, <1>5 DEF Contexts

-----------------------------------------------------------------------------
(* Steps on relinearization keys.                                           *)

(* What an entry must satisfy.                                              *)
VectorOK(m, t) ==
  /\ m \in MapOf(Degrees, EvalKey)
  /\ Filled("mult", m)
  /\ OwnKeys(m, t, sk, ctxParams)
  /\ ~KeepReleased => AllIn(m, AllContexts)

(* A step that removes entries and fills vacant ones.                       *)
LEMMA VectorsStep ==
  ASSUME IInv, LoadingOK',
         UNCHANGED <<AllContexts, ctxParams, sk, evalAutomorphismKeyMap, maps, held, stream, granted>>,
         evalMultKeyMap' = [t \in Tags |-> evalMultKeyMap'[t]],
         \A t \in Tags : \/ evalMultKeyMap'[t] = None
                         \/ evalMultKeyMap'[t] = evalMultKeyMap[t]
                         \/ evalMultKeyMap[t] = None /\ VectorOK(evalMultKeyMap'[t], t)
  PROVE  IInv' /\ NoReplacement
PROOF
<1> USE DEF IInv
<1>1. evalMultKeyMap' \in [Tags -> MapOf(Degrees, EvalKey) \cup {None}]
  <2>1. \A t \in Tags : evalMultKeyMap'[t] \in MapOf(Degrees, EvalKey) \cup {None}
    BY DEF VectorOK, TypeOK
  <2> QED
    BY <2>1
<1>2. TypeOK'
  BY <1>1 DEF TypeOK
<1>3. MultOK'
  BY DEF MultOK, VectorOK
<1>4. ContextsOK(AllContexts', ctxParams', sk')
  OBVIOUS
<1>5. AutoOK' /\ HeldOK' /\ StreamOK'
  BY AutoFrame, StreamFrame
<1>6. \A t \in Tags : Registered(t)' = Registered(t)
  BY DEF Registered
<1>7. GrantedKeysStay'
  BY <1>6 DEF GrantedKeysStay, GetExistingEvalAutomorphismKeyIndices
<1>8. NoReplacement
  BY <1>6 DEF NoReplacement
<1> QED
  BY <1>2, <1>3, <1>4, <1>5, <1>7, <1>8

(* Inserting a good vector, or none if the tag has one.                     *)
LEMMA InsertMultStep ==
  ASSUME IInv, LoadingOK', NEW t \in Tags, NEW m, VectorOK(m, t), InsertMult(m, t),
         UNCHANGED <<AllContexts, ctxParams, sk, evalAutomorphismKeyMap, maps, held, stream, granted>>
  PROVE  IInv' /\ NoReplacement
PROOF
<1>1. evalMultKeyMap = [u \in Tags |-> evalMultKeyMap[u]]
  BY DEF IInv, TypeOK
<1>2. CASE evalMultKeyMap[t] = None
  BY <1>1, <1>2, VectorsStep DEF InsertMult
<1>3. CASE evalMultKeyMap[t] /= None
  BY <1>1, <1>3, VectorsStep DEF InsertMult
<1> QED
  BY <1>2, <1>3

(* A generated vector whose first key is there is a good entry.             *)
LEMMA MadeVector ==
  ASSUME IInv, NEW t \in Tags, HasKey(t), NEW g \in Gens, NEW m,
         m = [i \in Degrees |-> m[i]], m[1] = NewKey(t, g),
         \A i \in Degrees : m[i] \in {NewKey(t, g), None}
  PROVE  VectorOK(m, t)
BY MadeKeys DEF VectorOK, Filled

(* All steps on relinearization keys.                                       *)
LEMMA RelinearizationSteps == IInv /\ Relinearization => IInv' /\ NoReplacement
PROOF
<1> SUFFICES ASSUME IInv, Relinearization PROVE IInv' /\ NoReplacement
  OBVIOUS
<1> USE DEF MultUnchanged, contexts
<1>d. 1 \in Degrees
  BY RelinAssumption DEF Degrees
<1>0. evalMultKeyMap = [u \in Tags |-> evalMultKeyMap[u]]
  BY DEF IInv, TypeOK
<1>1. ASSUME NEW t \in Tags, NEW g \in Gens, EvalMultKeyGen(t, g)
      PROVE  IInv' /\ NoReplacement
  <2> DEFINE m == [i \in Degrees |-> IF i = 1 THEN NewKey(t, g) ELSE None]
  <2>1. VectorOK(m, t)
    BY <1>1, <1>d, MadeVector DEF EvalMultKeyGen
  <2>2. LoadingOK'
    BY <1>1, IdleLoading DEF EvalMultKeyGen
  <2>3. InsertMult(m, t)
    BY <1>1 DEF EvalMultKeyGen, InsertMult
  <2> QED
    BY <1>1, <2>1, <2>2, <2>3, InsertMultStep DEF EvalMultKeyGen
<1>2. ASSUME NEW t \in Tags, NEW g \in Gens, EvalMultKeysGen(t, g)
      PROVE  IInv' /\ NoReplacement
  <2> DEFINE m == [i \in Degrees |-> NewKey(t, g)]
  <2>1. VectorOK(m, t)
    BY <1>2, <1>d, MadeVector DEF EvalMultKeysGen
  <2>2. LoadingOK'
    BY <1>2, IdleLoading DEF EvalMultKeysGen
  <2>3. InsertMult(m, t)
    BY <1>2 DEF EvalMultKeysGen, InsertMult
  <2> QED
    BY <1>2, <2>1, <2>2, <2>3, InsertMultStep DEF EvalMultKeysGen
<1>3. ASSUME NEW t \in Tags, NEW g \in Gens, InsertEvalMultKey(t, g)
      PROVE  IInv' /\ NoReplacement
  <2> DEFINE m == [i \in Degrees |-> IF i = 1 THEN NewKey(t, g) ELSE None]
  <2>1. VectorOK(m, t)
    BY <1>3, <1>d, MadeVector DEF InsertEvalMultKey
  <2>2. LoadingOK'
    BY <1>3, IdleLoading DEF InsertEvalMultKey
  <2> QED
    BY <1>3, <2>1, <2>2, InsertMultStep DEF InsertEvalMultKey
<1>4. CASE ClearEvalMultKeys
  BY <1>4, IdleLoading, VectorsStep DEF ClearEvalMultKeys
<1>5. ASSUME NEW t \in Tags \cup {EmptyTag}, ClearEvalMultKeysOfTag(t)
      PROVE  IInv' /\ NoReplacement
  BY <1>5, IdleLoading, VectorsStep DEF ClearEvalMultKeysOfTag
<1>6. ASSUME NEW c \in Ctxs, ClearEvalMultKeysOfContext(c)
      PROVE  IInv' /\ NoReplacement
  BY <1>6, IdleLoading, VectorsStep DEF ClearEvalMultKeysOfContext
<1> QED
  BY <1>1, <1>2, <1>3, <1>4, <1>5, <1>6 DEF Relinearization

-----------------------------------------------------------------------------
(* Steps on automorphism keys.                                              *)

(* A step that inserts a good map of the tag's own keys.                    *)
LEMMA InsertAutoStep ==
  ASSUME IInv, LoadingOK', NEW t \in Tags, NEW M, NEW content \in MapOf(Indices, EvalKey),
         OwnKeys(content, t, sk, ctxParams),
         ~KeepReleased => AllIn(content, AllContexts),
         M = NewMap \/ (held /= None /\ M = {held} /\ content = maps[held]),
         InsertEvalAutomorphismKey(M, content, t),
         UNCHANGED <<AllContexts, ctxParams, sk, held, evalMultKeyMap, stream>>,
         granted' \in [Tags -> SUBSET Indices],
         \A u \in Tags : granted'[u] \subseteq
            granted[u] \cup GetExistingEvalAutomorphismKeyIndices(u) \cup (IF u = t THEN KeysAt(content) ELSE {})
  PROVE  IInv' /\ NoReplacement
PROOF
<1> USE DEF IInv
<1>1. /\ evalAutomorphismKeyMap' \in [Tags -> MapIds \cup {None}]
      /\ maps' \in [MapIds -> MapOf(Indices, EvalKey)]
      /\ AutoOK' /\ HeldOK'
      /\ \A u \in Tags : \A i \in KeysAt(Registered(u)) : Registered(u)'[i] = Registered(u)[i]
      /\ KeysAt(content) \subseteq GetExistingEvalAutomorphismKeyIndices(t)'
  BY InsertKeeps
<1>2. TypeOK'
  BY <1>1 DEF TypeOK
<1>3. ContextsOK(AllContexts', ctxParams', sk')
  OBVIOUS
<1>4. MultOK' /\ StreamOK'
  BY MultFrame, StreamFrame
<1>5. ASSUME NEW u \in Tags
      PROVE  GetExistingEvalAutomorphismKeyIndices(u) \subseteq GetExistingEvalAutomorphismKeyIndices(u)'
  <2>1. \A i \in KeysAt(Registered(u)) : i \in Indices /\ Registered(u)[i] /= None
    BY DEF TypeOK, Registered, KeysAt, Nothing, MapOf
  <2>2. DOMAIN Registered(u)' = Indices
    BY <1>1 DEF Registered, Nothing, MapOf
  <2> QED
    BY <1>1, <2>1, <2>2 DEF KeysAt, GetExistingEvalAutomorphismKeyIndices
<1>6. GrantedKeysStay'
  BY <1>1, <1>5 DEF GrantedKeysStay
<1>7. NoReplacement
  BY <1>1 DEF NoReplacement
<1> QED
  BY <1>1, <1>2, <1>3, <1>4, <1>6, <1>7

(* Key generation inserts what is missing, so all it promises is there.     *)
LEMMA EvalAtIndexKeyGenStep ==
  ASSUME IInv, NEW t \in Tags, NEW I \in SUBSET Indices, NEW g \in Gens,
         EvalAtIndexKeyGen(t, I, g)
  PROVE  IInv' /\ NoReplacement
PROOF
<1> DEFINE new == I \ GetExistingEvalAutomorphismKeyIndices(t)
           content == [i \in Indices |-> IF i \in new THEN NewKey(t, g) ELSE None]
<1>1. /\ Idle /\ HasKey(t)
      /\ InsertEvalAutomorphismKey(NewMap, content, t)
      /\ granted' = [granted EXCEPT ![t] = @ \cup I]
      /\ UNCHANGED <<AllContexts, ctxParams, sk, held, evalMultKeyMap, stream, loading>>
  BY DEF EvalAtIndexKeyGen, AutoUnchanged, contexts
<1>2. /\ NewKey(t, g) /= None
      /\ content \in MapOf(Indices, EvalKey)
      /\ OwnKeys(content, t, sk, ctxParams)
      /\ ~KeepReleased => AllIn(content, AllContexts)
  BY <1>1, MadeKeys
<1>3. KeysAt(content) = new
  BY <1>2 DEF KeysAt
<1>4. LoadingOK'
  BY <1>1, IdleLoading
<1>5. granted \in [Tags -> SUBSET Indices]
  BY DEF IInv, TypeOK
<1>6. granted' \in [Tags -> SUBSET Indices]
  BY <1>1, <1>5
<1>7. \A u \in Tags : granted'[u] \subseteq
        granted[u] \cup GetExistingEvalAutomorphismKeyIndices(u) \cup (IF u = t THEN KeysAt(content) ELSE {})
  <2> HIDE DEF content
  <2> QED
    BY <1>1, <1>3, <1>5
<1> HIDE DEF content
<1> QED
  BY <1>1, <1>2, <1>4, <1>6, <1>7, InsertAutoStep

(* The application takes hold of another map, or of none: the registries    *)
(* keep their maps.                                                         *)
LEMMA HoldStep ==
  ASSUME IInv, Idle, UNCHANGED <<AllContexts, ctxParams, sk, evalMultKeyMap,
                                 evalAutomorphismKeyMap, stream, loading, granted>>,
         NEW m \in MapIds \cup {None}, held' = m,
         NEW f \in [MapIds -> MapOf(Indices, EvalKey)],
         \A t \in Tags : evalAutomorphismKeyMap[t] /= None =>
           f[evalAutomorphismKeyMap[t]] = maps[evalAutomorphismKeyMap[t]],
         maps' = Sweep(f, evalAutomorphismKeyMap, m),
         m /= None => Filled("auto", f[m]) /\ \E t \in Tags : OwnKeys(f[m], t, sk, ctxParams)
  PROVE  IInv' /\ NoReplacement
PROOF
<1> USE DEF IInv
<1>1. evalAutomorphismKeyMap' \in [Tags -> MapIds \cup {None}]
  BY DEF TypeOK
<1>2. maps' = Sweep(f, evalAutomorphismKeyMap', m)
  OBVIOUS
<1>3. /\ maps' \in [MapIds -> MapOf(Indices, EvalKey)]
      /\ m /= None => maps'[m] = f[m]
      /\ \A t \in Tags : evalAutomorphismKeyMap'[t] /= None => Registered(t)' = Registered(t)
      /\ \A t \in Tags : evalAutomorphismKeyMap'[t] = None => Registered(t)' = Nothing(Indices)
  BY <1>1, <1>2, SweepKeeps
<1>4. \A t \in Tags : Registered(t)' = Registered(t)
  BY <1>3 DEF Registered
<1>5. TypeOK'
  BY <1>1, <1>3 DEF TypeOK
<1>6. AutoOK'
  BY <1>3, RemovalKeeps
<1>7. HeldOK'
  BY <1>3 DEF HeldOK
<1>8. MultOK' /\ StreamOK' /\ LoadingOK'
  BY MultFrame, StreamFrame, IdleLoading
<1>9. GrantedKeysStay'
  BY <1>4 DEF GrantedKeysStay, GetExistingEvalAutomorphismKeyIndices
<1>10. NoReplacement
  BY <1>4 DEF NoReplacement
<1> QED
  BY <1>5, <1>6, <1>7, <1>8, <1>9, <1>10

(* Holding a new map: it is in an object the registry does not use.         *)
LEMMA HoldNewStep ==
  ASSUME IInv, Idle, UNCHANGED <<AllContexts, ctxParams, sk, evalMultKeyMap,
                                 evalAutomorphismKeyMap, stream, loading, granted>>,
         NEW t \in Tags, NEW content \in MapOf(Indices, EvalKey),
         OwnKeys(content, t, sk, ctxParams), KeysAt(content) /= {},
         held' \in OneOf(Unregistered),
         maps' = Sweep([maps EXCEPT ![held'] = content], evalAutomorphismKeyMap, held')
  PROVE  IInv' /\ NoReplacement
PROOF
<1> DEFINE f == [maps EXCEPT ![held'] = content]
<1>1. held' \in Unregistered
  BY DEF OneOf
<1>2. held' \in MapIds /\ \A u \in Tags : evalAutomorphismKeyMap[u] /= held'
  BY <1>1 DEF Unregistered
<1>3. f \in [MapIds -> MapOf(Indices, EvalKey)] /\ f[held'] = content
  BY <1>2 DEF IInv, TypeOK
<1>4. \A u \in Tags : evalAutomorphismKeyMap[u] /= None =>
         f[evalAutomorphismKeyMap[u]] = maps[evalAutomorphismKeyMap[u]]
  BY <1>2 DEF IInv, TypeOK
<1>5. maps' = Sweep(f, evalAutomorphismKeyMap, held')
  OBVIOUS
<1>6. Filled("auto", f[held'])
  BY <1>3 DEF Filled
<1> HIDE DEF f
<1> QED
  BY <1>2, <1>3, <1>4, <1>5, <1>6, HoldStep

(* Erasing the entries of some tags.                                        *)
LEMMA EraseStep ==
  ASSUME IInv, Idle, NEW T, EraseAuto(T),
         UNCHANGED <<AllContexts, ctxParams, sk, evalMultKeyMap, held, stream, loading>>
  PROVE  IInv' /\ NoReplacement
PROOF
<1> USE DEF IInv
<1>1. /\ evalAutomorphismKeyMap' = [t \in Tags |-> IF t \in T THEN None ELSE evalAutomorphismKeyMap[t]]
      /\ maps' = Sweep(maps, evalAutomorphismKeyMap', held)
      /\ granted' = [t \in Tags |-> IF t \in T THEN {} ELSE granted[t]]
  BY DEF EraseAuto
<1>2. /\ evalAutomorphismKeyMap' \in [Tags -> MapIds \cup {None}]
      /\ \A t \in Tags : evalAutomorphismKeyMap'[t] \in {evalAutomorphismKeyMap[t], None}
      /\ held \in MapIds \cup {None} /\ maps \in [MapIds -> MapOf(Indices, EvalKey)]
  BY <1>1 DEF TypeOK
<1>3. /\ maps' \in [MapIds -> MapOf(Indices, EvalKey)]
      /\ held /= None => maps'[held] = maps[held]
      /\ \A t \in Tags : evalAutomorphismKeyMap'[t] /= None => Registered(t)' = Registered(t)
      /\ \A t \in Tags : evalAutomorphismKeyMap'[t] = None => Registered(t)' = Nothing(Indices)
  BY <1>1, <1>2, SweepKeeps
<1>4. TypeOK'
  BY <1>1, <1>2, <1>3 DEF TypeOK
<1>5. AutoOK'
  BY <1>2, <1>3, RemovalKeeps
<1>6. HeldOK'
  BY <1>3 DEF HeldOK
<1>7. MultOK' /\ StreamOK' /\ LoadingOK'
  BY MultFrame, StreamFrame, IdleLoading
<1>8. ASSUME NEW t \in Tags
      PROVE  granted'[t] \subseteq GetExistingEvalAutomorphismKeyIndices(t)'
  <2>1. CASE t \in T
    BY <1>1, <2>1
  <2>2. CASE t \notin T
    <3>1. Registered(t)' = Registered(t)
      BY <1>1, <1>3, <2>2 DEF Registered
    <3> QED
      BY <1>1, <2>2, <3>1 DEF GrantedKeysStay, GetExistingEvalAutomorphismKeyIndices
  <2> QED
    BY <2>1, <2>2
<1>9. GrantedKeysStay'
  BY <1>8 DEF GrantedKeysStay
<1>10. NoReplacement
  <2>1. \A t \in Tags : KeysAt(Registered(t)) \subseteq Indices
    BY DEF TypeOK, Registered, KeysAt, Nothing, MapOf
  <2> QED
    BY <1>3, <2>1 DEF NoReplacement, Nothing
<1> QED
  BY <1>4, <1>5, <1>6, <1>7, <1>9, <1>10

(* Inserting the map the application holds, under the tag of its keys.      *)
LEMMA InsertHeldMapStep ==
  ASSUME IInv, InsertHeldMap
  PROVE  IInv' /\ NoReplacement
PROOF
<1>1. PICK i \in Indices :
        /\ IsFirst(i, maps[held])
        /\ InsertEvalAutomorphismKey({held}, maps[held], maps[held][i].sk)
  BY DEF InsertHeldMap
<1>2. /\ Idle /\ held /= None /\ UNCHANGED <<held, granted>>
      /\ \A j \in KeysAt(maps[held]) : Live(maps[held][j].ctx)
      /\ UNCHANGED <<AllContexts, ctxParams, sk, evalMultKeyMap, stream, loading>>
  BY DEF InsertHeldMap, AutoUnchanged, contexts
<1>3. PICK t \in Tags : OwnKeys(maps[held], t, sk, ctxParams)
  BY <1>2 DEF IInv, HeldOK
<1>4. maps[held][i].sk = t
  BY <1>1, <1>3 DEF OwnKeys, IsFirst
<1>5. maps[held] \in MapOf(Indices, EvalKey)
  BY <1>2 DEF IInv, TypeOK
<1>6. ~KeepReleased => AllIn(maps[held], AllContexts)
  BY <1>2 DEF AllIn, Live
<1>7. LoadingOK'
  BY <1>2, IdleLoading
<1>8. granted' \in [Tags -> SUBSET Indices] /\ granted' = granted
  BY <1>2 DEF IInv, TypeOK
<1> QED
  BY <1>1, <1>2, <1>3, <1>4, <1>5, <1>6, <1>7, <1>8, InsertAutoStep

(* All steps on automorphism keys.                                          *)
LEMMA AutomorphismSteps == IInv /\ Automorphism => IInv' /\ NoReplacement
PROOF
<1> SUFFICES ASSUME IInv, Automorphism PROVE IInv' /\ NoReplacement
  OBVIOUS
<1>1. CASE \E t \in Tags, I \in SUBSET Indices, g \in Gens : EvalAtIndexKeyGen(t, I, g)
  BY <1>1, EvalAtIndexKeyGenStep
<1>2. ASSUME NEW t \in Tags, GetEvalAutomorphismKeyMapPtr(t)
      PROVE  IInv' /\ NoReplacement
  <2>1. /\ Idle /\ evalAutomorphismKeyMap[t] /= None /\ held' = evalAutomorphismKeyMap[t]
        /\ maps' = Sweep(maps, evalAutomorphismKeyMap, held')
        /\ UNCHANGED <<AllContexts, ctxParams, sk, evalMultKeyMap, evalAutomorphismKeyMap,
                       stream, loading, granted>>
    BY <1>2 DEF GetEvalAutomorphismKeyMapPtr, AutoUnchanged, contexts
  <2>2. held' \in MapIds \cup {None} /\ maps \in [MapIds -> MapOf(Indices, EvalKey)]
    BY <2>1 DEF IInv, TypeOK
  <2>3. Filled("auto", maps[held']) /\ OwnKeys(maps[held'], t, sk, ctxParams)
    BY <2>1 DEF IInv, AutoOK
  <2> QED
    BY <2>1, <2>2, <2>3, HoldStep
<1>3. ASSUME NEW t \in Tags, NEW I \in SUBSET Indices, GetPartialEvalAutomorphismKeyMapPtr(t, I)
      PROVE  IInv' /\ NoReplacement
  <2> DEFINE content == [i \in Indices |-> IF i \in I THEN Registered(t)[i] ELSE None]
  <2>1. /\ Idle /\ I /= {} /\ I \subseteq KeysAt(Registered(t))
        /\ held' \in OneOf(Unregistered)
        /\ maps' = Sweep([maps EXCEPT ![held'] = content], evalAutomorphismKeyMap, held')
        /\ UNCHANGED <<AllContexts, ctxParams, sk, evalMultKeyMap, evalAutomorphismKeyMap,
                       stream, loading, granted>>
    BY <1>3 DEF GetPartialEvalAutomorphismKeyMapPtr, AutoUnchanged, contexts,
                GetExistingEvalAutomorphismKeyIndices
  <2>2. evalAutomorphismKeyMap[t] /= None
    BY <2>1 DEF Registered, KeysAt, Nothing
  <2>3. Registered(t) \in MapOf(Indices, EvalKey) /\ OwnKeys(Registered(t), t, sk, ctxParams)
    BY <2>2 DEF IInv, TypeOK, AutoOK, Registered
  <2>4. content \in MapOf(Indices, EvalKey)
    BY <2>3 DEF MapOf
  <2>5. KeysAt(content) = I /\ \A i \in I : content[i] = Registered(t)[i]
    BY <2>1 DEF KeysAt
  <2> HIDE DEF content
  <2>6. OwnKeys(content, t, sk, ctxParams)
    BY <2>1, <2>3, <2>5 DEF OwnKeys
  <2> QED
    BY <2>1, <2>4, <2>5, <2>6, HoldNewStep
<1>4. ASSUME NEW t \in Tags, NEW I \in SUBSET Indices, NEW g \in Gens, MakeJointKeys(t, I, g)
      PROVE  IInv' /\ NoReplacement
  <2> DEFINE content == [i \in Indices |-> IF i \in I THEN NewKey(t, g) ELSE None]
  <2>1. /\ Idle /\ HasKey(t) /\ I /= {}
        /\ held' \in OneOf(Unregistered)
        /\ maps' = Sweep([maps EXCEPT ![held'] = content], evalAutomorphismKeyMap, held')
        /\ UNCHANGED <<AllContexts, ctxParams, sk, evalMultKeyMap, evalAutomorphismKeyMap,
                       stream, loading, granted>>
    BY <1>4 DEF MakeJointKeys, AutoUnchanged, contexts
  <2>2. /\ NewKey(t, g) /= None /\ content \in MapOf(Indices, EvalKey)
        /\ OwnKeys(content, t, sk, ctxParams)
    BY <2>1, MadeKeys
  <2>3. KeysAt(content) /= {}
    BY <2>1, <2>2 DEF KeysAt
  <2> HIDE DEF content
  <2> QED
    BY <2>1, <2>2, <2>3, HoldNewStep
<1>5. CASE InsertHeldMap
  BY <1>5, InsertHeldMapStep
<1>6. CASE ForgetHeldMap
  BY <1>6, HoldStep DEF ForgetHeldMap, AutoUnchanged, contexts, IInv, TypeOK
<1>7. CASE ClearEvalAutomorphismKeys
  BY <1>7, EraseStep DEF ClearEvalAutomorphismKeys, AutoUnchanged, contexts
<1>8. ASSUME NEW t \in Tags \cup {EmptyTag}, ClearEvalAutomorphismKeysOfTag(t)
      PROVE  IInv' /\ NoReplacement
  BY <1>8, EraseStep DEF ClearEvalAutomorphismKeysOfTag, AutoUnchanged, contexts
<1>9. ASSUME NEW c \in Ctxs, ClearEvalAutomorphismKeysOfContext(c)
      PROVE  IInv' /\ NoReplacement
  BY <1>9, EraseStep DEF ClearEvalAutomorphismKeysOfContext, AutoUnchanged, contexts
<1> QED
  BY <1>1, <1>2, <1>3, <1>4, <1>5, <1>6, <1>7, <1>8, <1>9 DEF Automorphism

-----------------------------------------------------------------------------
(* Serialization.                                                           *)

(* A stored map has the keys of the map, with the parameters of the secret. *)
LEMMA StoredMap ==
  ASSUME IInv, NEW S, NEW m \in MapOf(S, EvalKey), NEW t \in Tags, OwnKeys(m, t, sk, ctxParams)
  PROVE  /\ Store(m) \in MapOf(S, StoredKey)
         /\ KeysAt(Store(m)) = KeysAt(m)
         /\ \A i \in S : Store(m)[i] = None <=> m[i] = None
         /\ OwnStored(Store(m), t, sk, ctxParams)
PROOF
<1>1. DOMAIN m = S /\ \A i \in S : m[i] \in EvalKey \cup {None}
  BY DEF MapOf
<1>2. None \notin StoredKey /\ None \notin EvalKey
  BY NoneAssumption
<1>3. ASSUME NEW i \in S, m[i] /= None
      PROVE  /\ Store(m)[i] \in StoredKey
             /\ Store(m)[i].sk = t /\ sk[t] /= None /\ Store(m)[i].params = ctxParams[sk[t]]
  <2>1. m[i] \in EvalKey /\ m[i].sk = t /\ sk[t] /= None /\ ctxParams[m[i].ctx] = ctxParams[sk[t]]
    BY <1>1, <1>3 DEF OwnKeys, KeysAt
  <2>2. ctxParams[sk[t]] \in Params
    BY <2>1 DEF IInv, TypeOK, ContextsOK
  <2>3. Store(m)[i] = [sk |-> m[i].sk, params |-> ctxParams[m[i].ctx], gen |-> m[i].gen]
    BY <1>1, <1>3 DEF Store
  <2>4. m[i].gen \in Gens
    BY <2>1 DEF EvalKey
  <2> QED
    BY <2>1, <2>2, <2>3, <2>4 DEF StoredKey
<1>4. \A i \in S : m[i] = None => Store(m)[i] = None
  BY <1>1 DEF Store
<1>5. DOMAIN Store(m) = S /\ Store(m) = [i \in S |-> Store(m)[i]]
  BY <1>1 DEF Store
<1>6. Store(m) \in MapOf(S, StoredKey)
  BY <1>3, <1>4, <1>5 DEF MapOf
<1>7. \A i \in S : Store(m)[i] = None <=> m[i] = None
  BY <1>2, <1>3, <1>4
<1>8. KeysAt(Store(m)) = KeysAt(m)
  BY <1>1, <1>5, <1>7 DEF KeysAt
<1> QED
  BY <1>1, <1>3, <1>6, <1>7, <1>8 DEF OwnStored, KeysAt

(* A loaded map has the keys of the stored one, in contexts of the factory. *)
LEMMA LoadedMap ==
  ASSUME IInv, Grown, AllContexts' \subseteq Ctxs, sk' = sk,
         NEW S, NEW m \in MapOf(S, StoredKey), NEW t \in Tags, OwnStored(m, t, sk, ctxParams),
         NEW f,
         \A i \in KeysAt(m) : f[m[i].params] \in AllContexts' /\ ctxParams'[f[m[i].params]] = m[i].params
  PROVE  /\ Load(m, f) \in MapOf(S, EvalKey)
         /\ KeysAt(Load(m, f)) = KeysAt(m)
         /\ \A i \in S : Load(m, f)[i] = None <=> m[i] = None
         /\ OwnKeys(Load(m, f), t, sk', ctxParams')
         /\ AllIn(Load(m, f), AllContexts')
PROOF
<1>1. DOMAIN m = S /\ \A i \in S : m[i] \in StoredKey \cup {None}
  BY DEF MapOf
<1>2. None \notin StoredKey /\ None \notin EvalKey
  BY NoneAssumption
<1>3. ASSUME NEW i \in S, m[i] /= None
      PROVE  /\ Load(m, f)[i] \in EvalKey
             /\ Load(m, f)[i].sk = t /\ sk[t] /= None
             /\ Load(m, f)[i].ctx \in AllContexts'
             /\ ctxParams'[Load(m, f)[i].ctx] = ctxParams'[sk'[t]]
  <2>1. /\ m[i] \in StoredKey /\ m[i].sk = t /\ sk[t] /= None /\ m[i].params = ctxParams[sk[t]]
        /\ f[m[i].params] \in AllContexts' /\ ctxParams'[f[m[i].params]] = m[i].params
    BY <1>1, <1>3 DEF OwnStored, KeysAt
  <2>2. Load(m, f)[i] = [sk |-> m[i].sk, ctx |-> f[m[i].params], gen |-> m[i].gen]
    BY <1>1, <1>3 DEF Load
  <2>3. m[i].gen \in Gens
    BY <2>1 DEF StoredKey
  <2>4. ctxParams'[sk'[t]] = ctxParams[sk[t]]
    BY <2>1 DEF Grown
  <2> QED
    BY <2>1, <2>2, <2>3, <2>4 DEF EvalKey
<1>4. \A i \in S : m[i] = None => Load(m, f)[i] = None
  BY <1>1 DEF Load
<1>5. DOMAIN Load(m, f) = S /\ Load(m, f) = [i \in S |-> Load(m, f)[i]]
  BY <1>1 DEF Load
<1>6. Load(m, f) \in MapOf(S, EvalKey)
  BY <1>3, <1>4, <1>5 DEF MapOf
<1>7. \A i \in S : Load(m, f)[i] = None <=> m[i] = None
  BY <1>2, <1>3, <1>4
<1>8. KeysAt(Load(m, f)) = KeysAt(m)
  BY <1>1, <1>5, <1>7 DEF KeysAt
<1> QED
  BY <1>1, <1>3, <1>6, <1>7, <1>8 DEF OwnKeys, AllIn, KeysAt

(* A step that only writes the stream.                                      *)
LEMMA StreamStep ==
  ASSUME IInv, Idle, SerializeUnchanged, StreamOK'
  PROVE  IInv' /\ NoReplacement
PROOF
<1> USE DEF IInv
<1>1. UNCHANGED <<AllContexts, ctxParams, sk, evalMultKeyMap, evalAutomorphismKeyMap, maps, held,
                  loading, granted>>
  BY DEF SerializeUnchanged, contexts
<1>2. TypeOK' /\ ContextsOK(AllContexts', ctxParams', sk')
  BY <1>1 DEF TypeOK
<1>3. MultOK' /\ AutoOK' /\ HeldOK' /\ LoadingOK'
  BY <1>1, MultFrame, AutoFrame, IdleLoading
<1>4. GrantedKeysStay'
  BY <1>1 DEF GrantedKeysStay, GetExistingEvalAutomorphismKeyIndices, Registered
<1> QED
  BY <1>1, <1>2, <1>3, <1>4, RegistriesUnchanged

(* What SerializeEvalMultKey stores.                                        *)
LEMMA StoreMultOK ==
  ASSUME IInv, UNCHANGED <<ctxParams, sk>>, NEW T \in SUBSET MultTags, StoreMult(T)
  PROVE  StreamOK'
PROOF
<1>1. stream'.kind = "mult"
      /\ stream'.keys = [t \in Tags |-> IF t \in T THEN Store(evalMultKeyMap[t]) ELSE None]
      /\ stream' = [kind |-> "mult", keys |-> stream'.keys]
  BY DEF StoreMult
<1>2. ASSUME NEW t \in T
      PROVE  /\ Store(evalMultKeyMap[t]) \in MapOf(Degrees, StoredKey)
             /\ Filled("mult", Store(evalMultKeyMap[t]))
             /\ OwnStored(Store(evalMultKeyMap[t]), t, sk, ctxParams)
  <2>1. t \in Tags /\ evalMultKeyMap[t] /= None
    BY DEF MultTags
  <2>2. /\ evalMultKeyMap[t] \in MapOf(Degrees, EvalKey)
        /\ Filled("mult", evalMultKeyMap[t]) /\ OwnKeys(evalMultKeyMap[t], t, sk, ctxParams)
    BY <2>1 DEF IInv, TypeOK, MultOK
  <2>3. 1 \in Degrees
    BY RelinAssumption DEF Degrees
  <2> QED
    BY <2>1, <2>2, <2>3, StoredMap DEF Filled
<1>3. stream'.keys \in [Tags -> MapOf(Degrees, StoredKey) \cup {None}]
  BY <1>1, <1>2
<1>4. \A t \in Tags : stream'.keys[t] /= None => t \in T /\ stream'.keys[t] = Store(evalMultKeyMap[t])
  BY <1>1
<1> QED
  BY <1>1, <1>2, <1>3, <1>4 DEF StreamOK, Slots

(* What SerializeEvalAutomorphismKey stores: some indices of some maps.     *)
LEMMA StoreAutoOK ==
  ASSUME IInv, UNCHANGED <<ctxParams, sk>>, NEW T \in SUBSET Tags, NEW I \in SUBSET Indices,
         \A t \in T : I \cap KeysAt(Registered(t)) /= {},
         StoreAuto(T, I)
  PROVE  StreamOK'
PROOF
<1> DEFINE Part(t) == [i \in Indices |-> IF i \in I THEN Registered(t)[i] ELSE None]
<1>1. stream'.kind = "auto"
      /\ stream'.keys = [t \in Tags |-> IF t \in T THEN Store(Part(t)) ELSE None]
      /\ stream' = [kind |-> "auto", keys |-> stream'.keys]
  BY DEF StoreAuto
<1>2. ASSUME NEW t \in T
      PROVE  /\ Store(Part(t)) \in MapOf(Indices, StoredKey)
             /\ Filled("auto", Store(Part(t)))
             /\ OwnStored(Store(Part(t)), t, sk, ctxParams)
  <2>1. evalAutomorphismKeyMap[t] /= None
    BY DEF Registered, KeysAt, Nothing
  <2>2. Registered(t) \in MapOf(Indices, EvalKey) /\ OwnKeys(Registered(t), t, sk, ctxParams)
    BY <2>1 DEF IInv, TypeOK, AutoOK, Registered
  <2>3. Part(t) \in MapOf(Indices, EvalKey)
    BY <2>2 DEF MapOf
  <2>4. KeysAt(Part(t)) = I \cap KeysAt(Registered(t)) /\ \A i \in I : Part(t)[i] = Registered(t)[i]
    BY <2>2 DEF KeysAt, MapOf
  <2> HIDE DEF Part
  <2>5. OwnKeys(Part(t), t, sk, ctxParams)
    BY <2>2, <2>4 DEF OwnKeys
  <2>6. KeysAt(Part(t)) /= {}
    BY <2>4
  <2> QED
    BY <2>3, <2>5, <2>6, StoredMap DEF Filled
<1> HIDE DEF Part
<1>3. stream'.keys \in [Tags -> MapOf(Indices, StoredKey) \cup {None}]
  BY <1>1, <1>2
<1>4. \A t \in Tags : stream'.keys[t] /= None => t \in T /\ stream'.keys[t] = Store(Part(t))
  BY <1>1
<1> QED
  BY <1>1, <1>2, <1>3, <1>4 DEF StreamOK, Slots

(* A step of the insertion of deserialized entries leaves the rest of the   *)
(* entries as good as they were.                                            *)
LEMMA LoadedKeeps ==
  ASSUME IInv, NEW t \in Tags, loading /= None, Loaded(t),
         UNCHANGED <<AllContexts, ctxParams, sk>>
  PROVE  LoadingOK'
PROOF
<1> DEFINE S == MapOf(Slots(loading.kind), EvalKey) \cup {None}
<1>1. /\ loading \in [kind : {"mult", "auto"}, keys : [Tags -> S]]
      /\ \A u \in Tags : loading.keys[u] /= None =>
           /\ Filled(loading.kind, loading.keys[u])
           /\ OwnKeys(loading.keys[u], u, sk, ctxParams)
           /\ AllIn(loading.keys[u], AllContexts)
  BY DEF IInv, LoadingOK
<1> HIDE DEF S
<1>2. loading' = [loading EXCEPT !.keys = [loading.keys EXCEPT ![t] = None]]
  BY DEF Loaded
<1>3. loading'.kind = loading.kind /\ loading'.keys = [loading.keys EXCEPT ![t] = None]
  BY <1>1, <1>2
<1>4. loading' \in [kind : {"mult", "auto"}, keys : [Tags -> S]]
  BY <1>1, <1>2 DEF S
<1>5. \A u \in Tags : loading'.keys[u] /= None => loading'.keys[u] = loading.keys[u]
  BY <1>1, <1>3
<1> QED
  BY <1>1, <1>3, <1>4, <1>5 DEF LoadingOK, S

(* The first half of deserialization makes the contexts and resolves the    *)
(* stored keys.                                                             *)
LEMMA DeserializeEvalKeysStep ==
  ASSUME IInv, DeserializeEvalKeys
  PROVE  IInv' /\ NoReplacement
PROOF
<1> DEFINE P == ParamsIn(stream.keys)
<1>1. /\ Idle /\ stream /= None
      /\ UNCHANGED <<sk, evalMultKeyMap, evalAutomorphismKeyMap, maps, held, stream, granted>>
  BY DEF DeserializeEvalKeys
<1>2. PICK f \in [P -> Ctxs] :
        /\ GetContext(P, f)
        /\ loading' = [kind |-> stream.kind,
                       keys |-> [t \in Tags |-> IF stream.keys[t] = None THEN None
                                                ELSE Load(stream.keys[t], f)]]
  BY DEF DeserializeEvalKeys
<1>3. P \in SUBSET Params
  BY DEF ParamsIn
<1>4. /\ AllContexts' \subseteq Ctxs
      /\ AllContexts \subseteq AllContexts'
      /\ ctxParams' \in [Ctxs -> Params \cup {None}]
      /\ \A c \in Ctxs : ctxParams[c] /= None => ctxParams'[c] = ctxParams[c]
      /\ \A p \in P : f[p] \in AllContexts' /\ ctxParams'[f[p]] = p
      /\ \A c \in AllContexts' : ctxParams'[c] /= None
      /\ \A c, d \in AllContexts' : ctxParams'[c] = ctxParams'[d] => c = d
  <2> HIDE DEF P
  <2> QED
    BY <1>2, <1>3, GetContextGrows DEF IInv
<1>5. Grown
  BY <1>1, <1>4 DEF Grown, IInv, TypeOK, ContextsOK
<1>6. ContextsOK(AllContexts', ctxParams', sk')
  BY <1>1, <1>4 DEF IInv, TypeOK, ContextsOK
<1>7. TypeOK'
  BY <1>1, <1>4, <1>5 DEF IInv, TypeOK, Grown
<1>8. MultOK' /\ AutoOK' /\ HeldOK' /\ StreamOK' /\ GrantedKeysStay'
  BY <1>1, <1>5, GrownKeeps
<1>9. ASSUME NEW t \in Tags, stream.keys[t] /= None
      PROVE  /\ Load(stream.keys[t], f) \in MapOf(Slots(stream.kind), EvalKey)
             /\ Filled(stream.kind, Load(stream.keys[t], f))
             /\ OwnKeys(Load(stream.keys[t], f), t, sk', ctxParams')
             /\ AllIn(Load(stream.keys[t], f), AllContexts')
  <2> DEFINE m == stream.keys[t]
  <2>1. /\ m \in MapOf(Slots(stream.kind), StoredKey)
        /\ Filled(stream.kind, m) /\ OwnStored(m, t, sk, ctxParams)
        /\ stream.kind \in {"mult", "auto"}
    BY <1>1, <1>9 DEF IInv, StreamOK
  <2>2. \A i \in KeysAt(m) : m[i] \in StoredKey
    BY <2>1 DEF KeysAt, MapOf
  <2>3. \A i \in KeysAt(m) : m[i].params \in P
    BY <1>9, <2>2 DEF ParamsIn, StoredKey
  <2> HIDE DEF m, P
  <2>4. \A i \in KeysAt(m) : f[m[i].params] \in AllContexts' /\ ctxParams'[f[m[i].params]] = m[i].params
    BY <1>4, <2>3
  <2>5. /\ Load(m, f) \in MapOf(Slots(stream.kind), EvalKey)
        /\ KeysAt(Load(m, f)) = KeysAt(m)
        /\ \A i \in Slots(stream.kind) : Load(m, f)[i] = None <=> m[i] = None
        /\ OwnKeys(Load(m, f), t, sk', ctxParams')
        /\ AllIn(Load(m, f), AllContexts')
    BY <1>1, <1>4, <1>5, <2>1, <2>4, LoadedMap
  <2>6. Filled(stream.kind, Load(m, f))
    <3>1. CASE stream.kind = "mult"
      <4>1. 1 \in Slots(stream.kind)
        BY <3>1, RelinAssumption DEF Slots, Degrees
      <4> QED
        BY <2>1, <2>5, <3>1, <4>1 DEF Filled
    <3>2. CASE stream.kind /= "mult"
      BY <2>1, <2>5, <3>2 DEF Filled
    <3> QED
      BY <3>1, <3>2
  <2> QED
    BY <2>5, <2>6 DEF m
<1>10. LoadingOK'
  <2> DEFINE S == MapOf(Slots(stream.kind), EvalKey) \cup {None}
  <2>1. /\ loading'.kind = stream.kind
        /\ loading'.keys = [t \in Tags |-> IF stream.keys[t] = None THEN None
                                            ELSE Load(stream.keys[t], f)]
        /\ loading' = [kind |-> loading'.kind, keys |-> loading'.keys]
    BY <1>2
  <2>2. \A t \in Tags : loading'.keys[t] /= None =>
           stream.keys[t] /= None /\ loading'.keys[t] = Load(stream.keys[t], f)
    BY <2>1
  <2>3. \A t \in Tags : (IF stream.keys[t] = None THEN None ELSE Load(stream.keys[t], f)) \in S
    BY <1>9
  <2>4. loading'.keys \in [Tags -> S]
    <3> HIDE DEF S
    <3> QED
      BY <2>1, <2>3
  <2>5. stream.kind \in {"mult", "auto"}
    BY <1>1 DEF IInv, StreamOK
  <2> QED
    BY <1>9, <2>1, <2>2, <2>4, <2>5 DEF LoadingOK
<1> QED
  BY <1>1, <1>6, <1>7, <1>8, <1>10, RegistriesUnchanged DEF IInv

(* The second half inserts one vector of relinearization keys ...           *)
LEMMA DeserializeEvalMultKeyStepOK ==
  ASSUME IInv, NEW t \in Tags, DeserializeEvalMultKeyStep(t)
  PROVE  IInv' /\ NoReplacement
PROOF
<1>1. /\ loading /= None /\ loading.keys[t] /= None /\ loading.kind = "mult"
      /\ InsertMult(loading.keys[t], t)
      /\ UNCHANGED <<AllContexts, ctxParams, sk, evalAutomorphismKeyMap, maps, held, stream, granted>>
      /\ Loaded(t) \/ loading' = None
  BY DEF DeserializeEvalMultKeyStep, NextTag, ToLoad, Idle, contexts
<1>2. LoadingOK'
  <2>1. CASE Loaded(t)
    BY <1>1, <2>1, LoadedKeeps
  <2>2. CASE loading' = None
    BY <2>2 DEF LoadingOK
  <2> QED
    BY <1>1, <2>1, <2>2
<1>3. VectorOK(loading.keys[t], t)
  BY <1>1 DEF VectorOK, IInv, LoadingOK, Slots
<1> QED
  BY <1>1, <1>2, <1>3, InsertMultStep

(* ... or one map of automorphism keys.                                     *)
LEMMA DeserializeEvalAutomorphismKeyStepOK ==
  ASSUME IInv, NEW t \in Tags, DeserializeEvalAutomorphismKeyStep(t)
  PROVE  IInv' /\ NoReplacement
PROOF
<1>1. /\ loading /= None /\ loading.keys[t] /= None /\ loading.kind = "auto"
      /\ InsertEvalAutomorphismKey(NewMap, loading.keys[t], t)
      /\ UNCHANGED <<AllContexts, ctxParams, sk, evalMultKeyMap, held, stream, granted>>
      /\ Loaded(t)
  BY DEF DeserializeEvalAutomorphismKeyStep, NextTag, ToLoad, Idle, contexts
<1>2. LoadingOK'
  BY <1>1, LoadedKeeps
<1>3. /\ loading.keys[t] \in MapOf(Indices, EvalKey)
      /\ OwnKeys(loading.keys[t], t, sk, ctxParams)
      /\ AllIn(loading.keys[t], AllContexts)
  BY <1>1 DEF IInv, LoadingOK, Slots
<1>4. granted' \in [Tags -> SUBSET Indices] /\ granted' = granted
  BY <1>1 DEF IInv, TypeOK
<1> QED
  BY <1>1, <1>2, <1>3, <1>4, InsertAutoStep

(* All steps of serialization.                                              *)
LEMMA SerializationSteps == IInv /\ Serialization => IInv' /\ NoReplacement
PROOF
<1> SUFFICES ASSUME IInv, Serialization PROVE IInv' /\ NoReplacement
  OBVIOUS
<1>1. ASSUME NEW T \in SUBSET Tags, SerializeEvalMultKey(T)
      PROVE  IInv' /\ NoReplacement
  <2>1. Idle /\ SerializeUnchanged /\ StoreMult(T) /\ T \in SUBSET MultTags
    BY <1>1 DEF SerializeEvalMultKey
  <2>2. StreamOK'
    BY <2>1, StoreMultOK DEF SerializeUnchanged, contexts
  <2> QED
    BY <2>1, <2>2, StreamStep
<1>2. ASSUME NEW T \in SUBSET Tags, SerializeEvalAutomorphismKey(T)
      PROVE  IInv' /\ NoReplacement
  <2>1. Idle /\ SerializeUnchanged /\ StoreAuto(T, Indices)
    BY <1>2 DEF SerializeEvalAutomorphismKey
  <2>2. \A t \in T : evalAutomorphismKeyMap[t] /= None
    BY <1>2 DEF SerializeEvalAutomorphismKey, AutoTags, BelongsTo
  <2>3. ASSUME NEW t \in T
        PROVE  Indices \cap KeysAt(Registered(t)) /= {}
    <3>1. Registered(t) \in MapOf(Indices, EvalKey) /\ KeysAt(Registered(t)) /= {}
      BY <2>2 DEF IInv, TypeOK, AutoOK, Filled, Registered
    <3> QED
      BY <3>1 DEF KeysAt, MapOf
  <2>4. StreamOK'
    BY <2>1, <2>3, StoreAutoOK DEF SerializeUnchanged, contexts
  <2> QED
    BY <2>1, <2>4, StreamStep
<1>3. ASSUME NEW t \in Tags, NEW I \in SUBSET Indices, SerializeEvalAutomorphismKeyIndices(t, I)
      PROVE  IInv' /\ NoReplacement
  <2>1. /\ Idle /\ SerializeUnchanged /\ StoreAuto({t}, I)
        /\ I /= {} /\ I \subseteq KeysAt(Registered(t))
    BY <1>3 DEF SerializeEvalAutomorphismKeyIndices, GetExistingEvalAutomorphismKeyIndices
  <2>2. \A u \in {t} : I \cap KeysAt(Registered(u)) /= {}
    BY <2>1
  <2>3. {t} \in SUBSET Tags
    OBVIOUS
  <2>4. StreamOK'
    BY <2>1, <2>2, <2>3, StoreAutoOK DEF SerializeUnchanged, contexts
  <2> QED
    BY <2>1, <2>4, StreamStep
<1>4. CASE DeserializeEvalKeys
  BY <1>4, DeserializeEvalKeysStep
<1>5. CASE \E t \in Tags : DeserializeEvalMultKeyStep(t)
  BY <1>5, DeserializeEvalMultKeyStepOK
<1>6. CASE \E t \in Tags : DeserializeEvalAutomorphismKeyStep(t)
  BY <1>6, DeserializeEvalAutomorphismKeyStepOK
<1>7. CASE DeserializeReturn
  <2>1. /\ loading' = None
        /\ UNCHANGED <<AllContexts, ctxParams, sk, evalMultKeyMap, evalAutomorphismKeyMap, maps,
                       held, stream, granted>>
    BY <1>7 DEF DeserializeReturn, contexts
  <2>2. LoadingOK'
    BY <2>1 DEF LoadingOK
  <2>3. evalMultKeyMap = [u \in Tags |-> evalMultKeyMap[u]]
    BY DEF IInv, TypeOK
  <2> QED
    BY <2>1, <2>2, <2>3, VectorsStep
<1> QED
  BY <1>1, <1>2, <1>3, <1>4, <1>5, <1>6, <1>7 DEF Serialization

-----------------------------------------------------------------------------
(* The theorems.                                                            *)

(* The invariant holds of the empty registries.                             *)
LEMMA InitIInv == Init => IInv
PROOF
<1> SUFFICES ASSUME Init PROVE IInv
  OBVIOUS
<1>1. \A m \in MapIds : Nothing(Indices) \in MapOf(Indices, EvalKey)
  BY DEF Nothing, MapOf
<1>2. TypeOK
  BY <1>1 DEF Init, TypeOK
<1>3. ContextsOK(AllContexts, ctxParams, sk)
  BY DEF Init, ContextsOK
<1>4. MultOK /\ AutoOK /\ HeldOK /\ StreamOK /\ LoadingOK /\ GrantedKeysStay
  BY DEF Init, MultOK, AutoOK, HeldOK, StreamOK, LoadingOK, GrantedKeysStay
<1> QED
  BY <1>2, <1>3, <1>4 DEF IInv

(* Every step keeps the invariant and replaces no key.                      *)
LEMMA StepIInv == IInv /\ [Next]_vars => IInv' /\ [NoReplacement]_vars
PROOF
<1> SUFFICES ASSUME IInv, [Next]_vars PROVE IInv' /\ [NoReplacement]_vars
  OBVIOUS
<1>1. CASE Next
  BY <1>1, ContextSteps, RelinearizationSteps, AutomorphismSteps, SerializationSteps DEF Next
<1>2. CASE UNCHANGED vars
  BY <1>2 DEF vars, IInv, TypeOK, ContextsOK, MultOK, AutoOK, HeldOK, StreamOK, LoadingOK,
              GrantedKeysStay, GetExistingEvalAutomorphismKeyIndices, Registered
<1> QED
  BY <1>1, <1>2

(* The inductive invariant holds: every key in a registry, in the hands of  *)
(* the application, in a stream or in the middle of a deserialization       *)
(* belongs to the secret of its tag and has its parameters.                 *)
THEOREM Inductive == Spec => []IInv
PROOF
<1>1. IInv /\ [Next]_vars => IInv'
  BY StepIInv
<1> QED
  BY <1>1, InitIInv, PTL DEF Spec

(* The registries hold vectors and maps of keys, for every number of tags,  *)
(* indices and contexts.                                                    *)
THEOREM TypeCorrect == Spec => []TypeOK
PROOF
<1>1. IInv => TypeOK
  BY DEF IInv
<1> QED
  BY <1>1, Inductive, PTL

(* Evaluation keys found under a tag were made for that tag's secret,       *)
(* although maps are shared objects and insertion may choose the tag.       *)
THEOREM KeysOwnTag == Spec => []KeysBelongToTag
PROOF
<1>1. IInv => KeysBelongToTag
  BY DEF IInv, MultOK, AutoOK, OwnKeys, KeysBelongToTag, Registered, KeysAt, Nothing
<1> QED
  BY <1>1, Inductive, PTL

(* EvalAtIndexKeyGen promises indices, and they stay until the tag is       *)
(* cleared.                                                                 *)
THEOREM KeysStay == Spec => []GrantedKeysStay
PROOF
<1>1. IInv => GrantedKeysStay
  BY DEF IInv
<1> QED
  BY <1>1, Inductive, PTL

(* No call but those documented to replace keys exchanges a registered key  *)
(* (nor do these, as StepIInv shows: they throw or leave the index out).    *)
THEOREM NothingReplaced == Spec => KeysNotReplaced
PROOF
<1>1. IInv /\ [Next]_vars => [NoReplacement]_vars
  BY StepIInv
<1>2. Spec => [][NoReplacement]_vars
  BY <1>1, Inductive, PTL DEF Spec
<1>3. NoReplacement =>
       (~DocumentedToReplace =>
          \A t \in Tags :
            /\ \A i \in KeysAt(Registered(t)) : Registered(t)'[i] \in {Registered(t)[i], None}
            /\ (evalMultKeyMap[t] /= None /\ evalMultKeyMap'[t] /= None)
                 => evalMultKeyMap'[t] = evalMultKeyMap[t])
  BY DEF NoReplacement
<1> QED
  BY <1>2, <1>3, PTL DEF KeysNotReplaced

(* An application that drops released contexts sees one context per tag:    *)
(* the factory holds no two equal ones and each registered key is in the    *)
(* one with its secret's parameters.                                        *)
THEOREM OneContext == ~KeepReleased => (Spec => []OneContextPerTag)
PROOF
<1> SUFFICES ASSUME ~KeepReleased PROVE Spec => []OneContextPerTag
  OBVIOUS
<1>1. IInv => OneContextPerTag
  <2> SUFFICES ASSUME IInv PROVE OneContextPerTag
    OBVIOUS
  <2> DEFINE Mult(t) == evalMultKeyMap[t]
             AutoKeys(t) == Registered(t)
  <2>1. \A c, d \in AllContexts : ctxParams[c] = ctxParams[d] => c = d
    BY DEF IInv, ContextsOK
  <2>2. AllContexts \subseteq Ctxs
    BY DEF IInv, TypeOK
  <2>3. ASSUME NEW t \in Tags
        PROVE  \E c \in Ctxs :
                 /\ Mult(t) /= None =>
                      c \in AllContexts /\ \A i \in KeysAt(Mult(t)) : Mult(t)[i].ctx = c
                 /\ evalAutomorphismKeyMap[t] /= None =>
                      c \in AllContexts /\ \A i \in KeysAt(AutoKeys(t)) : AutoKeys(t)[i].ctx = c
    <3>1. Mult(t) /= None => /\ OwnKeys(Mult(t), t, sk, ctxParams) /\ AllIn(Mult(t), AllContexts)
                             /\ 1 \in KeysAt(Mult(t))
      <4>1. 1 \in Degrees
        BY RelinAssumption DEF Degrees
      <4> QED
        BY <4>1 DEF IInv, TypeOK, MultOK, Filled, KeysAt, MapOf
    <3>2. evalAutomorphismKeyMap[t] /= None =>
            /\ OwnKeys(AutoKeys(t), t, sk, ctxParams) /\ AllIn(AutoKeys(t), AllContexts)
            /\ KeysAt(AutoKeys(t)) /= {}
      BY DEF IInv, AutoOK, Filled, Registered
    <3> HIDE DEF Mult, AutoKeys
    <3>3. CASE Mult(t) /= None
      <4> DEFINE c == Mult(t)[1].ctx
      <4>1. c \in AllContexts /\ ctxParams[c] = ctxParams[sk[t]]
        BY <3>1, <3>3 DEF OwnKeys, AllIn
      <4>2. \A i \in KeysAt(Mult(t)) : Mult(t)[i].ctx = c
        BY <2>1, <3>1, <3>3, <4>1 DEF OwnKeys, AllIn
      <4>3. evalAutomorphismKeyMap[t] /= None => \A i \in KeysAt(AutoKeys(t)) : AutoKeys(t)[i].ctx = c
        BY <2>1, <3>2, <4>1 DEF OwnKeys, AllIn
      <4> QED
        BY <2>2, <4>1, <4>2, <4>3
    <3>4. CASE Mult(t) = None /\ evalAutomorphismKeyMap[t] /= None
      <4>1. PICK j \in KeysAt(AutoKeys(t)) : TRUE
        BY <3>2, <3>4
      <4> DEFINE c == AutoKeys(t)[j].ctx
      <4>2. c \in AllContexts /\ ctxParams[c] = ctxParams[sk[t]]
        BY <3>2, <3>4 DEF OwnKeys, AllIn
      <4>3. \A i \in KeysAt(AutoKeys(t)) : AutoKeys(t)[i].ctx = c
        BY <2>1, <3>2, <3>4, <4>2 DEF OwnKeys, AllIn
      <4> QED
        BY <2>2, <3>4, <4>2, <4>3
    <3>5. CASE Mult(t) = None /\ evalAutomorphismKeyMap[t] = None
      BY <3>5, CtxsAssumption
    <3> QED
      BY <3>3, <3>4, <3>5
  <2> QED
    BY <2>1, <2>3 DEF OneContextPerTag
<1> QED
  BY <1>1, Inductive, PTL
=============================================================================
