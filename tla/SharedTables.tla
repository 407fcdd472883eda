---------------------------- MODULE SharedTables ----------------------------
(***************************************************************************)
(* The tables that all crypto contexts of a process share, and the threads *)
(* that use them: the six maps of roots of unity of the number theoretic   *)
(* transform, the root and permutation tables of packed encoding, the      *)
(* random number engine that each thread creates on its first draw, and    *)
(* the one unnamed critical section that guards every writer.              *)
(*                                                                         *)
(* The sequential part of the program (creating a context, clearing the    *)
(* caches) is atomic, because no other thread runs then.  Inside a         *)
(* parallel region each lookup, entry written and table read of a thread   *)
(* is a step.                                                              *)
(***************************************************************************)
EXTENDS NumberTheory, Sequences, Functions

CONSTANTS Threads,         \* the OpenMP threads of the process
          Master,          \* the thread that runs the sequential part
          Contexts,        \* the crypto contexts of the application
          Dim,             \* ring dimension of a context
          Towers,          \* sequence of the RNS moduli of a context
          PlaintextModulus,\* plaintext modulus of a context, a prime
          CreatedBy,       \* how contexts come to be: subset of Creations
          UseAfterClear,   \* old contexts are used after the caches are cleared
          TeamsWhenStale,  \* teams use a context whose tables were replaced
          TeamsPack        \* application threads encode packed plaintexts

Creations == {"generated", "loaded hybrid", "loaded BV"}

ASSUME ThreadsAssumption == Master \in Threads
ASSUME CreationAssumption == CreatedBy \subseteq Creations
\* the moduli of a context are distinct primes, at least one
ASSUME DimAssumption == Dim \in [Contexts -> Nat \ {0}]
ASSUME TowersAssumption ==
  \A c \in Contexts : /\ Towers[c] \in Seq(Nat) /\ Towers[c] # <<>>
                      /\ \A i, j \in DOMAIN Towers[c] : Towers[c][i] = Towers[c][j] => i = j
ASSUME PlaintextModulusAssumption == PlaintextModulus \in [Contexts -> Nat]

VARIABLES lock,     \* holder of the unnamed critical section
          prng,     \* has the thread its engine (m_prng is threadprivate)
          tables,   \* the six static maps, by modulus
          initRoot, \* PackedEncoding::m_initRoot, by modulus and order
          perms,    \* are m_toCRTPerm and m_fromCRTPerm filled, by order
          live,     \* contexts that the application holds
          encoded,  \* how the plaintext of a context was encoded
          thr       \* what each thread is doing
vars == <<lock, prng, tables, initRoot, perms, live, encoded, thr>>

NoThread == "no thread"
Absent == <<0, 0>>   \* no table for the modulus
NoEntry == -1        \* no root for the plaintext modulus and order
NotEncoded == [permuted |-> FALSE, root |-> NoEntry]
CycloOrder(c) == 2 * Dim[c]
Moduli == UNION {Range(Towers[c]) \cup {PlaintextModulus[c]} : c \in Contexts}
PackKeys == {<<PlaintextModulus[c], CycloOrder(c)>> : c \in Contexts}
PackKey(c) == <<PlaintextModulus[c], CycloOrder(c)>>

(***************************************************************************)
(* The root of unity tables.  An entry is <<ring dimension, root>>.        *)
(***************************************************************************)
\* the maps in the order in which PreCompute writes them
MapOrder == <<"root", "rootInverse", "rootPrecon", "rootInversePrecon",
              "cycloOrderInverse", "cycloOrderInversePrecon">>
Maps == Range(MapOrder)
MapsRead(dir) ==
  IF dir = "forward" THEN {"root", "rootPrecon"}
  ELSE {"rootInverse", "rootInversePrecon", "cycloOrderInverse", "cycloOrderInversePrecon"}

LookupByModulus(tabs, q, n) ==   \* mutant: the length found is not compared
  tabs["root"][q] # Absent

Lookup(tabs, q, n) ==
  tabs["root"][q][1] = n

FillTable(tabs, k, q, n, r) == [tabs EXCEPT ![MapOrder[k]][q] = <<n, r>>]

(* the root in the parameters of a tower of a context; the roots that      *)
(* packed encoding may find for a plaintext modulus and order              *)
TowerRoots == [c \in Contexts |->
                 [q \in Range(Towers[c]) |-> CHOOSE r \in RootOfUnity(CycloOrder(c), q) : TRUE]]
TowerRoot(c, q) == TowerRoots[c][q]
PackRoots == [pm \in PackKeys |-> RootOfUnity(pm[2], pm[1])]

(* PreCompute for the vectors of roots and moduli of a context: each of    *)
(* its moduli that is not found gets its tables, in all six maps.          *)
PreComputeOver(tabs, c, qs) ==
  [m \in Maps |-> [q \in Moduli |->
     IF q \in qs /\ ~ Lookup(tabs, q, Dim[c]) THEN <<Dim[c], TowerRoot(c, q)>> ELSE tabs[m][q]]]

ChainButFirst(tabs, c) ==        \* mutant: the loop starts at one
  PreComputeOver(tabs, c, {Towers[c][i] : i \in 2 .. Len(Towers[c])})

PreComputeChain(tabs, c) ==
  PreComputeOver(tabs, c, Range(Towers[c]))

\* the tables of all towers are those of the context's dimension
Current(c) == \A q \in Range(Towers[c]) : Lookup(tables, q, Dim[c])

-----------------------------------------------------------------------------
Idle == [pc |-> "idle", op |-> "none", c |-> "none", dir |-> "forward", todo |-> {},
         root |-> 0, k |-> 0, ret |-> "idle", used |-> NotEncoded]
Sequential == \A t \in Threads : thr[t].pc = "idle"

Init == /\ lock = NoThread
        /\ prng = [t \in Threads |-> FALSE]
        /\ tables = [m \in Maps |-> [q \in Moduli |-> Absent]]
        /\ initRoot = [pm \in PackKeys |-> NoEntry]
        /\ perms = [m \in {pm[2] : pm \in PackKeys} |-> FALSE]
        /\ live = {}
        /\ encoded = [c \in Contexts |-> NotEncoded]
        /\ thr = [t \in Threads |-> Idle]

(* Generating parameters searches for primes and so draws random numbers;  *)
(* so does loading a context with HYBRID key switching, which searches for *)
(* the auxiliary primes, but not loading one with BV.                      *)
GivenPrimes(how) == FALSE   \* mutant: the moduli are given, nothing is searched

DrawsPrimes(how) == how \in {"generated", "loaded hybrid"}

CreateContext(c, how) ==
  /\ Sequential
  /\ prng' = [prng EXCEPT ![Master] = @ \/ DrawsPrimes(how)]
  /\ tables' = PreComputeChain(tables, c)
  /\ live' = live \cup {c}
  /\ UNCHANGED <<lock, initRoot, perms, encoded, thr>>

(* PackedEncoding::Destroy and the Reset of the transform tables *)
ClearStaticMapsAndVectors ==
  /\ Sequential
  /\ live # {}
  /\ tables' = [m \in Maps |-> [q \in Moduli |-> Absent]]
  /\ initRoot' = [pm \in PackKeys |-> NoEntry]
  /\ perms' = [m \in DOMAIN perms |-> FALSE]
  /\ live' = IF UseAfterClear THEN live ELSE {}
  /\ UNCHANGED <<lock, prng, encoded, thr>>

-----------------------------------------------------------------------------
(* Parallel regions. *)
Fork(team, Task(_)) ==
  /\ Sequential
  /\ thr' = [t \in Threads |-> IF t \in team THEN Task(t) ELSE Idle]
  /\ UNCHANGED <<lock, prng, tables, initRoot, perms, live, encoded>>

(* DCRTPoly::SwitchFormat: the loop over the towers, shared out *)
SwitchFormat(c, dir, share) ==
  LET Part(t) == {i \in DOMAIN Towers[c] : share[i] = t}
      Task(t) == [Idle EXCEPT !.pc = "find", !.op = "towers", !.c = c, !.dir = dir, !.todo = Part(t)]
  IN  c \in live /\ Fork({t \in Threads : Part(t) # {}}, Task)

(* The loops of KeySwitchGenInternal and EvalAutomorphismKeyGen, and those *)
(* of an application over ciphertexts: each thread samples a polynomial    *)
(* and transforms all its towers.                                          *)
KeySwitchGen(c) ==
  LET Task(t) == [Idle EXCEPT !.pc = "prng", !.op = "team", !.c = c, !.todo = DOMAIN Towers[c], !.ret = "find"]
  IN  /\ c \in live
      /\ TeamsWhenStale \/ Current(c)
      /\ Fork(Threads, Task)

(* PackNativeVector of MakePackedPlaintext, Unpack of a decryption *)
Packing(c, dir, team) ==
  LET Task(t) == [Idle EXCEPT !.pc = "packLookup", !.op = "pack", !.c = c, !.dir = dir]
  IN  /\ c \in live
      /\ dir = "forward" => encoded[c] # NotEncoded
      /\ Fork(team, Task)

(* the implicit barrier at the end of the region; the plaintext that the   *)
(* master encoded is kept                                                  *)
Join ==
  LET m == thr[Master]
  IN  /\ ~ Sequential
      /\ \A t \in Threads : thr[t].pc \in {"idle", "done"}
      /\ encoded' = IF m.op = "pack" /\ m.dir = "inverse" THEN [encoded EXCEPT ![m.c] = m.used] ELSE encoded
      /\ thr' = [t \in Threads |-> Idle]
      /\ UNCHANGED <<lock, prng, tables, initRoot, perms, live>>

-----------------------------------------------------------------------------
(* Steps of a thread. *)
Goto(t, pc) == thr' = [thr EXCEPT ![t].pc = pc]
Enter(t) == lock = NoThread /\ lock' = t

(* GetPRNG: the engine is created on the first call of the thread, inside  *)
(* the critical section                                                    *)
GetPRNG(t) ==
  \/ /\ thr[t].pc = "prng"
     /\ Goto(t, IF prng[t] THEN thr[t].ret ELSE "prngEnter")
     /\ UNCHANGED <<lock, prng>>
  \/ /\ thr[t].pc = "prngEnter"
     /\ Enter(t)
     /\ Goto(t, "prngCreate")
     /\ UNCHANGED prng
  \/ /\ thr[t].pc = "prngCreate"
     /\ prng' = [prng EXCEPT ![t] = TRUE]
     /\ lock' = NoThread
     /\ Goto(t, thr[t].ret)

ThisTower(t) == Least(thr[t].todo)
ThisModulus(t) == IF thr[t].op = "pack" THEN PlaintextModulus[thr[t].c] ELSE Towers[thr[t].c][ThisTower(t)]
ThisDim(t) == Dim[thr[t].c]
ThisRoot(t) == IF thr[t].op = "pack" THEN thr[t].root ELSE TowerRoot(thr[t].c, ThisModulus(t))
ThisKey(t) == PackKey(thr[t].c)

(* PreCompute within a transform: the lookup outside the critical section; *)
(* inside, all six tables are written without looking again.               *)
FindTables(t) ==
  /\ thr[t].pc = "find"
  /\ Goto(t, IF Lookup(tables, ThisModulus(t), ThisDim(t)) THEN "fetch" ELSE "enter")
  /\ UNCHANGED <<lock, tables>>
EnterPreCompute(t) ==
  /\ thr[t].pc = "enter"
  /\ Enter(t)
  /\ thr' = [thr EXCEPT ![t].pc = "fill", ![t].k = 1]
  /\ UNCHANGED tables
FillTables(t) ==
  LET last == thr[t].k = Len(MapOrder)
  IN  /\ thr[t].pc = "fill"
      /\ tables' = FillTable(tables, thr[t].k, ThisModulus(t), ThisDim(t), ThisRoot(t))
      /\ lock' = IF last THEN NoThread ELSE lock
      /\ thr' = [thr EXCEPT ![t].k = IF last THEN 0 ELSE @ + 1,
                            ![t].pc = IF last THEN "fetch" ELSE @]

(* the lookups of the tables by operator[], then the butterflies, which    *)
(* read the tables; the packed encoding remembers the root that they used  *)
FetchTables(t) ==
  /\ thr[t].pc = "fetch"
  /\ Goto(t, "transform")
  /\ UNCHANGED <<lock, tables>>
Transform(t) ==
  LET left == thr[t].todo \ {ThisTower(t)}
      table == CHOOSE m \in MapsRead(thr[t].dir) : TRUE
      next == IF left # {} THEN "find"
              ELSE IF thr[t].op = "pack" /\ thr[t].dir = "forward" THEN "permute" ELSE "done"
  IN  /\ thr[t].pc = "transform"
      /\ thr' = [thr EXCEPT ![t].pc = next, ![t].todo = left,
                            ![t].used.root = IF thr[t].op = "pack"
                                             THEN tables[table][ThisModulus(t)][2] ELSE @]
      /\ UNCHANGED <<lock, tables>>

(* The precomputation of packed encoding, by need: inside the critical     *)
(* section the primality test and the search for a root draw random        *)
(* numbers.                                                                *)
PackLookup(t) ==
  LET ready == initRoot[ThisKey(t)] \notin {NoEntry, 0}
  IN  /\ thr[t].pc = "packLookup"
      /\ initRoot' = [initRoot EXCEPT ![ThisKey(t)] = IF @ = NoEntry THEN 0 ELSE @]
      /\ Goto(t, IF ready THEN "packRoot" ELSE "setParams")
      /\ UNCHANGED <<lock, perms>>
SetParams(t) ==
  \/ /\ thr[t].pc = "setParams"
     /\ Enter(t)
     /\ thr' = [thr EXCEPT ![t].pc = "prng", ![t].ret = "setRoot"]
     /\ UNCHANGED <<initRoot, perms>>
  \/ /\ thr[t].pc = "setRoot"
     /\ \E r \in PackRoots[ThisKey(t)] :
           initRoot' = [initRoot EXCEPT ![ThisKey(t)] = r]
     /\ Goto(t, "setPerms")
     /\ UNCHANGED <<lock, perms>>
  \/ /\ thr[t].pc = "setPerms"
     /\ perms' = [perms EXCEPT ![ThisKey(t)[2]] = TRUE]
     /\ lock' = NoThread
     /\ Goto(t, "packRoot")
     /\ UNCHANGED initRoot

(* Pack permutes before the inverse transform, Unpack after the forward    *)
(* one; both go without the permutation when its table is empty.           *)
PackRoot(t) ==
  /\ thr[t].pc = "packRoot"
  /\ thr' = [thr EXCEPT ![t].pc = IF thr[t].dir = "inverse" THEN "permute" ELSE "find",
                        ![t].root = initRoot[ThisKey(t)],
                        ![t].todo = {1}]
  /\ UNCHANGED <<lock, initRoot, perms>>
Permute(t) ==
  /\ thr[t].pc = "permute"
  /\ thr' = [thr EXCEPT ![t].pc = IF thr[t].dir = "inverse" THEN "find" ELSE "done",
                        ![t].used.permuted = perms[ThisKey(t)[2]]]
  /\ UNCHANGED <<lock, initRoot, perms>>

ThreadStep(t) ==
  \/ GetPRNG(t) /\ UNCHANGED <<tables, initRoot, perms, live, encoded>>
  \/ /\ FindTables(t) \/ EnterPreCompute(t) \/ FillTables(t) \/ FetchTables(t) \/ Transform(t)
     /\ UNCHANGED <<prng, initRoot, perms, live, encoded>>
  \/ /\ PackLookup(t) \/ SetParams(t) \/ PackRoot(t) \/ Permute(t)
     /\ UNCHANGED <<prng, tables, live, encoded>>

Application ==
  \/ \E c \in Contexts, how \in CreatedBy : CreateContext(c, how)
  \/ ClearStaticMapsAndVectors
  \/ \E c \in Contexts, dir \in {"forward", "inverse"} :
        \/ \E share \in [DOMAIN Towers[c] -> Threads] : SwitchFormat(c, dir, share)
        \/ \E team \in {{Master}} \cup (IF TeamsPack THEN {Threads} ELSE {}) : Packing(c, dir, team)
  \/ \E c \in Contexts : KeySwitchGen(c)

Next == Application \/ (\E t \in Threads : ThreadStep(t)) \/ Join

(* The runtime lets every thread of a team run and ends a region whose     *)
(* threads have finished.  Nothing is assumed of the application.          *)
Fairness == WF_vars(Join) /\ \A t \in Threads : WF_vars(ThreadStep(t))
Spec == Init /\ [][Next]_vars /\ Fairness

-----------------------------------------------------------------------------
(***************************************************************************)
(* Memory accesses of the next step of a thread.  A map has a structure,   *)
(* which an insertion writes and a lookup reads (part <<>>), and a value   *)
(* per key.                                                                *)
(***************************************************************************)
Access(obj, part, write) == [obj |-> obj, part |-> part, write |-> write]
ReadEntry(obj, key) == {Access(obj, <<>>, FALSE), Access(obj, key, FALSE)}
WriteEntry(obj, key, absent) == {Access(obj, <<>>, absent), Access(obj, key, TRUE)}

Accesses(t) ==
  LET pc == thr[t].pc
      q == ThisModulus(t)
  IN  CASE pc = "find" -> ReadEntry("root", <<q>>)
        [] pc = "fill" -> LET m == MapOrder[thr[t].k] IN WriteEntry(m, <<q>>, tables[m][q] = Absent)
        [] pc = "fetch" -> {Access(m, <<>>, tables[m][q] = Absent) : m \in MapsRead(thr[t].dir)}
        [] pc = "transform" -> {Access(m, <<q>>, FALSE) : m \in MapsRead(thr[t].dir)}
        [] pc = "packLookup" -> ReadEntry("initRoot", ThisKey(t))
              \cup {Access("initRoot", <<>>, initRoot[ThisKey(t)] = NoEntry)}
        [] pc = "setRoot" -> WriteEntry("initRoot", ThisKey(t), initRoot[ThisKey(t)] = NoEntry)
        [] pc = "packRoot" -> ReadEntry("initRoot", ThisKey(t))
        [] pc = "setPerms" -> WriteEntry("perms", <<ThisKey(t)[2]>>, ~ perms[ThisKey(t)[2]])
        [] pc = "permute" -> ReadEntry("perms", <<ThisKey(t)[2]>>)
              \cup {Access("perms", <<>>, ~ perms[ThisKey(t)[2]])}
        [] OTHER -> {}

-----------------------------------------------------------------------------
(* The tables are looked up and read without a lock, and that is sound     *)
(* only because creating a context fills them before any region uses it:   *)
(* no two threads are about to touch the same map structure or the same    *)
(* table, one of them writing, although contexts of two dimensions share a *)
(* modulus and replace each other's tables.                                *)
NoDataRace ==
  \A t, u \in Threads : t # u =>
    \A x \in Accesses(t), y \in Accesses(u) :
      x.obj = y.obj /\ x.part = y.part => ~ x.write /\ ~ y.write

(* A transform reads, in every map of its direction, the table of its own  *)
(* ring dimension and of the root that it was given: the maps are keyed by *)
(* the modulus alone, and six of them are replaced one after the other.    *)
OwnTables ==
  \A t \in Threads : thr[t].pc = "transform" =>
    \A m \in MapsRead(thr[t].dir) : tables[m][ThisModulus(t)] = <<ThisDim(t), ThisRoot(t)>>

(* Unpack undoes Pack: it uses the root and the permutation that encoded   *)
(* the plaintext, also when the caches were cleared in between and the     *)
(* root was searched again from other random numbers.                      *)
DecodeMatchesEncode ==
  \A t \in Threads : thr[t].op = "pack" /\ thr[t].dir = "forward" /\ thr[t].pc = "done" =>
    thr[t].used = encoded[thr[t].c]

(* Every parallel region comes to its end: the critical section is left by *)
(* every thread that entered it, and no thread waits for itself, which it  *)
(* would if its first draw of GetPRNG came inside SetParams.               *)
RegionsEnd == ~ Sequential ~> Sequential

=============================================================================
