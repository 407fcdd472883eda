------------------------- MODULE SharedTables_proof -------------------------
(***************************************************************************)
(* Proofs about SharedTables, for every number of threads, contexts and    *)
(* towers and for all dimensions and moduli: threads that use the shared   *)
(* tables outside the critical section do not race, a transform reads its  *)
(* own tables, and what was packed is unpacked with the same root.         *)
(***************************************************************************)
EXTENDS SharedTables, FiniteSetTheorems, WellFoundedInduction, TLAPS

-----------------------------------------------------------------------------
(* Induction over the natural numbers, for sets.                           *)

(* A non-empty set of natural numbers has a least element.                  *)
LEMMA LeastExists ==
  ASSUME NEW S \in SUBSET Nat, S # {}
  PROVE  \E x \in S : \A y \in S : x <= y
PROOF
<1> DEFINE T == {0 .. n : n \in S}
<1>1. \A n \in Nat : 0 .. n \in SUBSET Nat /\ IsFiniteSet(0 .. n)
  BY FS_Interval
<1>2. T \subseteq FiniteSubsetsOf(Nat) /\ T # {}
  BY <1>1 DEF FiniteSubsetsOf
<1>3. PICK X \in T : \A Y \in T : <<Y, X>> \notin StrictSubsetOrdering(Nat)
  <2> HIDE DEF T
  <2> QED
    BY <1>2, FS_StrictSubsetOrderingWellFounded, WFMin
<1>4. PICK x \in S : X = 0 .. x
  BY <1>3
<1>5. ASSUME NEW y \in S, y < x
      PROVE  FALSE
  <2>1. x \in 0 .. x /\ x \notin 0 .. y /\ 0 .. y \subseteq 0 .. x
    BY <1>5
  <2>2. <<0 .. y, 0 .. x>> \in (SUBSET Nat) \X (SUBSET Nat)
    BY <1>1
  <2>3. <<0 .. y, 0 .. x>> \in StrictSubsetOrdering(Nat)
    BY <2>1, <2>2 DEF StrictSubsetOrdering
  <2> QED
    BY <1>3, <1>4, <2>3
<1> QED
  BY <1>5

(* What the program relies on: contexts are dropped when the caches are    *)
(* cleared, a team only uses a context whose tables are those in the maps, *)
(* and packed plaintexts are encoded by the sequential part.               *)
UsageRules == ~ UseAfterClear /\ ~ TeamsWhenStale /\ ~ TeamsPack

(* RootOfUnity returns the least primitive root, whatever generator the    *)
(* random search came upon.                                                *)
UniqueRoots ==
  \A c \in Contexts : \A q \in Range(Towers[c]) \cup {PlaintextModulus[c]} :
    \A r, s \in RootOfUnity(CycloOrder(c), q) : r = s

-----------------------------------------------------------------------------
(* The inductive invariant. *)
Root(n, q) == CHOOSE r \in RootOfUnity(2 * n, q) : TRUE
Entry(n, q) == <<n, Root(n, q)>>
PlaintextRoot(c) == Root(Dim[c], PlaintextModulus[c])
Packed(c) == [permuted |-> TRUE, root |-> PlaintextRoot(c)]

Dims == {Dim[c] : c \in Contexts}
Entries == {Absent} \cup {Entry(n, q) : n \in Dims, q \in Moduli}
AnyRoot == {NoEntry, 0} \cup {Root(n, q) : n \in Dims, q \in Moduli}
              \cup UNION {PackRoots[pm] : pm \in PackKeys}

TeamPCs == {"prng", "prngEnter", "prngCreate", "find", "fetch", "transform", "done"}
TowerPCs == {"find", "enter", "fill", "fetch", "transform", "done"}
SearchPCs == {"packLookup", "setParams", "prng", "prngEnter", "prngCreate", "setRoot", "setPerms"}
TransformPCs == {"find", "enter", "fill", "fetch", "transform"}
PackPCs == SearchPCs \cup {"packRoot", "permute", "done"} \cup TransformPCs

PCs == {"idle"} \cup TeamPCs \cup TowerPCs \cup PackPCs

Thread == [pc : PCs,
           op : {"none", "towers", "team", "pack"},
           c : Contexts \cup {"none"},
           dir : {"forward", "inverse"},
           todo : SUBSET Nat,
           root : AnyRoot,
           k : 0 .. 6,
           ret : {"idle", "find", "setRoot"},
           used : [permuted : BOOLEAN, root : AnyRoot]]

TypeOK ==
  /\ tables \in [Maps -> [Moduli -> Entries]]
  /\ \A m \in Maps, q \in Moduli : tables[m][q] # Absent => tables[m][q] = Entry(tables[m][q][1], q)
  /\ initRoot \in [PackKeys -> AnyRoot]
  /\ perms \in [{pm[2] : pm \in PackKeys} -> BOOLEAN]
  /\ live \subseteq Contexts
  /\ encoded \in [Contexts -> [permuted : BOOLEAN, root : AnyRoot]]
  /\ thr \in [Threads -> Thread]

Busy(t) == thr[t].pc # "idle"

(* All busy threads work on one region, of a context that is in use. *)
OneRegion ==
  /\ \A t \in Threads : ~ Busy(t) => thr[t].op = "none"
  /\ \A t, u \in Threads : Busy(t) =>
       /\ thr[t].c \in live
       /\ Busy(u) => thr[u].op = thr[t].op /\ thr[u].c = thr[t].c
       /\ thr[t].op = "pack" => t = Master

\* a thread has a tower in hand until it is done
TowersLeft(t) == /\ thr[t].todo \subseteq DOMAIN Towers[thr[t].c]
                 /\ thr[t].pc # "done" => thr[t].todo # {}

(* The towers of SwitchFormat are shared out; a thread of a team goes      *)
(* through all of them and finds every table; one thread packs.            *)
TowersOK(t) == thr[t].op = "towers" =>
  /\ thr[t].pc \in TowerPCs
  /\ TowersLeft(t)
  /\ \A u \in Threads : u # t /\ Busy(u) => thr[u].todo \cap thr[t].todo = {}
TeamOK(t) == thr[t].op = "team" =>
  /\ thr[t].pc \in TeamPCs
  /\ thr[t].ret = "find"
  /\ TowersLeft(t)
  /\ Current(thr[t].c)
PackOK(t) == thr[t].op = "pack" =>
  /\ thr[t].pc \in PackPCs
  /\ thr[t].pc \in {"prng", "prngEnter", "prngCreate"} => thr[t].ret = "setRoot"
  /\ thr[t].dir = "forward" => encoded[thr[t].c] # NotEncoded
  /\ thr[t].pc \in TransformPCs \/ (thr[t].pc = "permute" /\ thr[t].dir = "inverse") => thr[t].todo = {1}
  /\ thr[t].pc \in {"setPerms", "packRoot"} => initRoot[ThisKey(t)] = PlaintextRoot(thr[t].c)
  /\ thr[t].pc \notin SearchPCs => perms[ThisKey(t)[2]]
  /\ thr[t].pc \in TransformPCs \cup {"permute"} => thr[t].root = PlaintextRoot(thr[t].c)
  /\ IF thr[t].dir = "inverse"
     THEN /\ thr[t].pc \in TransformPCs \cup {"done"} => thr[t].used.permuted
          /\ thr[t].pc = "done" => thr[t].used.root = PlaintextRoot(thr[t].c)
     ELSE /\ thr[t].pc \in {"permute", "done"} => thr[t].used.root = PlaintextRoot(thr[t].c)
          /\ thr[t].pc = "done" => thr[t].used.permuted
RegionOK == \A t \in Threads : Busy(t) => thr[t].op # "none" /\ TowersOK(t) /\ TeamOK(t) /\ PackOK(t)

(* The six tables of a modulus agree unless a thread is writing them; what *)
(* that thread has written is its own, and a transform finds its own.      *)
Filling(q) == \E t \in Threads : thr[t].pc = "fill" /\ ThisModulus(t) = q
TablesAgree == \A q \in Moduli : ~ Filling(q) =>
  \A m, n \in Maps : tables[m][q] = tables[n][q]
WrittenOwn == \A t \in Threads : thr[t].pc = "fill" =>
  /\ thr[t].k \in 1 .. 6
  /\ \A i \in 1 .. thr[t].k - 1 : tables[MapOrder[i]][ThisModulus(t)] = Entry(ThisDim(t), ThisModulus(t))
FoundOwn == \A t \in Threads : thr[t].pc \in {"fetch", "transform"} =>
  \A m \in Maps : tables[m][ThisModulus(t)] = Entry(ThisDim(t), ThisModulus(t))
(* Creating a context filled the tables of its towers. *)
LiveFilled == \A c \in live : \A q \in Range(Towers[c]), m \in Maps : tables[m][q] # Absent

(* The packed encoding: a root in the map is the root, its permutation is  *)
(* there unless the thread that searched the root is about to write it,    *)
(* and every plaintext was encoded with both.                              *)
RootsRight == \A pm \in PackKeys : initRoot[pm] \in {NoEntry, 0} \cup PackRoots[pm]
PermsFilled == \A pm \in PackKeys : initRoot[pm] \notin {NoEntry, 0} =>
  perms[pm[2]] \/ \E t \in Threads : thr[t].pc = "setPerms" /\ ThisKey(t) = pm
EncodedRight == \A c \in Contexts : encoded[c] \in {NotEncoded, Packed(c)}

IInv == /\ TypeOK /\ OneRegion /\ RegionOK
        /\ TablesAgree /\ WrittenOwn /\ FoundOwn /\ LiveFilled
        /\ RootsRight /\ PermsFilled /\ EncodedRight

-----------------------------------------------------------------------------
LEMMA LeastIn ==
  ASSUME NEW S \in SUBSET Nat, S # {}
  PROVE  Least(S) \in S
BY LeastExists DEF Least

(* The maps, and the moduli and keys of a context. *)
LEMMA MapFacts ==
  /\ Len(MapOrder) = 6
  /\ \A i \in 1 .. 6 : MapOrder[i] \in Maps
  /\ \A m \in Maps : \E i \in 1 .. 6 : m = MapOrder[i]
  /\ "root" \in Maps
  /\ \A dir : MapsRead(dir) \subseteq Maps /\ MapsRead(dir) # {}
PROOF
<1>1. Maps = {MapOrder[i] : i \in DOMAIN MapOrder}
  BY DEF Maps, Range
<1>2. Len(MapOrder) = 6 /\ DOMAIN MapOrder = 1 .. 6
  BY DEF MapOrder
<1>3. Maps = {"root", "rootInverse", "rootPrecon", "rootInversePrecon",
              "cycloOrderInverse", "cycloOrderInversePrecon"}
  BY <1>1, <1>2 DEF MapOrder
<1> QED
  BY <1>1, <1>2, <1>3 DEF MapsRead

LEMMA ContextFacts ==
  ASSUME NEW c \in Contexts
  PROVE  /\ Dim[c] \in Nat \ {0} /\ Dim[c] \in Dims
         /\ DOMAIN Towers[c] = 1 .. Len(Towers[c]) /\ DOMAIN Towers[c] \subseteq Nat
         /\ DOMAIN Towers[c] # {}
         /\ \A i \in DOMAIN Towers[c] : Towers[c][i] \in Range(Towers[c])
         /\ Range(Towers[c]) \subseteq Moduli
         /\ PlaintextModulus[c] \in Moduli
         /\ PackKey(c) \in PackKeys
         /\ PackKey(c)[1] = PlaintextModulus[c] /\ PackKey(c)[2] = 2 * Dim[c]
PROOF
<1>1. Towers[c] \in Seq(Nat) /\ Towers[c] # <<>>
  BY TowersAssumption
<1>2. Range(Towers[c]) = {Towers[c][i] : i \in DOMAIN Towers[c]}
  BY DEF Range
<1>3. DOMAIN Towers[c] = 1 .. Len(Towers[c]) /\ Len(Towers[c]) \in Nat \ {0}
  BY <1>1
<1>4. DOMAIN Towers[c] \subseteq Nat /\ 1 \in DOMAIN Towers[c]
  BY <1>3
<1>5. Range(Towers[c]) \subseteq Moduli /\ PlaintextModulus[c] \in Moduli
  BY DEF Moduli
<1>6. Dim[c] \in Nat \ {0} /\ Dim[c] \in Dims
  BY DimAssumption DEF Dims
<1>7. PackKey(c) \in PackKeys /\ PackKey(c)[1] = PlaintextModulus[c] /\ PackKey(c)[2] = 2 * Dim[c]
  BY DEF PackKeys, PackKey, CycloOrder
<1> QED
  BY <1>2, <1>3, <1>4, <1>5, <1>6, <1>7

LEMMA TowerRootIs ==
  ASSUME NEW c \in Contexts, NEW q \in Range(Towers[c])
  PROVE  TowerRoot(c, q) = Root(Dim[c], q)
BY DEF TowerRoot, TowerRoots, Root, CycloOrder

LEMMA PackRootIs ==
  ASSUME UniqueRoots, NEW c \in Contexts, NEW r \in PackRoots[PackKey(c)]
  PROVE  r = PlaintextRoot(c)
PROOF
<1>1. PackRoots[PackKey(c)] = RootOfUnity(CycloOrder(c), PlaintextModulus[c])
  BY ContextFacts DEF PackRoots, PackKey
<1>2. Root(Dim[c], PlaintextModulus[c]) \in RootOfUnity(CycloOrder(c), PlaintextModulus[c])
  BY <1>1 DEF Root, CycloOrder
<1> QED
  BY <1>1, <1>2 DEF UniqueRoots, PlaintextRoot

LEMMA PlaintextRootType ==
  ASSUME NEW c \in Contexts
  PROVE  PlaintextRoot(c) \in AnyRoot
BY ContextFacts DEF AnyRoot, PlaintextRoot

LEMMA EntryFacts ==
  ASSUME NEW c \in Contexts, NEW q \in Moduli
  PROVE  /\ Entry(Dim[c], q) \in Entries
         /\ Entry(Dim[c], q) # Absent
         /\ Entry(Dim[c], q)[1] = Dim[c] /\ Entry(Dim[c], q)[2] = Root(Dim[c], q)
BY ContextFacts DEF Entries, Entry, Absent

-----------------------------------------------------------------------------
(* What the invariant says of a busy thread. *)
LEMMA BusyFacts ==
  ASSUME TypeOK, OneRegion, RegionOK, NEW t \in Threads, Busy(t)
  PROVE  /\ thr[t].c \in Contexts /\ thr[t].c \in live
         /\ thr[t].op \in {"towers", "team", "pack"}
         /\ TowersOK(t) /\ TeamOK(t) /\ PackOK(t)
PROOF
<1>1. thr[t].op \in {"none", "towers", "team", "pack"}
  BY DEF TypeOK, Thread
<1>2. thr[t].c \in live
  BY DEF OneRegion
<1>3. thr[t].op # "none" /\ TowersOK(t) /\ TeamOK(t) /\ PackOK(t)
  BY DEF RegionOK
<1> QED
  BY <1>1, <1>2, <1>3 DEF TypeOK

LEMMA ModulusFacts ==
  ASSUME TypeOK, OneRegion, RegionOK, NEW t \in Threads, thr[t].pc \in TransformPCs
  PROVE  /\ ThisModulus(t) \in Moduli
         /\ thr[t].op # "pack" => /\ ThisTower(t) \in thr[t].todo
                                  /\ ThisTower(t) \in DOMAIN Towers[thr[t].c]
                                  /\ ThisModulus(t) = Towers[thr[t].c][ThisTower(t)]
                                  /\ ThisModulus(t) \in Range(Towers[thr[t].c])
         /\ thr[t].op = "pack" => ThisModulus(t) = PlaintextModulus[thr[t].c]
         /\ ThisRoot(t) = Root(ThisDim(t), ThisModulus(t))
PROOF
<1>1. Busy(t)
  BY DEF Busy, TransformPCs
<1>2. /\ thr[t].c \in Contexts
      /\ TowersOK(t) /\ TeamOK(t) /\ PackOK(t) /\ thr[t].op \in {"towers", "team", "pack"}
  BY <1>1, BusyFacts
<1>3. CASE thr[t].op = "pack"
  <2>1. ThisModulus(t) = PlaintextModulus[thr[t].c]
    BY <1>3 DEF ThisModulus
  <2>2. thr[t].root = PlaintextRoot(thr[t].c)
    BY <1>2, <1>3 DEF PackOK
  <2>3. ThisRoot(t) = Root(ThisDim(t), ThisModulus(t))
    BY <2>1, <2>2, <1>3 DEF ThisRoot, PlaintextRoot, ThisDim
  <2> QED
    BY <2>1, <2>3, <1>2, <1>3, ContextFacts
<1>4. CASE thr[t].op \in {"towers", "team"}
  <2>1. thr[t].todo \subseteq DOMAIN Towers[thr[t].c] /\ thr[t].todo # {}
    BY <1>2, <1>4 DEF TowersOK, TeamOK, TowersLeft, TransformPCs
  <2>2. thr[t].todo \in SUBSET Nat
    BY DEF TypeOK, Thread
  <2>3. ThisTower(t) \in thr[t].todo
    BY <2>1, <2>2, LeastIn DEF ThisTower
  <2>4. ThisModulus(t) = Towers[thr[t].c][ThisTower(t)]
    BY <1>4 DEF ThisModulus
  <2>5. ThisModulus(t) \in Range(Towers[thr[t].c]) /\ ThisModulus(t) \in Moduli
    BY <2>1, <2>3, <2>4, <1>2, ContextFacts
  <2>6. ThisRoot(t) = Root(ThisDim(t), ThisModulus(t))
    BY <2>5, <1>2, <1>4, TowerRootIs DEF ThisRoot, ThisDim
  <2> QED
    BY <2>1, <2>3, <2>4, <2>5, <2>6, <1>4
<1> QED
  BY <1>2, <1>3, <1>4

(* A thread that is about to fill tables has a modulus to itself: only a   *)
(* thread with its share of the towers, or the one that packs, comes there.*)
LEMMA Apart ==
  ASSUME TypeOK, OneRegion, RegionOK, NEW t \in Threads, NEW u \in Threads, t # u,
         thr[t].pc \in {"enter", "fill"}, thr[u].pc \in TransformPCs
  PROVE  ThisModulus(t) # ThisModulus(u)
PROOF
<1>1. Busy(t) /\ Busy(u) /\ thr[t].pc \in TransformPCs
  BY DEF Busy, TransformPCs
<1>2. thr[t].op \in {"towers", "team", "pack"} /\ TowersOK(t) /\ TeamOK(t) /\ thr[t].c \in Contexts
  BY <1>1, BusyFacts
<1>3. thr[u].op = thr[t].op /\ thr[u].c = thr[t].c /\ (thr[t].op = "pack" => t = Master /\ u = Master)
  BY <1>1 DEF OneRegion
<1>4. thr[t].op = "towers"
  BY <1>2, <1>3 DEF TeamOK, TeamPCs
<1>5. thr[u].todo \cap thr[t].todo = {}
  BY <1>1, <1>2, <1>4 DEF TowersOK
<1>6. /\ ThisTower(t) \in thr[t].todo /\ ThisTower(t) \in DOMAIN Towers[thr[t].c]
      /\ ThisModulus(t) = Towers[thr[t].c][ThisTower(t)]
  BY <1>1, <1>4, ModulusFacts
<1>7. /\ ThisTower(u) \in thr[u].todo /\ ThisTower(u) \in DOMAIN Towers[thr[t].c]
      /\ ThisModulus(u) = Towers[thr[t].c][ThisTower(u)]
  BY <1>3, <1>4, ModulusFacts
<1>8. ThisTower(t) # ThisTower(u)
  BY <1>5, <1>6, <1>7
<1> QED
  BY <1>2, <1>6, <1>7, <1>8, TowersAssumption

(* Threads with towers find no map without their modulus. *)
LEMMA TowersFound ==
  ASSUME TypeOK, OneRegion, RegionOK, LiveFilled,
         NEW t \in Threads, thr[t].pc \in TransformPCs, thr[t].op # "pack", NEW m \in Maps
  PROVE  tables[m][ThisModulus(t)] # Absent
PROOF
<1>1. thr[t].c \in live
  BY BusyFacts DEF Busy, TransformPCs
<1> QED
  BY <1>1, ModulusFacts DEF LiveFilled

-----------------------------------------------------------------------------
(* The invariant implies the properties. *)
LEMMA NoRace ==
  ASSUME IInv
  PROVE  NoDataRace
PROOF
<1> USE DEF IInv
<1> DEFINE PackAccessPCs == {"packLookup", "setRoot", "packRoot", "setPerms", "permute"}
<1> SUFFICES ASSUME NEW t \in Threads, NEW u \in Threads, t # u,
                    NEW x \in Accesses(t), NEW y \in Accesses(u),
                    x.obj = y.obj, x.part = y.part
             PROVE  ~ x.write /\ ~ y.write
  BY DEF NoDataRace
<1>1. ASSUME NEW v \in Threads, NEW a \in Accesses(v)
      PROVE  Busy(v) /\ thr[v].pc \in TransformPCs \cup PackAccessPCs
  BY <1>1 DEF Accesses, Busy, TransformPCs
<1>2. thr[t].op = thr[u].op /\ thr[t].op # "pack" /\ thr[t].op \in {"towers", "team", "pack"}
  BY <1>1, BusyFacts DEF OneRegion
<1>3. ASSUME NEW v \in {t, u}, NEW a \in Accesses(v)
      PROVE  /\ thr[v].pc \in TransformPCs
             /\ a.write => thr[v].pc = "fill" /\ a.part = <<ThisModulus(v)>>
             /\ a.part \in {<<>>, <<ThisModulus(v)>>}
  <2>1. thr[v].pc \in TransformPCs
    <3>1. /\ thr[v].pc \in TransformPCs \cup PackAccessPCs
          /\ Busy(v) /\ thr[v].op \in {"towers", "team"}
      BY <1>1, <1>2, <1>3
    <3>2. thr[v].pc \in TowerPCs \cup TeamPCs
      BY <1>3, <3>1, BusyFacts DEF TowersOK, TeamOK
    <3> QED
      BY <3>1, <3>2 DEF TowerPCs, TeamPCs, TransformPCs
  <2>2. \A m \in Maps : tables[m][ThisModulus(v)] # Absent
    BY <2>1, <1>2, TowersFound
  <2>3. CASE thr[v].pc = "find"
    BY <1>3, <2>1, <2>3 DEF Accesses, ReadEntry, Access
  <2>4. CASE thr[v].pc = "enter"
    BY <1>3, <2>4 DEF Accesses
  <2>5. CASE thr[v].pc = "fill"
    <3>1. MapOrder[thr[v].k] \in Maps
      <4>1. thr[v].k \in 1 .. 6
        BY <2>5 DEF WrittenOwn
      <4> QED
        BY <4>1, MapFacts
    <3>2. a \in WriteEntry(MapOrder[thr[v].k], <<ThisModulus(v)>>,
                           tables[MapOrder[thr[v].k]][ThisModulus(v)] = Absent)
      BY <1>3, <2>5 DEF Accesses
    <3>3. (tables[MapOrder[thr[v].k]][ThisModulus(v)] = Absent) = FALSE
      BY <2>2, <3>1
    <3>4. a \in {Access(MapOrder[thr[v].k], <<>>, FALSE),
                 Access(MapOrder[thr[v].k], <<ThisModulus(v)>>, TRUE)}
      BY <3>2, <3>3 DEF WriteEntry
    <3> QED
      BY <2>1, <2>5, <3>4 DEF Access
  <2>6. CASE thr[v].pc = "fetch"
    <3>1. a \in {Access(m, <<>>, tables[m][ThisModulus(v)] = Absent) : m \in MapsRead(thr[v].dir)}
      BY <1>3, <2>6 DEF Accesses
    <3>2. PICK m \in MapsRead(thr[v].dir) : a = Access(m, <<>>, tables[m][ThisModulus(v)] = Absent)
      BY <3>1
    <3>3. (tables[m][ThisModulus(v)] = Absent) = FALSE
      BY <2>2, <3>2, MapFacts
    <3>4. a = Access(m, <<>>, FALSE)
      BY <3>2, <3>3
    <3> QED
      BY <2>1, <3>4 DEF Access
  <2>7. CASE thr[v].pc = "transform"
    BY <1>3, <2>1, <2>7 DEF Accesses, Access
  <2> QED
    BY <2>1, <2>3, <2>4, <2>5, <2>6, <2>7 DEF TransformPCs
<1>4. thr[t].pc \in TransformPCs /\ thr[u].pc \in TransformPCs
  BY <1>3
<1>5. ~ x.write
  <2>1. SUFFICES ASSUME x.write
                 PROVE  FALSE
    OBVIOUS
  <2>2. thr[t].pc = "fill" /\ x.part = <<ThisModulus(t)>>
    BY <1>3, <2>1
  <2>3. ThisModulus(t) # ThisModulus(u)
    BY <2>2, <1>4, Apart
  <2>4. y.part \in {<<>>, <<ThisModulus(u)>>}
    BY <1>3
  <2> QED
    BY <2>2, <2>3, <2>4
<1>6. ~ y.write
  <2>1. SUFFICES ASSUME y.write
                 PROVE  FALSE
    OBVIOUS
  <2>2. thr[u].pc = "fill" /\ y.part = <<ThisModulus(u)>>
    BY <1>3, <2>1
  <2>3. ThisModulus(u) # ThisModulus(t)
    BY <2>2, <1>4, Apart
  <2>4. x.part \in {<<>>, <<ThisModulus(t)>>}
    BY <1>3
  <2> QED
    BY <2>2, <2>3, <2>4
<1> QED
  BY <1>5, <1>6

LEMMA FoundAreOwn ==
  ASSUME IInv
  PROVE  OwnTables
PROOF
<1> SUFFICES ASSUME NEW t \in Threads, thr[t].pc = "transform", NEW m \in MapsRead(thr[t].dir)
             PROVE  tables[m][ThisModulus(t)] = <<ThisDim(t), ThisRoot(t)>>
  BY DEF OwnTables
<1>1. ThisRoot(t) = Root(ThisDim(t), ThisModulus(t))
  BY ModulusFacts DEF IInv, TransformPCs
<1>2. tables[m][ThisModulus(t)] = Entry(ThisDim(t), ThisModulus(t))
  BY MapFacts DEF IInv, FoundOwn
<1> QED
  BY <1>1, <1>2 DEF Entry

LEMMA DecodesAsEncoded ==
  ASSUME IInv
  PROVE  DecodeMatchesEncode
PROOF
<1> USE DEF IInv
<1> SUFFICES ASSUME NEW t \in Threads,
                    thr[t].op = "pack", thr[t].dir = "forward", thr[t].pc = "done"
             PROVE  thr[t].used = encoded[thr[t].c]
  BY DEF DecodeMatchesEncode
<1>1. thr[t].c \in Contexts /\ PackOK(t)
  BY BusyFacts DEF Busy
<1>2. thr[t].used.permuted /\ thr[t].used.root = PlaintextRoot(thr[t].c)
  BY <1>1 DEF PackOK
<1>3. thr[t].used \in [permuted : BOOLEAN, root : AnyRoot]
  BY DEF TypeOK, Thread
<1>4. thr[t].used = Packed(thr[t].c)
  BY <1>2, <1>3 DEF Packed
<1>5. encoded[thr[t].c] = Packed(thr[t].c)
  BY <1>1 DEF PackOK, EncodedRight
<1> QED
  BY <1>4, <1>5

-----------------------------------------------------------------------------
(* A step of one thread: the others stay where they are.                   *)
Moves(t) ==
  /\ Busy(t) /\ thr'[t].pc # "idle"
  /\ thr' \in [Threads -> Thread]
  /\ \A u \in Threads : u # t => thr'[u] = thr[u]
  /\ thr'[t].op = thr[t].op /\ thr'[t].c = thr[t].c /\ thr'[t].dir = thr[t].dir
  /\ thr[t].op = "towers" => thr'[t].todo \subseteq thr[t].todo
  /\ live' = live /\ encoded' = encoded

LEMMA OthersKeep ==
  ASSUME IInv, NEW t \in Threads, Moves(t), thr[t].op = "team" => tables' = tables
  PROVE  /\ OneRegion'
         /\ \A u \in Threads : u # t /\ Busy(u)' =>
               thr'[u].op # "none" /\ TowersOK(u)' /\ TeamOK(u)' /\ PackOK(u)'
PROOF
<1> USE DEF IInv
<1>1. \A u \in Threads : Busy(u)' <=> Busy(u)
  BY DEF Moves, Busy
<1>2. \A u \in Threads : thr'[u].op = thr[u].op /\ thr'[u].c = thr[u].c
  BY DEF Moves
<1>3. OneRegion'
  BY <1>1, <1>2 DEF OneRegion, Moves
<1>4. ASSUME NEW u \in Threads, u # t, Busy(u)'
      PROVE  thr'[u].op # "none" /\ TowersOK(u)' /\ TeamOK(u)' /\ PackOK(u)'
  <2>1. Busy(u) /\ thr'[u] = thr[u]
    BY <1>1, <1>4 DEF Moves
  <2>2. /\ thr[u].op \in {"towers", "team", "pack"} /\ TowersOK(u) /\ TeamOK(u)
        /\ thr[u].op = thr[t].op /\ thr[u].op # "pack"
    BY <1>4, <2>1, BusyFacts DEF OneRegion, Moves
  <2>3. TowersOK(u)'
    <3>1. ASSUME thr[u].op = "towers"
          PROVE  /\ TowersLeft(u)
                 /\ \A v \in Threads : v # u /\ Busy(v) => thr'[v].todo \cap thr[u].todo = {}
      <4>1. TowersLeft(u) /\ \A v \in Threads : v # u /\ Busy(v) => thr[v].todo \cap thr[u].todo = {}
        BY <2>2, <3>1 DEF TowersOK
      <4>2. \A v \in Threads : v # u /\ Busy(v) => thr'[v].todo \subseteq thr[v].todo
        BY <2>2, <3>1 DEF Moves
      <4> QED
        BY <4>1, <4>2
    <3> QED
      BY <1>1, <2>1, <2>2, <3>1 DEF TowersOK, TowersLeft
  <2>4. TeamOK(u)'
    BY <2>1, <2>2 DEF TeamOK, TowersLeft, Current, Lookup
  <2> QED
    BY <2>1, <2>2, <2>3, <2>4 DEF PackOK
<1> QED
  BY <1>3, <1>4

LEMMA TablesKept ==
  ASSUME IInv, NEW t \in Threads, Moves(t), tables' = tables, thr[t].pc # "fill",
         thr'[t].pc = "fill" => thr'[t].k = 1,
         thr'[t].pc \in {"fetch", "transform"} =>
           \A m \in Maps : tables[m][ThisModulus(t)'] = Entry(ThisDim(t)', ThisModulus(t)')
  PROVE  TablesAgree' /\ WrittenOwn' /\ FoundOwn' /\ LiveFilled'
PROOF
<1> USE DEF IInv
<1>1. \A u \in Threads : u # t => /\ thr'[u] = thr[u] /\ ThisModulus(u)' = ThisModulus(u)
                                 /\ ThisDim(u)' = ThisDim(u)
  BY DEF Moves, ThisModulus, ThisTower, ThisDim
<1>2. TablesAgree'
  <2>1. \A q \in Moduli : Filling(q) => Filling(q)'
    BY <1>1 DEF Filling
  <2> QED
    BY <2>1 DEF TablesAgree
<1>3. WrittenOwn'
  <2> SUFFICES ASSUME NEW u \in Threads, thr'[u].pc = "fill"
               PROVE  /\ thr'[u].k \in 1 .. 6
                      /\ \A i \in 1 .. thr'[u].k - 1 :
                           tables'[MapOrder[i]][ThisModulus(u)'] = Entry(ThisDim(u)', ThisModulus(u)')
    BY DEF WrittenOwn
  <2>1. CASE u = t
    BY <2>1
  <2>2. CASE u # t
    BY <1>1, <2>2 DEF WrittenOwn
  <2> QED
    BY <2>1, <2>2
<1>4. FoundOwn'
  <2> SUFFICES ASSUME NEW u \in Threads, thr'[u].pc \in {"fetch", "transform"}, NEW m \in Maps
               PROVE  tables'[m][ThisModulus(u)'] = Entry(ThisDim(u)', ThisModulus(u)')
    BY DEF FoundOwn
  <2>1. CASE u = t
    BY <2>1
  <2>2. CASE u # t
    BY <1>1, <2>2 DEF FoundOwn
  <2> QED
    BY <2>1, <2>2
<1>5. LiveFilled'
  BY DEF LiveFilled, Moves
<1> QED
  BY <1>2, <1>3, <1>4, <1>5

(* A thread that changes nothing of the packed encoding.                   *)
LEMMA PackingKept ==
  ASSUME IInv, NEW t \in Threads, Moves(t), initRoot' = initRoot, perms' = perms, thr[t].pc # "setPerms"
  PROVE  RootsRight' /\ PermsFilled' /\ EncodedRight'
PROOF
<1> USE DEF IInv
<1>1. \A u \in Threads : ThisKey(u)' = ThisKey(u)
  BY DEF Moves, ThisKey, PackKey, CycloOrder
<1>2. \A u \in Threads : thr[u].pc = "setPerms" => thr'[u].pc = "setPerms"
  BY DEF Moves
<1>3. PermsFilled'
  BY <1>1, <1>2 DEF PermsFilled
<1> QED
  BY <1>3 DEF RootsRight, EncodedRight, Moves

(* The parts of the invariant that remain to be shown for a step of t.     *)
LEMMA ThreadStepInv ==
  ASSUME IInv, NEW t \in Threads, Moves(t), thr[t].op = "team" => tables' = tables,
         TypeOK', TowersOK(t)', TeamOK(t)', PackOK(t)',
         TablesAgree' /\ WrittenOwn' /\ FoundOwn' /\ LiveFilled',
         RootsRight' /\ PermsFilled' /\ EncodedRight'
  PROVE  IInv'
PROOF
<1>1. OneRegion'
  BY OthersKeep
<1>2. RegionOK'
  <2>1. thr'[t].op # "none"
    BY BusyFacts DEF IInv, Moves
  <2>2. \A u \in Threads : u # t /\ Busy(u)' =>
          thr'[u].op # "none" /\ TowersOK(u)' /\ TeamOK(u)' /\ PackOK(u)'
    BY OthersKeep
  <2> QED
    BY <2>1, <2>2 DEF RegionOK
<1> QED
  BY <1>1, <1>2 DEF IInv

(* A change of the program counter alone.                                  *)
LEMMA GotoMoves ==
  ASSUME TypeOK, NEW t \in Threads, Busy(t), NEW pc \in PCs \ {"idle"}, Goto(t, pc),
         live' = live, encoded' = encoded
  PROVE  /\ Moves(t)
         /\ thr'[t] = [thr[t] EXCEPT !.pc = pc] /\ thr'[t].pc = pc
         /\ thr'[t].todo = thr[t].todo /\ thr'[t].root = thr[t].root /\ thr'[t].ret = thr[t].ret
         /\ thr'[t].k = thr[t].k /\ thr'[t].used = thr[t].used
PROOF
<1>1. thr' = [thr EXCEPT ![t].pc = pc]
  BY DEF Goto
<1>2. thr[t] \in Thread /\ thr \in [Threads -> Thread]
  BY DEF TypeOK
<1>3. [thr[t] EXCEPT !.pc = pc] \in Thread
  BY <1>2 DEF Thread
<1>4. thr'[t] = [thr[t] EXCEPT !.pc = pc] /\ \A u \in Threads : u # t => thr'[u] = thr[u]
  BY <1>1, <1>2
<1>5. thr' \in [Threads -> Thread]
  BY <1>1, <1>2, <1>3
<1>6. /\ thr'[t].pc = pc /\ thr'[t].todo = thr[t].todo /\ thr'[t].root = thr[t].root
      /\ thr'[t].op = thr[t].op /\ thr'[t].c = thr[t].c /\ thr'[t].dir = thr[t].dir
      /\ thr'[t].ret = thr[t].ret /\ thr'[t].k = thr[t].k /\ thr'[t].used = thr[t].used
  BY <1>2, <1>4 DEF Thread
<1> QED
  BY <1>4, <1>5, <1>6 DEF Moves

-----------------------------------------------------------------------------
(* The steps of a thread keep the invariant. *)
LEMMA GetPRNGKeeps ==
  ASSUME IInv, NEW t \in Threads, GetPRNG(t), UNCHANGED <<tables, initRoot, perms, live, encoded>>
  PROVE  IInv'
PROOF
<1> USE DEF IInv
<1>1. thr[t].pc \in {"prng", "prngEnter", "prngCreate"} /\ Busy(t)
  BY DEF GetPRNG, Busy
<1>2. PICK pc \in {"prngEnter", "prngCreate", thr[t].ret} : Goto(t, pc)
  BY DEF GetPRNG
<1>3. /\ thr[t].op \in {"team", "pack"} /\ TeamOK(t) /\ PackOK(t)
      /\ thr[t].ret = IF thr[t].op = "team" THEN "find" ELSE "setRoot"
  BY <1>1, BusyFacts DEF TowersOK, TowerPCs, TeamOK, PackOK
<1>4. /\ pc \in {"prngEnter", "prngCreate", "find", "setRoot"} /\ pc \in PCs \ {"idle"}
      /\ thr[t].op = "team" => pc \in TeamPCs
      /\ thr[t].op = "pack" => pc \in {"prngEnter", "prngCreate", "setRoot"}
  BY <1>2, <1>3 DEF PCs, TeamPCs, PackPCs, SearchPCs
<1>5. /\ Moves(t) /\ thr'[t].pc = pc /\ thr'[t].todo = thr[t].todo /\ thr'[t].ret = thr[t].ret
      /\ thr'[t].used = thr[t].used
  BY <1>1, <1>2, <1>4, GotoMoves
<1>6. thr'[t].op = thr[t].op /\ thr'[t].c = thr[t].c
  BY <1>5 DEF Moves
<1>7. TypeOK'
  BY <1>5 DEF TypeOK, Moves
<1>8. TowersOK(t)' /\ TeamOK(t)'
  BY <1>1, <1>3, <1>4, <1>5, <1>6 DEF TowersOK, TeamOK, TowersLeft, Current, Lookup
<1>9. PackOK(t)'
  BY <1>3, <1>4, <1>5, <1>6 DEF PackOK, PackPCs, SearchPCs, TransformPCs, Moves
<1>10. TablesAgree' /\ WrittenOwn' /\ FoundOwn' /\ LiveFilled'
  BY <1>1, <1>4, <1>5, TablesKept
<1>11. RootsRight' /\ PermsFilled' /\ EncodedRight'
  BY <1>1, <1>5, PackingKept
<1> QED
  BY <1>5, <1>7, <1>8, <1>9, <1>10, <1>11, ThreadStepInv

(* A lookup that finds its dimension in the first map finds it in all six: *)
(* nobody is writing the tables of this modulus.                           *)
LEMMA LookupFindsOwn ==
  ASSUME IInv, NEW t \in Threads, thr[t].pc = "find",
         Lookup(tables, ThisModulus(t), ThisDim(t))
  PROVE  \A m \in Maps : tables[m][ThisModulus(t)] = Entry(ThisDim(t), ThisModulus(t))
PROOF
<1> USE DEF IInv
<1>1. Busy(t) /\ thr[t].pc \in TransformPCs
  BY DEF Busy, TransformPCs
<1>2. ThisModulus(t) \in Moduli /\ thr[t].c \in Contexts
  BY <1>1, ModulusFacts, BusyFacts
<1>3. tables["root"][ThisModulus(t)][1] = Dim[thr[t].c] /\ Dim[thr[t].c] # 0
  BY <1>2, ContextFacts DEF Lookup, ThisDim
<1>4. tables["root"][ThisModulus(t)] # Absent
  BY <1>3 DEF Absent
<1>5. tables["root"][ThisModulus(t)] = Entry(ThisDim(t), ThisModulus(t))
  BY <1>2, <1>3, <1>4, MapFacts DEF TypeOK, ThisDim
<1>6. ~ Filling(ThisModulus(t))
  BY <1>1, Apart DEF Filling
<1> QED
  BY <1>2, <1>5, <1>6, MapFacts DEF TablesAgree

LEMMA FindTablesKeeps ==
  ASSUME IInv, NEW t \in Threads, FindTables(t), UNCHANGED <<prng, initRoot, perms, live, encoded>>
  PROVE  IInv'
PROOF
<1> USE DEF IInv
<1> DEFINE pc == IF Lookup(tables, ThisModulus(t), ThisDim(t)) THEN "fetch" ELSE "enter"
<1>1. thr[t].pc = "find" /\ Busy(t) /\ thr[t].pc \in TransformPCs /\ Goto(t, pc) /\ tables' = tables
  BY DEF FindTables, Busy, TransformPCs
<1>2. TowersOK(t) /\ TeamOK(t) /\ PackOK(t) /\ thr[t].op \in {"towers", "team", "pack"}
  BY <1>1, BusyFacts
<1>3. pc \in {"fetch", "enter"} /\ pc \in PCs \ {"idle"} /\ pc \in TransformPCs
  BY DEF PCs, TowerPCs, TransformPCs
<1>4. thr[t].op = "team" => pc = "fetch"
  <2>1. ASSUME thr[t].op = "team"
        PROVE  Lookup(tables, ThisModulus(t), ThisDim(t))
    BY <1>1, <1>2, <2>1, ModulusFacts DEF TeamOK, Current, ThisDim
  <2> QED
    BY <2>1
<1>5. pc = "fetch" => Lookup(tables, ThisModulus(t), ThisDim(t))
  OBVIOUS
<1> HIDE DEF pc
<1>6. /\ Moves(t) /\ thr'[t].pc = pc /\ thr'[t].todo = thr[t].todo /\ thr'[t].ret = thr[t].ret
      /\ thr'[t].used = thr[t].used /\ thr'[t].root = thr[t].root
  BY <1>1, <1>3, GotoMoves
<1>7. thr'[t].op = thr[t].op /\ thr'[t].c = thr[t].c /\ thr'[t].dir = thr[t].dir
  BY <1>6 DEF Moves
<1>8. TypeOK'
  BY <1>1, <1>6 DEF TypeOK, Moves
<1>9. TowersOK(t)'
  <2>1. \A u \in Threads : u # t => thr'[u] = thr[u] /\ Busy(u)' = Busy(u)
    BY <1>6 DEF Moves, Busy
  <2> QED
    BY <1>1, <1>2, <1>3, <1>6, <1>7, <2>1 DEF TowersOK, TowerPCs, TowersLeft
<1>10. TeamOK(t)'
  BY <1>1, <1>2, <1>4, <1>6, <1>7 DEF TeamOK, TeamPCs, TowersLeft, Current, Lookup
<1>11. PackOK(t)'
  BY <1>1, <1>2, <1>3, <1>6, <1>7 DEF PackOK, PackPCs, SearchPCs, TransformPCs, Moves, ThisKey
<1>12. ThisModulus(t)' = ThisModulus(t) /\ ThisDim(t)' = ThisDim(t)
  BY <1>6, <1>7 DEF ThisModulus, ThisTower, ThisDim
<1>13. TablesAgree' /\ WrittenOwn' /\ FoundOwn' /\ LiveFilled'
  BY <1>1, <1>3, <1>5, <1>6, <1>12, LookupFindsOwn, TablesKept
<1>14. RootsRight' /\ PermsFilled' /\ EncodedRight'
  BY <1>1, <1>6, PackingKept
<1> QED
  BY <1>1, <1>6, <1>8, <1>9, <1>10, <1>11, <1>13, <1>14, ThreadStepInv

(* A change of the record of one thread.                                   *)
LEMMA UpdateMoves ==
  ASSUME TypeOK, NEW t \in Threads, Busy(t), NEW r \in Thread, thr' = [thr EXCEPT ![t] = r],
         r.pc # "idle", r.op = thr[t].op, r.c = thr[t].c, r.dir = thr[t].dir,
         r.op = "towers" => r.todo \subseteq thr[t].todo,
         live' = live, encoded' = encoded
  PROVE  Moves(t) /\ thr'[t] = r
PROOF
<1>1. thr \in [Threads -> Thread]
  BY DEF TypeOK
<1>2. thr'[t] = r /\ \A u \in Threads : u # t => thr'[u] = thr[u]
  BY <1>1
<1>3. thr' \in [Threads -> Thread]
  BY <1>1
<1> QED
  BY <1>2, <1>3 DEF Moves

LEMMA EnterPreComputeKeeps ==
  ASSUME IInv, NEW t \in Threads, EnterPreCompute(t), UNCHANGED <<prng, initRoot, perms, live, encoded>>
  PROVE  IInv'
PROOF
<1> USE DEF IInv
<1> DEFINE r == [thr[t] EXCEPT !.pc = "fill", !.k = 1]
<1>1. /\ thr[t].pc = "enter" /\ Busy(t) /\ thr[t].pc \in TransformPCs
      /\ thr' = [thr EXCEPT ![t].pc = "fill", ![t].k = 1] /\ tables' = tables
  BY DEF EnterPreCompute, Busy, TransformPCs
<1>2. TowersOK(t) /\ TeamOK(t) /\ PackOK(t) /\ thr[t].op \in {"towers", "team", "pack"}
  BY <1>1, BusyFacts
<1>3. thr[t] \in Thread /\ thr \in [Threads -> Thread]
  BY DEF TypeOK
<1>4. /\ r \in Thread /\ r.pc = "fill" /\ r.k = 1 /\ r.op = thr[t].op /\ r.c = thr[t].c
      /\ r.dir = thr[t].dir /\ r.todo = thr[t].todo /\ r.root = thr[t].root /\ r.ret = thr[t].ret
      /\ r.used = thr[t].used
  <2>1. "fill" \in PCs /\ 1 \in 0 .. 6
    BY DEF PCs, TowerPCs
  <2> QED
    BY <1>3, <2>1 DEF Thread
<1>5. thr' = [thr EXCEPT ![t] = r]
  BY <1>1, <1>3
<1> HIDE DEF r
<1>6. Moves(t) /\ thr'[t] = r
  BY <1>1, <1>4, <1>5, UpdateMoves
<1>7. TypeOK'
  BY <1>1, <1>6 DEF TypeOK, Moves
<1>8. TowersOK(t)'
  <2>1. \A u \in Threads : u # t => thr'[u] = thr[u] /\ Busy(u)' = Busy(u)
    BY <1>6 DEF Moves, Busy
  <2> QED
    BY <1>1, <1>2, <1>4, <1>6, <2>1 DEF TowersOK, TowerPCs, TowersLeft
<1>9. TeamOK(t)'
  <2>1. thr[t].op # "team"
    BY <1>1, <1>2 DEF TeamOK, TeamPCs
  <2> QED
    BY <2>1, <1>4, <1>6 DEF TeamOK
<1>10. PackOK(t)'
  BY <1>1, <1>2, <1>4, <1>6 DEF PackOK, PackPCs, SearchPCs, TransformPCs, Moves, ThisKey
<1>11. TablesAgree' /\ WrittenOwn' /\ FoundOwn' /\ LiveFilled'
  BY <1>1, <1>4, <1>6, TablesKept
<1>12. RootsRight' /\ PermsFilled' /\ EncodedRight'
  BY <1>1, <1>6, PackingKept
<1> QED
  BY <1>1, <1>6, <1>7, <1>8, <1>9, <1>10, <1>11, <1>12, ThreadStepInv

LEMMA FetchTablesKeeps ==
  ASSUME IInv, NEW t \in Threads, FetchTables(t), UNCHANGED <<prng, initRoot, perms, live, encoded>>
  PROVE  IInv'
PROOF
<1> USE DEF IInv
<1>1. thr[t].pc = "fetch" /\ Busy(t) /\ thr[t].pc \in TransformPCs /\ Goto(t, "transform") /\ tables' = tables
  BY DEF FetchTables, Busy, TransformPCs
<1>2. TowersOK(t) /\ TeamOK(t) /\ PackOK(t) /\ thr[t].op \in {"towers", "team", "pack"}
  BY <1>1, BusyFacts
<1>3. "transform" \in PCs \ {"idle"}
  BY DEF PCs, TowerPCs
<1>4. /\ Moves(t) /\ thr'[t].pc = "transform" /\ thr'[t].todo = thr[t].todo /\ thr'[t].ret = thr[t].ret
      /\ thr'[t].used = thr[t].used /\ thr'[t].root = thr[t].root
  BY <1>1, <1>3, GotoMoves
<1>5. thr'[t].op = thr[t].op /\ thr'[t].c = thr[t].c /\ thr'[t].dir = thr[t].dir
  BY <1>4 DEF Moves
<1>6. TypeOK'
  BY <1>1, <1>4 DEF TypeOK, Moves
<1>7. TowersOK(t)'
  <2>1. \A u \in Threads : u # t => thr'[u] = thr[u] /\ Busy(u)' = Busy(u)
    BY <1>4 DEF Moves, Busy
  <2> QED
    BY <1>1, <1>2, <1>4, <1>5, <2>1 DEF TowersOK, TowerPCs, TowersLeft
<1>8. TeamOK(t)'
  BY <1>1, <1>2, <1>4, <1>5 DEF TeamOK, TeamPCs, TowersLeft, Current, Lookup
<1>9. PackOK(t)'
  BY <1>1, <1>2, <1>4, <1>5 DEF PackOK, PackPCs, SearchPCs, TransformPCs, Moves, ThisKey
<1>10. ThisModulus(t)' = ThisModulus(t) /\ ThisDim(t)' = ThisDim(t)
  BY <1>4, <1>5 DEF ThisModulus, ThisTower, ThisDim
<1>11. \A m \in Maps : tables[m][ThisModulus(t)] = Entry(ThisDim(t), ThisModulus(t))
  BY <1>1 DEF FoundOwn
<1>12. TablesAgree' /\ WrittenOwn' /\ FoundOwn' /\ LiveFilled'
  BY <1>1, <1>4, <1>10, <1>11, TablesKept
<1>13. RootsRight' /\ PermsFilled' /\ EncodedRight'
  BY <1>1, <1>4, PackingKept
<1> QED
  BY <1>1, <1>4, <1>6, <1>7, <1>8, <1>9, <1>12, <1>13, ThreadStepInv

LEMMA FillTablesKeeps ==
  ASSUME IInv, NEW t \in Threads, FillTables(t), UNCHANGED <<prng, initRoot, perms, live, encoded>>
  PROVE  IInv'
PROOF
<1> USE DEF IInv
<1> DEFINE k == thr[t].k
           q == ThisModulus(t)
           e == Entry(ThisDim(t), q)
           last == k = Len(MapOrder)
           r == [thr[t] EXCEPT !.k = IF last THEN 0 ELSE k + 1, !.pc = IF last THEN "fetch" ELSE "fill"]
<1>1. thr[t].pc = "fill" /\ Busy(t) /\ thr[t].pc \in TransformPCs
  BY DEF FillTables, Busy, TransformPCs
<1>2. TowersOK(t) /\ TeamOK(t) /\ PackOK(t) /\ thr[t].op \in {"towers", "team", "pack"} /\ thr[t].c \in Contexts
  BY <1>1, BusyFacts
<1>3. /\ k \in 1 .. 6 /\ MapOrder[k] \in Maps /\ Len(MapOrder) = 6
      /\ \A i \in 1 .. k - 1 : tables[MapOrder[i]][q] = e
  BY <1>1, MapFacts DEF WrittenOwn
<1>4. q \in Moduli /\ <<ThisDim(t), ThisRoot(t)>> = e
  BY <1>1, ModulusFacts DEF Entry
<1>5. thr[t] \in Thread /\ thr \in [Threads -> Thread] /\ tables \in [Maps -> [Moduli -> Entries]]
  BY DEF TypeOK
<1>6. /\ r \in Thread /\ r.pc = (IF last THEN "fetch" ELSE "fill") /\ r.k = (IF last THEN 0 ELSE k + 1)
      /\ r.op = thr[t].op /\ r.c = thr[t].c
      /\ r.dir = thr[t].dir /\ r.todo = thr[t].todo /\ r.root = thr[t].root /\ r.ret = thr[t].ret
      /\ r.used = thr[t].used
  <2>1. "fill" \in PCs /\ "fetch" \in PCs /\ (IF last THEN 0 ELSE k + 1) \in 0 .. 6
    BY <1>3 DEF PCs, TowerPCs
  <2> QED
    BY <1>5, <2>1 DEF Thread
<1>7. thr' = [thr EXCEPT ![t] = r]
  BY <1>1, <1>5 DEF FillTables
<1>8. e \in Entries /\ e # Absent /\ e[1] = ThisDim(t)
  BY <1>2, <1>4, EntryFacts DEF ThisDim
<1>9. tables' = [tables EXCEPT ![MapOrder[k]][q] = e]
  BY <1>4 DEF FillTables, FillTable
<1> HIDE DEF r
<1>10. Moves(t) /\ thr'[t] = r
  BY <1>1, <1>6, <1>7, UpdateMoves
<1>11. /\ tables' \in [Maps -> [Moduli -> Entries]]
       /\ \A m \in Maps, p \in Moduli :
            tables'[m][p] = IF m = MapOrder[k] /\ p = q THEN e ELSE tables[m][p]
  <2> HIDE DEF k, q, e
  <2> QED
    BY <1>3, <1>4, <1>5, <1>8, <1>9
<1>12. TypeOK'
  <2>1. \A m \in Maps, p \in Moduli : tables'[m][p] # Absent => tables'[m][p] = Entry(tables'[m][p][1], p)
    <3> HIDE DEF k
    <3> QED
      BY <1>8, <1>11 DEF TypeOK
  <2> QED
    BY <1>10, <1>11, <2>1 DEF TypeOK, Moves
<1>13. \A u \in Threads : u # t => /\ thr'[u] = thr[u] /\ Busy(u)' = Busy(u)
                                  /\ ThisModulus(u)' = ThisModulus(u) /\ ThisDim(u)' = ThisDim(u)
  BY <1>10 DEF Moves, Busy, ThisModulus, ThisTower, ThisDim
<1>14. ThisModulus(t)' = q /\ ThisDim(t)' = ThisDim(t)
  BY <1>6, <1>10 DEF ThisModulus, ThisTower, ThisDim
<1>15. thr[t].op # "team"
  BY <1>1, <1>2 DEF TeamOK, TeamPCs
<1>16. TowersOK(t)'
  BY <1>1, <1>2, <1>6, <1>10, <1>13 DEF TowersOK, TowerPCs, TowersLeft
<1>17. TeamOK(t)'
  BY <1>6, <1>10, <1>15 DEF TeamOK
<1>18. PackOK(t)'
  BY <1>1, <1>2, <1>6, <1>10 DEF PackOK, PackPCs, SearchPCs, TransformPCs, Moves, ThisKey
<1>19. \A u \in Threads : u # t /\ thr[u].pc \in TransformPCs => ThisModulus(u) # q /\ ThisModulus(u) \in Moduli
  BY <1>1, Apart, ModulusFacts
<1>20. \A i \in 1 .. k : tables'[MapOrder[i]][q] = e
  <2> SUFFICES ASSUME NEW i \in 1 .. k
               PROVE  tables'[MapOrder[i]][q] = e
    OBVIOUS
  <2>1. MapOrder[i] \in Maps
    BY <1>3, MapFacts
  <2>2. CASE i = k
    BY <2>1, <2>2, <1>4, <1>11
  <2>3. CASE i # k
    BY <2>1, <2>3, <1>3, <1>4, <1>11
  <2> QED
    BY <2>2, <2>3
<1>21. last => \A m \in Maps : tables'[m][q] = e
  BY <1>3, <1>20, MapFacts
<1>22. TablesAgree'
  <2> SUFFICES ASSUME NEW p \in Moduli, ~ Filling(p)', NEW m \in Maps, NEW n \in Maps
               PROVE  tables'[m][p] = tables'[n][p]
    BY DEF TablesAgree
  <2>1. CASE p = q
    <3>1. last
      BY <1>6, <1>10, <1>14, <2>1 DEF Filling
    <3> QED
      BY <1>21, <2>1, <3>1
  <2>2. CASE p # q
    <3>1. ~ Filling(p)
      BY <1>13, <2>2 DEF Filling
    <3> QED
      BY <1>11, <2>2, <3>1 DEF TablesAgree
  <2> QED
    BY <2>1, <2>2
<1>23. WrittenOwn'
  <2> SUFFICES ASSUME NEW u \in Threads, thr'[u].pc = "fill"
               PROVE  /\ thr'[u].k \in 1 .. 6
                      /\ \A i \in 1 .. thr'[u].k - 1 :
                           tables'[MapOrder[i]][ThisModulus(u)'] = Entry(ThisDim(u)', ThisModulus(u)')
    BY DEF WrittenOwn
  <2>1. CASE u = t
    <3>1. ~ last /\ thr'[t].k = k + 1
      BY <1>6, <1>10, <2>1
    <3> HIDE DEF k, q, e
    <3> QED
      BY <1>3, <1>14, <1>20, <2>1, <3>1 DEF k, e
  <2>2. CASE u # t
    <3>1. ThisModulus(u) # q /\ ThisModulus(u) \in Moduli
      BY <1>13, <1>19, <2>2 DEF TransformPCs
    <3>2. /\ thr[u].k \in 1 .. 6
          /\ \A i \in 1 .. thr[u].k - 1 : tables[MapOrder[i]][ThisModulus(u)] = Entry(ThisDim(u), ThisModulus(u))
      BY <1>13, <2>2 DEF WrittenOwn
    <3>3. \A i \in 1 .. thr[u].k - 1 : MapOrder[i] \in Maps
      BY <3>2, MapFacts
    <3> QED
      BY <1>11, <1>13, <2>2, <3>1, <3>2, <3>3
  <2> QED
    BY <2>1, <2>2
<1>24. FoundOwn'
  <2> SUFFICES ASSUME NEW u \in Threads, thr'[u].pc \in {"fetch", "transform"}, NEW m \in Maps
               PROVE  tables'[m][ThisModulus(u)'] = Entry(ThisDim(u)', ThisModulus(u)')
    BY DEF FoundOwn
  <2>1. CASE u = t
    BY <1>6, <1>10, <1>14, <1>21, <2>1
  <2>2. CASE u # t
    BY <1>11, <1>13, <1>19, <2>2 DEF FoundOwn, TransformPCs
  <2> QED
    BY <2>1, <2>2
<1>25. LiveFilled'
  <2> SUFFICES ASSUME NEW c \in live, NEW p \in Range(Towers[c]), NEW m \in Maps
               PROVE  tables'[m][p] # Absent
    BY <1>10 DEF LiveFilled, Moves
  <2>1. p \in Moduli
    BY ContextFacts DEF TypeOK
  <2> QED
    BY <1>8, <1>11, <2>1 DEF LiveFilled
<1>26. RootsRight' /\ PermsFilled' /\ EncodedRight'
  BY <1>1, <1>10, PackingKept
<1> QED
  BY <1>10, <1>12, <1>15, <1>16, <1>17, <1>18, <1>22, <1>23, <1>24, <1>25, <1>26, ThreadStepInv

LEMMA TransformKeeps ==
  ASSUME IInv, NEW t \in Threads, Transform(t), UNCHANGED <<prng, initRoot, perms, live, encoded>>
  PROVE  IInv'
PROOF
<1> USE DEF IInv
<1> DEFINE left == thr[t].todo \ {ThisTower(t)}
           table == CHOOSE m \in MapsRead(thr[t].dir) : TRUE
           pc == IF left # {} THEN "find"
                 ELSE IF thr[t].op = "pack" /\ thr[t].dir = "forward" THEN "permute" ELSE "done"
           root == IF thr[t].op = "pack" THEN tables[table][ThisModulus(t)][2] ELSE thr[t].used.root
           used == [thr[t].used EXCEPT !.root = root]
           r == [thr[t] EXCEPT !.pc = pc, !.todo = left, !.used = used]
<1>1. /\ thr[t].pc = "transform" /\ Busy(t) /\ thr[t].pc \in TransformPCs /\ tables' = tables
      /\ thr' = [thr EXCEPT ![t].pc = pc, ![t].todo = left, ![t].used.root = root]
  BY DEF Transform, Busy, TransformPCs
<1>2. /\ TowersOK(t) /\ TeamOK(t) /\ PackOK(t) /\ thr[t].op \in {"towers", "team", "pack"}
      /\ thr[t].c \in Contexts
  BY <1>1, BusyFacts
<1>3. /\ thr[t] \in Thread /\ thr \in [Threads -> Thread]
      /\ thr[t].used \in [permuted : BOOLEAN, root : AnyRoot] /\ thr[t].dir \in {"forward", "inverse"}
  BY DEF TypeOK, Thread
<1>4. table \in MapsRead(thr[t].dir) /\ table \in Maps
  BY MapFacts
<1>5. thr[t].op = "pack" => root = PlaintextRoot(thr[t].c) /\ left = {}
  <2> SUFFICES ASSUME thr[t].op = "pack"
               PROVE  root = PlaintextRoot(thr[t].c) /\ left = {}
    OBVIOUS
  <2>1. tables[table][ThisModulus(t)] = Entry(ThisDim(t), ThisModulus(t))
    BY <1>1, <1>4 DEF FoundOwn
  <2>2. ThisModulus(t) = PlaintextModulus[thr[t].c] /\ ThisModulus(t) \in Moduli
    BY <1>1, ModulusFacts
  <2>3. root = PlaintextRoot(thr[t].c)
    BY <1>2, <2>1, <2>2, EntryFacts DEF PlaintextRoot, ThisDim
  <2>4. thr[t].todo = {1}
    BY <1>1, <1>2 DEF PackOK
  <2>5. ThisTower(t) = 1
    BY <2>4, LeastIn DEF ThisTower
  <2> QED
    BY <2>3, <2>4, <2>5
<1>6. root \in AnyRoot
  BY <1>2, <1>3, <1>5, PlaintextRootType
<1>7. pc \in {"find", "permute", "done"} /\ pc \in PCs /\ left \subseteq thr[t].todo /\ left \in SUBSET Nat
  BY <1>3 DEF PCs, PackPCs, TowerPCs, TransformPCs, Thread
<1>8. thr[t].op # "pack" => (pc = "find" /\ left # {}) \/ (pc = "done" /\ left = {})
  OBVIOUS
<1>9. thr[t].op = "pack" => pc = IF thr[t].dir = "forward" THEN "permute" ELSE "done"
  BY <1>5
<1> HIDE DEF pc, left, root
<1>10. used \in [permuted : BOOLEAN, root : AnyRoot] /\ used.root = root /\ used.permuted = thr[t].used.permuted
  BY <1>3, <1>6
<1>11. thr' = [thr EXCEPT ![t] = r]
  BY <1>1, <1>3 DEF Thread
<1> HIDE DEF used
<1>12. /\ r \in Thread /\ r.pc = pc /\ r.todo = left /\ r.used = used
       /\ r.op = thr[t].op /\ r.c = thr[t].c /\ r.dir = thr[t].dir
       /\ r.root = thr[t].root /\ r.ret = thr[t].ret
  BY <1>3, <1>7, <1>10 DEF Thread
<1> HIDE DEF r
<1>13. Moves(t) /\ thr'[t] = r
  BY <1>1, <1>7, <1>11, <1>12, UpdateMoves
<1>14. TypeOK'
  BY <1>1, <1>13 DEF TypeOK, Moves
<1>15. TowersOK(t)'
  <2>1. \A u \in Threads : u # t => thr'[u] = thr[u] /\ Busy(u)' = Busy(u)
    BY <1>13 DEF Moves, Busy
  <2> QED
    BY <1>1, <1>2, <1>7, <1>8, <1>12, <1>13, <2>1 DEF TowersOK, TowerPCs, TowersLeft
<1>16. TeamOK(t)'
  BY <1>1, <1>2, <1>7, <1>8, <1>12, <1>13 DEF TeamOK, TeamPCs, TowersLeft, Current, Lookup
<1>17. PackOK(t)'
  <2> SUFFICES ASSUME thr[t].op = "pack"
               PROVE  PackOK(t)'
    BY <1>12, <1>13 DEF PackOK
  <2>1. pc \in {"permute", "done"} /\ used.root = PlaintextRoot(thr[t].c)
    BY <1>5, <1>9, <1>10
  <2>2. perms[ThisKey(t)[2]] /\ thr[t].root = PlaintextRoot(thr[t].c)
    BY <1>1, <1>2 DEF PackOK, SearchPCs
  <2>3. thr[t].dir = "inverse" => used.permuted
    BY <1>1, <1>2, <1>10 DEF PackOK
  <2>4. thr[t].dir = "forward" => encoded[thr[t].c] # NotEncoded
    BY <1>2 DEF PackOK
  <2>5. ThisKey(t)' = ThisKey(t)
    BY <1>12, <1>13 DEF ThisKey
  <2> QED
    BY <1>3, <1>9, <1>12, <1>13, <2>1, <2>2, <2>3, <2>4, <2>5
       DEF PackOK, PackPCs, SearchPCs, TransformPCs, Moves
<1>18. TablesAgree' /\ WrittenOwn' /\ FoundOwn' /\ LiveFilled'
  BY <1>1, <1>7, <1>12, <1>13, TablesKept
<1>19. RootsRight' /\ PermsFilled' /\ EncodedRight'
  BY <1>1, <1>13, PackingKept
<1> QED
  BY <1>1, <1>13, <1>14, <1>15, <1>16, <1>17, <1>18, <1>19, ThreadStepInv

(* The thread that packs is alone.                                         *)
LEMMA PackingFacts ==
  ASSUME IInv, NEW t \in Threads,
         thr[t].pc \in {"packLookup", "setParams", "setRoot", "setPerms", "packRoot", "permute"}
  PROVE  /\ Busy(t) /\ thr[t].op = "pack" /\ PackOK(t) /\ thr[t].c \in Contexts
         /\ \A u \in Threads : u # t => ~ Busy(u)
         /\ ThisKey(t) = PackKey(thr[t].c) /\ ThisKey(t) \in PackKeys
         /\ thr[t] \in Thread /\ thr \in [Threads -> Thread]
PROOF
<1> USE DEF IInv
<1>1. Busy(t)
  BY DEF Busy
<1>2. thr[t].op = "pack" /\ PackOK(t) /\ thr[t].c \in Contexts
  BY <1>1, BusyFacts DEF TowersOK, TowerPCs, TeamOK, TeamPCs
<1>3. \A u \in Threads : u # t => ~ Busy(u)
  BY <1>1, <1>2 DEF OneRegion
<1> QED
  BY <1>1, <1>2, <1>3, ContextFacts DEF ThisKey, TypeOK

(* A step of that thread before or after the transform.                    *)
LEMMA PackStepInv ==
  ASSUME IInv, NEW t \in Threads, Moves(t), tables' = tables,
         thr[t].pc \in {"packLookup", "setParams", "setRoot", "setPerms", "packRoot", "permute"},
         thr'[t].pc \notin {"fill", "fetch", "transform"},
         initRoot' \in [PackKeys -> AnyRoot], perms' \in [{pm[2] : pm \in PackKeys} -> BOOLEAN],
         PackOK(t)', RootsRight', PermsFilled'
  PROVE  IInv'
PROOF
<1>1. thr[t].op = "pack" /\ thr'[t].op = "pack"
  BY PackingFacts DEF Moves
<1>2. TypeOK'
  BY DEF IInv, TypeOK, Moves
<1>3. TowersOK(t)' /\ TeamOK(t)'
  BY <1>1 DEF TowersOK, TeamOK
<1>4. TablesAgree' /\ WrittenOwn' /\ FoundOwn' /\ LiveFilled'
  BY TablesKept
<1>5. EncodedRight'
  BY DEF IInv, EncodedRight, Moves
<1> QED
  BY <1>2, <1>3, <1>4, <1>5, ThreadStepInv

LEMMA PackLookupKeeps ==
  ASSUME UniqueRoots, IInv, NEW t \in Threads, PackLookup(t), UNCHANGED <<prng, tables, live, encoded>>
  PROVE  IInv'
PROOF
<1> USE DEF IInv
<1> DEFINE key == ThisKey(t)
           ready == initRoot[key] \notin {NoEntry, 0}
           pc == IF ready THEN "packRoot" ELSE "setParams"
<1>1. /\ thr[t].pc = "packLookup" /\ Goto(t, pc) /\ perms' = perms
      /\ initRoot' = [initRoot EXCEPT ![key] = IF @ = NoEntry THEN 0 ELSE @]
  BY DEF PackLookup
<1>2. /\ Busy(t) /\ thr[t].op = "pack" /\ PackOK(t) /\ thr[t].c \in Contexts
      /\ key = PackKey(thr[t].c) /\ key \in PackKeys
      /\ \A u \in Threads : u # t => ~ Busy(u)
  BY <1>1, PackingFacts
<1>3. initRoot \in [PackKeys -> AnyRoot] /\ perms \in [{pm[2] : pm \in PackKeys} -> BOOLEAN] /\ 0 \in AnyRoot
  BY DEF TypeOK, AnyRoot
<1>4. /\ initRoot' \in [PackKeys -> AnyRoot]
      /\ \A pm \in PackKeys : initRoot'[pm] = initRoot[pm] \/ initRoot'[pm] = 0
      /\ initRoot'[key] = IF ready THEN initRoot[key] ELSE 0
  BY <1>1, <1>2, <1>3
<1>5. \A pm \in PackKeys : initRoot[pm] \notin {NoEntry, 0} => perms[pm[2]]
  BY <1>1, <1>2 DEF PermsFilled, Busy
<1>6. ready => initRoot[key] = PlaintextRoot(thr[t].c) /\ perms[key[2]]
  BY <1>2, <1>5, PackRootIs DEF RootsRight
<1>7. pc \in {"packRoot", "setParams"} /\ pc \in PCs \ {"idle"} /\ (pc = "packRoot" => ready)
  BY DEF PCs, PackPCs, SearchPCs
<1> HIDE DEF pc
<1>8. Moves(t) /\ thr'[t].pc = pc
  BY <1>1, <1>2, <1>7, GotoMoves
<1>9. key = ThisKey(t)' /\ thr'[t].c = thr[t].c /\ thr'[t].op = thr[t].op /\ thr'[t].dir = thr[t].dir
  BY <1>8 DEF ThisKey, Moves
<1>10. PackOK(t)'
  BY <1>1, <1>2, <1>4, <1>6, <1>7, <1>8, <1>9 DEF PackOK, PackPCs, SearchPCs, TransformPCs, Moves
<1>11. RootsRight'
  BY <1>4 DEF RootsRight
<1>12. PermsFilled'
  BY <1>1, <1>4, <1>5 DEF PermsFilled
<1> QED
  BY <1>1, <1>3, <1>4, <1>7, <1>8, <1>10, <1>11, <1>12, PackStepInv

LEMMA SetParamsKeeps ==
  ASSUME UniqueRoots, IInv, NEW t \in Threads, SetParams(t), UNCHANGED <<prng, tables, live, encoded>>
  PROVE  IInv'
PROOF
<1> USE DEF IInv
<1> DEFINE key == ThisKey(t)
<1>1. thr[t].pc \in {"setParams", "setRoot", "setPerms"}
  BY DEF SetParams
<1>2. /\ Busy(t) /\ thr[t].op = "pack" /\ PackOK(t) /\ thr[t].c \in Contexts
      /\ key = PackKey(thr[t].c) /\ key \in PackKeys
      /\ thr[t] \in Thread /\ thr \in [Threads -> Thread]
      /\ \A u \in Threads : u # t => ~ Busy(u)
  BY <1>1, PackingFacts
<1>3. initRoot \in [PackKeys -> AnyRoot] /\ perms \in [{pm[2] : pm \in PackKeys} -> BOOLEAN]
  BY DEF TypeOK
<1>4. \A pm \in PackKeys : initRoot[pm] \notin {NoEntry, 0} =>
        perms[pm[2]] \/ (thr[t].pc = "setPerms" /\ pm = key)
  BY <1>1, <1>2 DEF PermsFilled, Busy
<1>5. {"prng", "setPerms", "packRoot"} \subseteq PCs \ {"idle"}
  BY DEF PCs, PackPCs, SearchPCs
<1>6. CASE thr[t].pc = "setParams"
  <2> DEFINE r == [thr[t] EXCEPT !.pc = "prng", !.ret = "setRoot"]
  <2>1. thr' = [thr EXCEPT ![t].pc = "prng", ![t].ret = "setRoot"] /\ initRoot' = initRoot /\ perms' = perms
    BY <1>6 DEF SetParams
  <2>2. thr' = [thr EXCEPT ![t] = r]
    BY <1>2, <2>1
  <2>3. /\ r \in Thread /\ r.pc = "prng" /\ r.ret = "setRoot" /\ r.op = thr[t].op /\ r.c = thr[t].c
        /\ r.dir = thr[t].dir
    BY <1>2, <1>5 DEF Thread
  <2> HIDE DEF r
  <2>4. Moves(t) /\ thr'[t] = r
    BY <1>2, <2>2, <2>3, UpdateMoves
  <2>5. PackOK(t)'
    BY <1>2, <2>3, <2>4 DEF PackOK, PackPCs, SearchPCs, TransformPCs, Moves
  <2>6. RootsRight' /\ PermsFilled' /\ EncodedRight'
    BY <1>6, <2>1, <2>4, PackingKept
  <2> QED
    BY <1>1, <1>3, <2>1, <2>3, <2>4, <2>5, <2>6, PackStepInv
<1>7. CASE thr[t].pc = "setRoot"
  <2>1. PICK x \in PackRoots[key] : initRoot' = [initRoot EXCEPT ![key] = x]
    BY <1>7 DEF SetParams
  <2>2. Goto(t, "setPerms") /\ perms' = perms
    BY <1>7 DEF SetParams
  <2>3. x = PlaintextRoot(thr[t].c) /\ x \in AnyRoot
    BY <1>2, <2>1, PackRootIs DEF AnyRoot
  <2>4. /\ initRoot' \in [PackKeys -> AnyRoot] /\ initRoot'[key] = x
        /\ \A pm \in PackKeys : pm # key => initRoot'[pm] = initRoot[pm]
    BY <1>2, <1>3, <2>1, <2>3
  <2>5. Moves(t) /\ thr'[t].pc = "setPerms"
    BY <1>2, <1>5, <2>2, GotoMoves
  <2>6. key = ThisKey(t)' /\ thr'[t].c = thr[t].c /\ thr'[t].op = thr[t].op /\ thr'[t].dir = thr[t].dir
    BY <2>5 DEF ThisKey, Moves
  <2>7. PackOK(t)'
    BY <1>2, <2>3, <2>4, <2>5, <2>6 DEF PackOK, PackPCs, SearchPCs, TransformPCs, Moves
  <2>8. RootsRight'
    BY <2>1, <2>4 DEF RootsRight
  <2>9. PermsFilled'
    BY <1>4, <1>7, <2>2, <2>4, <2>5, <2>6 DEF PermsFilled
  <2> QED
    BY <1>1, <1>3, <2>2, <2>4, <2>5, <2>7, <2>8, <2>9, PackStepInv
<1>8. CASE thr[t].pc = "setPerms"
  <2>1. perms' = [perms EXCEPT ![key[2]] = TRUE] /\ Goto(t, "packRoot") /\ initRoot' = initRoot
    BY <1>8 DEF SetParams
  <2>2. /\ perms' \in [{pm[2] : pm \in PackKeys} -> BOOLEAN] /\ perms'[key[2]]
        /\ \A pm \in PackKeys : perms[pm[2]] => perms'[pm[2]]
    BY <1>2, <1>3, <2>1
  <2>3. Moves(t) /\ thr'[t].pc = "packRoot"
    BY <1>2, <1>5, <2>1, GotoMoves
  <2>4. key = ThisKey(t)' /\ thr'[t].c = thr[t].c /\ thr'[t].op = thr[t].op /\ thr'[t].dir = thr[t].dir
    BY <2>3 DEF ThisKey, Moves
  <2>5. PackOK(t)'
    BY <1>2, <1>8, <2>1, <2>2, <2>3, <2>4 DEF PackOK, PackPCs, SearchPCs, TransformPCs, Moves
  <2>6. RootsRight'
    BY <2>1 DEF RootsRight
  <2>7. PermsFilled'
    BY <1>4, <2>1, <2>2 DEF PermsFilled
  <2> QED
    BY <1>1, <1>3, <2>1, <2>2, <2>3, <2>5, <2>6, <2>7, PackStepInv
<1> QED
  BY <1>1, <1>6, <1>7, <1>8

LEMMA PackRootKeeps ==
  ASSUME IInv, NEW t \in Threads, PackRoot(t), UNCHANGED <<prng, tables, live, encoded>>
  PROVE  IInv'
PROOF
<1> USE DEF IInv
<1> DEFINE pc == IF thr[t].dir = "inverse" THEN "permute" ELSE "find"
           r == [thr[t] EXCEPT !.pc = pc, !.root = initRoot[ThisKey(t)], !.todo = {1}]
<1>1. /\ thr[t].pc = "packRoot" /\ initRoot' = initRoot /\ perms' = perms
      /\ thr' = [thr EXCEPT ![t].pc = pc, ![t].root = initRoot[ThisKey(t)], ![t].todo = {1}]
  BY DEF PackRoot
<1>2. /\ Busy(t) /\ thr[t].op = "pack" /\ PackOK(t) /\ thr[t].c \in Contexts
      /\ thr[t] \in Thread /\ thr \in [Threads -> Thread]
  BY <1>1, PackingFacts
<1>3. initRoot[ThisKey(t)] = PlaintextRoot(thr[t].c) /\ perms[ThisKey(t)[2]]
  BY <1>1, <1>2 DEF PackOK, SearchPCs
<1>4. initRoot[ThisKey(t)] \in AnyRoot
  BY <1>2, <1>3, PlaintextRootType
<1>5. pc \in {"permute", "find"} /\ pc \in PCs
  BY DEF PCs, PackPCs, TowerPCs
<1>6. thr' = [thr EXCEPT ![t] = r]
  BY <1>1, <1>2
<1>7. (thr[t].dir = "inverse" => pc = "permute") /\ (thr[t].dir # "inverse" => pc = "find")
  OBVIOUS
<1> HIDE DEF pc
<1>8. /\ r \in Thread /\ r.pc = pc /\ r.root = initRoot[ThisKey(t)] /\ r.todo = {1}
      /\ r.op = thr[t].op /\ r.c = thr[t].c /\ r.dir = thr[t].dir
  <2>1. {1} \in SUBSET Nat
    OBVIOUS
  <2> QED
    BY <1>2, <1>4, <1>5, <2>1 DEF Thread
<1> HIDE DEF r
<1>9. Moves(t) /\ thr'[t] = r
  BY <1>2, <1>5, <1>6, <1>8, UpdateMoves
<1>10. ThisKey(t)' = ThisKey(t)
  BY <1>8, <1>9 DEF ThisKey
<1>11. PackOK(t)'
  BY <1>1, <1>2, <1>3, <1>5, <1>7, <1>8, <1>9, <1>10 DEF PackOK, PackPCs, SearchPCs, TransformPCs, Moves
<1>12. RootsRight' /\ PermsFilled'
  BY <1>1, <1>9, PackingKept
<1> QED
  BY <1>1, <1>5, <1>8, <1>9, <1>11, <1>12, PackStepInv DEF TypeOK

LEMMA PermuteKeeps ==
  ASSUME IInv, NEW t \in Threads, Permute(t), UNCHANGED <<prng, tables, live, encoded>>
  PROVE  IInv'
PROOF
<1> USE DEF IInv
<1> DEFINE pc == IF thr[t].dir = "inverse" THEN "find" ELSE "done"
           used == [thr[t].used EXCEPT !.permuted = TRUE]
           r == [thr[t] EXCEPT !.pc = pc, !.used = used]
<1>1. /\ thr[t].pc = "permute" /\ initRoot' = initRoot /\ perms' = perms
      /\ thr' = [thr EXCEPT ![t].pc = pc, ![t].used.permuted = perms[ThisKey(t)[2]]]
  BY DEF Permute
<1>2. /\ Busy(t) /\ thr[t].op = "pack" /\ PackOK(t) /\ thr[t].c \in Contexts
      /\ thr[t] \in Thread /\ thr \in [Threads -> Thread] /\ ThisKey(t) \in PackKeys
  BY <1>1, PackingFacts
<1>3. perms[ThisKey(t)[2]] = TRUE
  <2>1. perms[ThisKey(t)[2]]
    BY <1>1, <1>2 DEF PackOK, SearchPCs
  <2>2. perms[ThisKey(t)[2]] \in BOOLEAN
    BY <1>2 DEF TypeOK
  <2> QED
    BY <2>1, <2>2
<1>4. thr[t].used \in [permuted : BOOLEAN, root : AnyRoot]
  BY <1>2 DEF Thread
<1>5. thr' = [thr EXCEPT ![t].pc = pc, ![t].used.permuted = TRUE]
  BY <1>1, <1>3
<1>6. pc \in {"find", "done"} /\ pc \in PCs
  BY DEF PCs, PackPCs, TowerPCs
<1>7. thr' = [thr EXCEPT ![t] = r]
  BY <1>2, <1>5 DEF Thread
<1>8. (thr[t].dir = "inverse" => pc = "find") /\ (thr[t].dir # "inverse" => pc = "done")
  OBVIOUS
<1>9. used \in [permuted : BOOLEAN, root : AnyRoot] /\ used.permuted /\ used.root = thr[t].used.root
  BY <1>4
<1>10. thr[t].dir # "inverse" => used.root = PlaintextRoot(thr[t].c)
  BY <1>1, <1>2, <1>9 DEF PackOK
<1> HIDE DEF pc, used
<1>11. /\ r \in Thread /\ r.pc = pc /\ r.used = used /\ r.root = thr[t].root /\ r.todo = thr[t].todo
       /\ r.op = thr[t].op /\ r.c = thr[t].c /\ r.dir = thr[t].dir
  BY <1>2, <1>6, <1>9 DEF Thread
<1> HIDE DEF r
<1>12. Moves(t) /\ thr'[t] = r
  BY <1>2, <1>6, <1>7, <1>11, UpdateMoves
<1>13. ThisKey(t)' = ThisKey(t)
  BY <1>11, <1>12 DEF ThisKey
<1>14. PackOK(t)'
  BY <1>1, <1>2, <1>3, <1>6, <1>8, <1>9, <1>10, <1>11, <1>12, <1>13
     DEF PackOK, PackPCs, SearchPCs, TransformPCs, Moves
<1>15. RootsRight' /\ PermsFilled'
  BY <1>1, <1>12, PackingKept
<1> QED
  BY <1>1, <1>6, <1>11, <1>12, <1>14, <1>15, PackStepInv DEF TypeOK

-----------------------------------------------------------------------------
(* The sequential part and the ends of a region. *)
LEMMA IdleFacts ==
  Idle \in Thread /\ Idle.pc = "idle" /\ Idle.op = "none"
PROOF
<1>1. "idle" \in PCs /\ {} \in SUBSET Nat /\ 0 \in AnyRoot
  BY DEF PCs, AnyRoot
<1>2. NotEncoded \in [permuted : BOOLEAN, root : AnyRoot]
  BY DEF NotEncoded, AnyRoot
<1> HIDE DEF NotEncoded
<1> QED
  BY <1>1, <1>2 DEF Idle, Thread

LEMMA SequentialFacts ==
  ASSUME IInv, Sequential
  PROVE  /\ \A q \in Moduli : \A m, n \in Maps : tables[m][q] = tables[n][q]
         /\ \A pm \in PackKeys : initRoot[pm] \notin {NoEntry, 0} => perms[pm[2]]
PROOF
<1>1. \A q \in Moduli : ~ Filling(q)
  BY DEF Sequential, Filling
<1>2. \A t \in Threads : thr[t].pc # "setPerms"
  BY DEF Sequential
<1> QED
  BY <1>1, <1>2 DEF IInv, TablesAgree, PermsFilled

(* A region that has just begun: no thread has read or written anything.   *)
LEMMA RegionBegins ==
  ASSUME IInv, Sequential, UNCHANGED <<tables, initRoot, perms, live, encoded>>,
         thr' \in [Threads -> Thread], OneRegion', RegionOK',
         \A t \in Threads : thr'[t].pc \in {"idle", "find", "prng", "packLookup"}
  PROVE  IInv'
PROOF
<1> USE DEF IInv
<1>1. TypeOK'
  BY DEF TypeOK
<1>2. TablesAgree'
  BY SequentialFacts DEF TablesAgree
<1>3. WrittenOwn' /\ FoundOwn'
  BY DEF WrittenOwn, FoundOwn
<1>4. LiveFilled' /\ RootsRight' /\ EncodedRight'
  BY DEF LiveFilled, RootsRight, EncodedRight
<1>5. PermsFilled'
  BY SequentialFacts DEF PermsFilled
<1> QED
  BY <1>1, <1>2, <1>3, <1>4, <1>5

LEMMA SwitchFormatKeeps ==
  ASSUME IInv, NEW c \in Contexts, NEW dir \in {"forward", "inverse"},
         NEW share \in [DOMAIN Towers[c] -> Threads], SwitchFormat(c, dir, share)
  PROVE  IInv'
PROOF
<1> USE DEF IInv
<1> DEFINE Part(t) == {i \in DOMAIN Towers[c] : share[i] = t}
           Task(t) == [Idle EXCEPT !.pc = "find", !.op = "towers", !.c = c, !.dir = dir, !.todo = Part(t)]
<1>1. /\ c \in live /\ Sequential /\ UNCHANGED <<tables, initRoot, perms, live, encoded>>
      /\ thr' = [t \in Threads |-> IF t \in {u \in Threads : Part(u) # {}} THEN Task(t) ELSE Idle]
  BY DEF SwitchFormat, Fork
<1>2. "find" \in PCs /\ \A t \in Threads : Part(t) \in SUBSET Nat
  BY ContextFacts DEF PCs, TowerPCs
<1>3. \A t \in Threads : /\ Task(t) \in Thread /\ Task(t).pc = "find" /\ Task(t).op = "towers"
                        /\ Task(t).c = c /\ Task(t).todo = Part(t)
  BY <1>2, IdleFacts DEF Thread
<1>4. \A t \in Threads : Part(t) \subseteq DOMAIN Towers[c] /\ \A u \in Threads : u # t => Part(u) \cap Part(t) = {}
  OBVIOUS
<1> HIDE DEF Part, Task
<1>5. \A t \in Threads : thr'[t] = IF Part(t) # {} THEN Task(t) ELSE Idle
  BY <1>1
<1>6. thr' \in [Threads -> Thread]
  BY <1>1, <1>3, IdleFacts
<1>7. \A t \in Threads : Busy(t)' <=> Part(t) # {}
  BY <1>3, <1>5, IdleFacts DEF Busy
<1>8. OneRegion'
  BY <1>1, <1>3, <1>5, <1>7, IdleFacts DEF OneRegion
<1>9. ASSUME NEW t \in Threads, Busy(t)'
      PROVE  thr'[t].op # "none" /\ TowersOK(t)' /\ TeamOK(t)' /\ PackOK(t)'
  <2>1. thr'[t].op = "towers" /\ thr'[t].pc = "find" /\ thr'[t].todo = Part(t) /\ thr'[t].c = c /\ Part(t) # {}
    BY <1>3, <1>5, <1>7, <1>9
  <2>2. \A u \in Threads : u # t /\ Busy(u)' => thr'[u].todo \cap thr'[t].todo = {}
    BY <1>3, <1>4, <1>5, <1>7, <2>1
  <2> QED
    BY <1>4, <2>1, <2>2 DEF TowersOK, TowersLeft, TowerPCs, TeamOK, PackOK
<1>10. RegionOK'
  BY <1>9 DEF RegionOK
<1> QED
  BY <1>1, <1>3, <1>5, <1>6, <1>8, <1>10, RegionBegins, IdleFacts

LEMMA KeySwitchGenKeeps ==
  ASSUME UsageRules, IInv, NEW c \in Contexts, KeySwitchGen(c)
  PROVE  IInv'
PROOF
<1> USE DEF IInv
<1> DEFINE r == [Idle EXCEPT !.pc = "prng", !.op = "team", !.c = c, !.todo = DOMAIN Towers[c], !.ret = "find"]
<1>1. /\ c \in live /\ Current(c) /\ Sequential /\ UNCHANGED <<tables, initRoot, perms, live, encoded>>
      /\ thr' = [t \in Threads |-> IF t \in Threads THEN r ELSE Idle]
  BY DEF KeySwitchGen, Fork, UsageRules
<1>2. "prng" \in PCs /\ DOMAIN Towers[c] \in SUBSET Nat /\ DOMAIN Towers[c] # {}
  BY ContextFacts DEF PCs, TeamPCs
<1>3. /\ r \in Thread /\ r.pc = "prng" /\ r.op = "team" /\ r.c = c /\ r.todo = DOMAIN Towers[c]
      /\ r.ret = "find"
  BY <1>2, IdleFacts DEF Thread
<1> HIDE DEF r
<1>4. \A t \in Threads : thr'[t] = r
  BY <1>1
<1>5. thr' \in [Threads -> Thread]
  BY <1>1, <1>3
<1>6. OneRegion'
  BY <1>1, <1>3, <1>4 DEF OneRegion, Busy
<1>7. Current(c)'
  BY <1>1 DEF Current, Lookup
<1>8. ASSUME NEW t \in Threads
      PROVE  thr'[t].op # "none" /\ TowersOK(t)' /\ TeamOK(t)' /\ PackOK(t)'
  <2>1. TeamOK(t)'
    BY <1>2, <1>3, <1>4, <1>7 DEF TeamOK, TeamPCs, TowersLeft, Current
  <2> QED
    BY <1>3, <1>4, <2>1 DEF TowersOK, PackOK
<1>9. RegionOK'
  BY <1>8 DEF RegionOK
<1> QED
  BY <1>1, <1>3, <1>4, <1>5, <1>6, <1>9, RegionBegins

LEMMA PackingKeeps ==
  ASSUME IInv, NEW c \in Contexts, NEW dir \in {"forward", "inverse"}, Packing(c, dir, {Master})
  PROVE  IInv'
PROOF
<1> USE DEF IInv
<1> DEFINE r == [Idle EXCEPT !.pc = "packLookup", !.op = "pack", !.c = c, !.dir = dir]
<1>1. /\ c \in live /\ (dir = "forward" => encoded[c] # NotEncoded)
      /\ Sequential /\ UNCHANGED <<tables, initRoot, perms, live, encoded>>
      /\ thr' = [t \in Threads |-> IF t \in {Master} THEN r ELSE Idle]
  BY DEF Packing, Fork
<1>2. "packLookup" \in PCs
  BY DEF PCs, PackPCs, SearchPCs
<1>3. r \in Thread /\ r.pc = "packLookup" /\ r.op = "pack" /\ r.c = c /\ r.dir = dir
  BY <1>2, IdleFacts DEF Thread
<1> HIDE DEF r
<1>4. \A t \in Threads : thr'[t] = IF t = Master THEN r ELSE Idle
  BY <1>1
<1>5. thr' \in [Threads -> Thread]
  BY <1>1, <1>3, IdleFacts
<1>6. \A t \in Threads : Busy(t)' <=> t = Master
  BY <1>3, <1>4, IdleFacts DEF Busy
<1>7. OneRegion'
  BY <1>1, <1>3, <1>4, <1>6, IdleFacts DEF OneRegion
<1>8. ASSUME NEW t \in Threads, Busy(t)'
      PROVE  thr'[t].op # "none" /\ TowersOK(t)' /\ TeamOK(t)' /\ PackOK(t)'
  <2>1. thr'[t] = r
    BY <1>4, <1>6, <1>8
  <2>2. PackOK(t)'
    BY <1>1, <1>3, <2>1 DEF PackOK, PackPCs, SearchPCs, TransformPCs
  <2> QED
    BY <1>3, <2>1, <2>2 DEF TowersOK, TeamOK
<1>9. RegionOK'
  BY <1>8 DEF RegionOK
<1> QED
  BY <1>1, <1>3, <1>4, <1>5, <1>7, <1>9, RegionBegins, IdleFacts

LEMMA JoinKeeps ==
  ASSUME IInv, Join
  PROVE  IInv'
PROOF
<1> USE DEF IInv
<1> DEFINE m == thr[Master]
<1>1. /\ \A t \in Threads : thr[t].pc \in {"idle", "done"}
      /\ encoded' = IF m.op = "pack" /\ m.dir = "inverse" THEN [encoded EXCEPT ![m.c] = m.used] ELSE encoded
      /\ thr' = [t \in Threads |-> Idle]
      /\ UNCHANGED <<tables, initRoot, perms, live>>
  BY DEF Join
<1>2. \A t \in Threads : thr'[t] = Idle /\ ~ Busy(t)'
  BY <1>1, IdleFacts DEF Busy
<1>3. Master \in Threads /\ m.used \in [permuted : BOOLEAN, root : AnyRoot]
  BY ThreadsAssumption DEF TypeOK, Thread
<1>4. m.op = "pack" /\ m.dir = "inverse" => m.c \in Contexts /\ m.used = Packed(m.c)
  <2> SUFFICES ASSUME m.op = "pack", m.dir = "inverse"
               PROVE  m.c \in Contexts /\ m.used = Packed(m.c)
    OBVIOUS
  <2>1. Busy(Master) /\ m.pc = "done"
    BY <1>1, <1>3 DEF OneRegion, Busy
  <2>2. m.c \in Contexts /\ PackOK(Master)
    BY <1>3, <2>1, BusyFacts
  <2>3. m.used.permuted /\ m.used.root = PlaintextRoot(m.c)
    BY <2>1, <2>2 DEF PackOK
  <2> QED
    BY <1>3, <2>2, <2>3 DEF Packed
<1>5. encoded' \in [Contexts -> [permuted : BOOLEAN, root : AnyRoot]] /\ EncodedRight'
  <2>1. encoded \in [Contexts -> [permuted : BOOLEAN, root : AnyRoot]]
    BY DEF TypeOK
  <2>2. CASE m.op = "pack" /\ m.dir = "inverse"
    BY <1>1, <1>3, <1>4, <2>1, <2>2 DEF EncodedRight
  <2>3. CASE ~ (m.op = "pack" /\ m.dir = "inverse")
    BY <1>1, <2>1, <2>3 DEF EncodedRight
  <2> QED
    BY <2>2, <2>3
<1>6. TypeOK'
  BY <1>1, <1>5, IdleFacts DEF TypeOK
<1>7. OneRegion' /\ RegionOK'
  BY <1>2, IdleFacts DEF OneRegion, RegionOK
<1>8. TablesAgree'
  <2>1. \A q \in Moduli : ~ Filling(q)
    BY <1>1 DEF Filling
  <2> QED
    BY <1>1, <2>1 DEF TablesAgree
<1>9. WrittenOwn' /\ FoundOwn'
  BY <1>2, IdleFacts DEF WrittenOwn, FoundOwn
<1>10. LiveFilled' /\ RootsRight'
  BY <1>1 DEF LiveFilled, RootsRight
<1>11. PermsFilled'
  BY <1>1 DEF PermsFilled
<1> QED
  BY <1>5, <1>6, <1>7, <1>8, <1>9, <1>10, <1>11

LEMMA CreateContextKeeps ==
  ASSUME IInv, NEW c \in Contexts, NEW how \in CreatedBy, CreateContext(c, how)
  PROVE  IInv'
PROOF
<1> USE DEF IInv
<1>1. /\ Sequential /\ live' = live \cup {c} /\ UNCHANGED <<initRoot, perms, encoded, thr>>
      /\ tables' = [m \in Maps |-> [q \in Moduli |->
                      IF q \in Range(Towers[c]) /\ ~ Lookup(tables, q, Dim[c])
                      THEN <<Dim[c], TowerRoot(c, q)>> ELSE tables[m][q]]]
  BY DEF CreateContext, PreComputeChain, PreComputeOver
<1>2. \A t \in Threads : ~ Busy(t) /\ ~ Busy(t)' /\ thr'[t] = thr[t]
  BY <1>1 DEF Sequential, Busy
<1>3. \A m \in Maps, q \in Moduli :
        tables'[m][q] = IF q \in Range(Towers[c]) /\ ~ Lookup(tables, q, Dim[c])
                        THEN Entry(Dim[c], q) ELSE tables[m][q]
  BY <1>1, TowerRootIs DEF Entry
<1>4. tables' \in [Maps -> [Moduli -> Entries]]
  <2>1. \A m \in Maps, q \in Moduli :
          (IF q \in Range(Towers[c]) /\ ~ Lookup(tables, q, Dim[c])
           THEN <<Dim[c], TowerRoot(c, q)>> ELSE tables[m][q]) \in Entries
    BY TowerRootIs, EntryFacts DEF TypeOK, Entry
  <2> QED
    BY <1>1, <2>1
<1>5. TypeOK'
  <2>1. \A m \in Maps, q \in Moduli : tables'[m][q] # Absent => tables'[m][q] = Entry(tables'[m][q][1], q)
    BY <1>3, EntryFacts DEF TypeOK
  <2> QED
    BY <1>1, <1>4, <2>1 DEF TypeOK
<1>6. OneRegion' /\ RegionOK'
  BY <1>1, <1>2 DEF OneRegion, RegionOK
<1>7. TablesAgree'
  BY <1>1, <1>3, SequentialFacts DEF TablesAgree
<1>8. WrittenOwn' /\ FoundOwn'
  BY <1>1 DEF WrittenOwn, FoundOwn, Sequential
<1>9. LiveFilled'
  <2> SUFFICES ASSUME NEW d \in live', NEW q \in Range(Towers[d]), NEW m \in Maps
               PROVE  tables'[m][q] # Absent
    BY DEF LiveFilled
  <2>1. d \in Contexts /\ q \in Moduli
    BY <1>1, ContextFacts DEF TypeOK
  <2>2. CASE q \in Range(Towers[c]) /\ ~ Lookup(tables, q, Dim[c])
    BY <1>3, <2>1, <2>2, EntryFacts
  <2>3. CASE q \in Range(Towers[c]) /\ Lookup(tables, q, Dim[c])
    <3>1. tables["root"][q][1] # 0
      BY <2>3, ContextFacts DEF Lookup
    <3>2. tables["root"][q] # Absent
      BY <3>1 DEF Absent
    <3> QED
      BY <1>1, <1>3, <2>1, <2>3, <3>2, MapFacts, SequentialFacts
  <2>4. CASE q \notin Range(Towers[c])
    <3>1. d \in live
      BY <1>1, <2>4
    <3> QED
      BY <1>3, <2>1, <2>4, <3>1 DEF LiveFilled
  <2> QED
    BY <2>2, <2>3, <2>4
<1>10. RootsRight' /\ EncodedRight'
  BY <1>1 DEF RootsRight, EncodedRight
<1>11. PermsFilled'
  BY <1>1, SequentialFacts DEF PermsFilled
<1> QED
  BY <1>5, <1>6, <1>7, <1>8, <1>9, <1>10, <1>11

(* Cleared tables are those with which the process starts.                 *)
LEMMA EmptyTablesOK ==
  ASSUME tables' = [m \in Maps |-> [q \in Moduli |-> Absent]],
         initRoot' = [pm \in PackKeys |-> NoEntry],
         perms' = [m \in {pm[2] : pm \in PackKeys} |-> FALSE],
         live' = {}, thr' \in [Threads -> Thread],
         \A t \in Threads : thr'[t].pc = "idle" /\ thr'[t].op = "none",
         encoded' \in [Contexts -> [permuted : BOOLEAN, root : AnyRoot]], EncodedRight'
  PROVE  IInv'
PROOF
<1>1. TypeOK'
  BY DEF TypeOK, Entries, AnyRoot
<1>2. OneRegion' /\ RegionOK'
  BY DEF OneRegion, RegionOK, Busy
<1>3. TablesAgree' /\ WrittenOwn' /\ FoundOwn' /\ LiveFilled'
  BY DEF TablesAgree, WrittenOwn, FoundOwn, LiveFilled
<1>4. RootsRight' /\ PermsFilled'
  BY DEF RootsRight, PermsFilled
<1> QED
  BY <1>1, <1>2, <1>3, <1>4 DEF IInv

LEMMA ClearKeeps ==
  ASSUME UsageRules, IInv, ClearStaticMapsAndVectors
  PROVE  IInv'
PROOF
<1>1. /\ Sequential /\ UNCHANGED <<encoded, thr>> /\ live' = {}
      /\ tables' = [m \in Maps |-> [q \in Moduli |-> Absent]]
      /\ initRoot' = [pm \in PackKeys |-> NoEntry]
      /\ perms' = [m \in DOMAIN perms |-> FALSE]
  BY DEF ClearStaticMapsAndVectors, UsageRules
<1>2. DOMAIN perms = {pm[2] : pm \in PackKeys}
  BY DEF IInv, TypeOK
<1>3. \A t \in Threads : thr'[t].pc = "idle" /\ thr'[t].op = "none"
  BY <1>1 DEF Sequential, IInv, OneRegion, Busy
<1>4. /\ thr' \in [Threads -> Thread] /\ EncodedRight'
      /\ encoded' \in [Contexts -> [permuted : BOOLEAN, root : AnyRoot]]
  BY <1>1 DEF IInv, TypeOK, EncodedRight
<1> QED
  BY <1>1, <1>2, <1>3, <1>4, EmptyTablesOK

LEMMA InitInv ==
  ASSUME Init
  PROVE  IInv
PROOF
<1>1. \A t \in Threads : thr[t] = Idle /\ ~ Busy(t)
  BY IdleFacts DEF Init, Busy
<1>2. thr \in [Threads -> Thread]
  BY IdleFacts DEF Init
<1>3. encoded \in [Contexts -> [permuted : BOOLEAN, root : AnyRoot]] /\ EncodedRight
  <2>1. NotEncoded \in [permuted : BOOLEAN, root : AnyRoot]
    BY DEF NotEncoded, AnyRoot
  <2> QED
    BY <2>1 DEF Init, EncodedRight
<1>4. TypeOK
  BY <1>2, <1>3 DEF Init, TypeOK, Entries, AnyRoot
<1>5. OneRegion /\ RegionOK
  BY <1>1, IdleFacts DEF OneRegion, RegionOK
<1>6. TablesAgree /\ WrittenOwn /\ FoundOwn /\ LiveFilled
  BY <1>1, IdleFacts DEF Init, TablesAgree, WrittenOwn, FoundOwn, LiveFilled
<1>7. RootsRight /\ PermsFilled
  BY DEF Init, RootsRight, PermsFilled
<1> QED
  BY <1>3, <1>4, <1>5, <1>6, <1>7 DEF IInv

LEMMA NextInv ==
  ASSUME UsageRules, UniqueRoots, IInv, [Next]_vars
  PROVE  IInv'
PROOF
<1>1. CASE Application
  <2>1. ASSUME NEW c \in Contexts, NEW how \in CreatedBy, CreateContext(c, how)
        PROVE  IInv'
    BY <2>1, CreateContextKeeps
  <2>2. ASSUME ClearStaticMapsAndVectors
        PROVE  IInv'
    BY <2>2, ClearKeeps
  <2>3. ASSUME NEW c \in Contexts, NEW dir \in {"forward", "inverse"},
               NEW share \in [DOMAIN Towers[c] -> Threads], SwitchFormat(c, dir, share)
        PROVE  IInv'
    BY <2>3, SwitchFormatKeeps
  <2>4. ASSUME NEW c \in Contexts, NEW dir \in {"forward", "inverse"}, Packing(c, dir, {Master})
        PROVE  IInv'
    BY <2>4, PackingKeeps
  <2>5. ASSUME NEW c \in Contexts, KeySwitchGen(c)
        PROVE  IInv'
    BY <2>5, KeySwitchGenKeeps
  <2>6. {{Master}} \cup (IF TeamsPack THEN {Threads} ELSE {}) = {{Master}}
    BY DEF UsageRules
  <2> QED
    BY <1>1, <2>1, <2>2, <2>3, <2>4, <2>5, <2>6 DEF Application
<1>2. ASSUME NEW t \in Threads, ThreadStep(t)
      PROVE  IInv'
  BY <1>2, GetPRNGKeeps, FindTablesKeeps, EnterPreComputeKeeps, FillTablesKeeps, FetchTablesKeeps,
     TransformKeeps, PackLookupKeeps, SetParamsKeeps, PackRootKeeps, PermuteKeeps DEF ThreadStep
<1>3. CASE Join
  BY <1>3, JoinKeeps
<1>4. CASE UNCHANGED vars
  BY <1>4 DEF vars, IInv, TypeOK, OneRegion, RegionOK, Busy, TowersOK, TowersLeft, TeamOK, Current, Lookup, PackOK,
     ThisKey, TablesAgree, Filling, WrittenOwn, FoundOwn, ThisModulus, ThisTower, ThisDim, LiveFilled,
     RootsRight, PermsFilled, EncodedRight
<1> QED
  BY <1>1, <1>2, <1>3, <1>4 DEF Next

-----------------------------------------------------------------------------
(* The invariant holds in every reachable state.                           *)
LEMMA Invariance ==
  ASSUME UsageRules, UniqueRoots
  PROVE  Spec => []IInv
PROOF
<1>1. Init => IInv
  BY InitInv
<1>2. IInv /\ [Next]_vars => IInv'
  BY NextInv
<1> QED
  BY <1>1, <1>2, PTL DEF Spec

(* The lookups and reads of the shared maps outside the critical section   *)
(* meet no write of another thread, for any number of threads, because a   *)
(* context fills its tables when it is created and a region shares out the *)
(* towers.                                                                 *)
THEOREM NoDataRaces ==
  ASSUME UsageRules, UniqueRoots
  PROVE  Spec => []NoDataRace
PROOF
<1>1. IInv => NoDataRace
  BY NoRace
<1> QED
  BY <1>1, Invariance, PTL

(* Every transform of a tower or of a plaintext reads, in all the maps of  *)
(* its direction, the table of its own dimension and root, although two    *)
(* contexts of different dimension replace each other's tables.            *)
THEOREM TransformsUseOwnTables ==
  ASSUME UsageRules, UniqueRoots
  PROVE  Spec => []OwnTables
PROOF
<1>1. IInv => OwnTables
  BY FoundAreOwn
<1> QED
  BY <1>1, Invariance, PTL

(* Unpack uses the root and permutation that Pack used, whatever was       *)
(* cleared, searched again or replaced in between.                         *)
THEOREM DecodingUndoesEncoding ==
  ASSUME UsageRules, UniqueRoots
  PROVE  Spec => []DecodeMatchesEncode
PROOF
<1>1. IInv => DecodeMatchesEncode
  BY DecodesAsEncoded
<1> QED
  BY <1>1, Invariance, PTL
=============================================================================
