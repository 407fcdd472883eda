------------------------- MODULE CKKSBootstrapping -------------------------
(* The life of CKKS bootstrapping (FHECKKSRNS): set up for a number of      *)
(* slots, keys, precomputation, the archive of the context, and the two     *)
(* orders a ciphertext is refreshed in: raising the modulus first, or, with *)
(* BTSlotsEncoding, decoding to coefficients first.                         *)
(*                                                                          *)
(* The approximate modular reduction returns its argument: the transforms   *)
(* around it, on which everything else depends, are evaluated exactly. The  *)
(* scaling by powers of two, the levels and the noise are left out.         *)
EXTENDS SlotTransforms

CONSTANTS SlotCounts,    \* numbers of slots set up
          Budgets,       \* for each CKKSDataType, "REAL" and "COMPLEX", pairs levelBudget
          Dims,          \* pairs dim1
          LateKeys,      \* whether keys are also generated between loading a context and
                         \* EvalBootstrapPrecompute
          LatePairs,     \* whether EvalBootstrapPrecompute is also called where it takes
                         \* another matrix than EvalBootstrapSetup
          MaxSetups      \* bound: calls of EvalBootstrapSetup

ASSUME SlotsAssumption == \A s \in SlotCounts : s \in 1..M4 /\ M4 % s = 0

VARIABLES dataType,      \* of the context
          bootPrecom,    \* m_bootPrecomMap
          evalKeys,      \* automorphism indices with a key (evalAutomorphismKeyMap)
          keyed,         \* slots keys were generated for since their setup
          result,        \* of the last EvalBootstrap
          setups         \* calls of EvalBootstrapSetup

vars == <<dataType, bootPrecom, evalKeys, keyed, result, setups>>

CyclotomicOrder == 4 * M4
N == 2 * M4
None == [slots |-> 0]
Conjugation == CyclotomicOrder - 1

\* FindAutomorphismIndex2nComplex
AutomorphismIndex == LET p[i \in 0..(M4 - 1)] == IF i = 0 THEN 1 ELSE (5 * p[i - 1]) % CyclotomicOrder
                     IN  Table(p)

Clamp(budget, slots) == IF budget > LogSlots(slots) THEN LogSlots(slots)
                        ELSE IF budget < 1 THEN 1 ELSE budget

Sparse(slots) == slots # M4

\* the matrices of budgets {1, 1}: whether U0 and U1, U0hatT and U1hatT are joined
JoinedInSetup(slots, BTSlotsEncoding) == Sparse(slots) /\ (dataType = "REAL" \/ ~BTSlotsEncoding)
JoinedInPrecompute(slots) == Sparse(slots) /\ dataType = "REAL"

----------------------------------------------------------------------------
(* The plaintexts of a set-up.                                              *)
WithPlaintexts(p, pair) ==
    LET flagPack == dataType = "COMPLEX" /\ p.BTSlotsEncoding
    IN  IF IsLTBootstrap(p.enc, p.dec)
        THEN [p EXCEPT !.U0Pre = <<LinearDecoding(p.slots, p.enc.g, pair)>>,
                       !.U0hatTPre = <<LinearEncoding(p.slots, p.enc.g, pair)>>]
        ELSE [p EXCEPT !.U0Pre = EvalSlotsToCoeffsPrecompute(p.slots, p.dec, flagPack),
                       !.U0hatTPre = EvalCoeffsToSlotsPrecompute(p.slots, p.enc, flagPack)]

EvalBootstrapSetup(slots, levelBudget, dim1, precompute, BTSlotsEncoding) ==
    LET p == [slots |-> slots, BTSlotsEncoding |-> BTSlotsEncoding,
              enc |-> GetCollapsedFFTParams(slots, Clamp(levelBudget[1], slots), dim1[1]),
              dec |-> GetCollapsedFFTParams(slots, Clamp(levelBudget[2], slots), dim1[2]),
              U0Pre |-> <<>>, U0hatTPre |-> <<>>]
    IN  /\ setups < MaxSetups
        /\ setups' = setups + 1
        /\ bootPrecom' = [bootPrecom EXCEPT ![slots] = IF precompute
                            THEN WithPlaintexts(p, JoinedInSetup(slots, BTSlotsEncoding)) ELSE p]
        /\ keyed' = keyed \ {slots}
        /\ UNCHANGED <<dataType, evalKeys, result>>

EvalBootstrapKeyGen(slots) ==
    LET p == bootPrecom[slots]
    IN  /\ p # None
        /\ p.enc.layersCollapse > 0 \/ LateKeys
        /\ evalKeys' = evalKeys \cup {Conjugation}
              \cup {AutomorphismIndex[i] : i \in FindBootstrapRotationIndices(slots, p.enc, p.dec)}
        /\ keyed' = keyed \cup {slots}
        /\ UNCHANGED <<dataType, bootPrecom, result, setups>>

EvalBootstrapPrecompute(slots) ==
    LET p == bootPrecom[slots]
        \* the parameters an archive does not hold are found again
        full == [p EXCEPT !.enc = GetCollapsedFFTParams(slots, p.enc.lvlb, p.enc.g),
                          !.dec = GetCollapsedFFTParams(slots, p.dec.lvlb, p.dec.g)]
    IN  /\ p # None
        /\ \/ LatePairs
           \/ IsLTBootstrap(p.enc, p.dec) =>
                 JoinedInPrecompute(slots) = JoinedInSetup(slots, p.BTSlotsEncoding)
        /\ bootPrecom' = [bootPrecom EXCEPT ![slots] = WithPlaintexts(full, JoinedInPrecompute(slots))]
        /\ UNCHANGED <<dataType, evalKeys, keyed, result, setups>>

\* the context and its automorphism keys are archived, released and loaded
Archived(p) == [p EXCEPT !.enc = [NoParams EXCEPT !.lvlb = p.enc.lvlb, !.g = p.enc.g],
                         !.dec = [NoParams EXCEPT !.lvlb = p.dec.lvlb, !.g = p.dec.g],
                         !.U0Pre = <<>>, !.U0hatTPre = <<>>]
SaveAndLoad ==
    /\ bootPrecom' = [s \in SlotCounts |-> IF bootPrecom[s] = None THEN None ELSE Archived(bootPrecom[s])]
    /\ bootPrecom' # bootPrecom
    /\ UNCHANGED <<dataType, evalKeys, keyed, result, setups>>

----------------------------------------------------------------------------
(* Refreshing a ciphertext.                                                 *)

\* slots that no transform treats alike; a context for real data holds real ones
Message(slots) == [k \in 0..(slots - 1) |->
                     <<(7 * k * k + 3) % P, IF dataType = "REAL" THEN 0 ELSE (11 * k + 5) % P>>]

InverseModP(n) == CHOOSE x \in 1..(P - 1) : (n * x) % P = 1
Reals(v) == Add(v, [k \in DOMAIN v |-> Conj(v[k])])
Imaginaries(v) == Scale(Minus(I), Add(v, [k \in DOMAIN v |-> Minus(Conj(v[k]))]))

ToSlots(p, ct) ==
    IF IsLTBootstrap(p.enc, p.dec) THEN EvalLinearTransform(p.U0hatTPre[1], ct, p.slots, p.enc.g)
    ELSE EvalCoeffsToSlots(p.U0hatTPre, ct, p.slots, p.enc)
ToCoeffs(p, ct) ==
    IF IsLTBootstrap(p.enc, p.dec) THEN EvalLinearTransform(p.U0Pre[1], ct, p.slots, p.enc.g)
    ELSE EvalSlotsToCoeffs(p.U0Pre, ct, p.dec)
Copies(p, ct) == IF Sparse(p.slots) THEN PartialSum(ct, p.slots) ELSE ct
WithRotated(ct, slots) == Table(Add(ct, Rotate(ct, slots)))

\* the real and the imaginary parts of the slots are reduced apart and put together again
Parts(complex, enc) ==
    IF complex THEN Add(Reals(enc), Scale(I, Imaginaries(enc))) ELSE Reals(enc)

ModRaiseFirst(p, ct) ==
    LET raised == Scale(<<InverseModP(N), 0>>, ct)
        enc == ToSlots(p, Table(Copies(p, raised)))
        dec == ToCoeffs(p, Table(Parts(~Sparse(p.slots), enc)))
    IN  IF Sparse(p.slots) THEN WithRotated(dec, p.slots) ELSE dec

EvalBootstrapStCFirst(p, ct) ==
    LET depleted == ToCoeffs(p, ct)
        joined == IF Sparse(p.slots) /\ dataType = "REAL" THEN WithRotated(depleted, p.slots) ELSE depleted
        raised == Scale(<<InverseModP(N), 0>>, joined)
    IN  Parts(dataType = "COMPLEX", ToSlots(p, Table(Copies(p, raised))))

\* the rotations a refresh asks keys for
RotationsUsed(p) ==
    LET transforms == IF IsLTBootstrap(p.enc, p.dec) THEN LinearRotations(p.slots, p.enc.g)
                      ELSE RotationsOf(EncodingLevels(p.enc), p.slots) \cup RotationsOf(DecodingLevels(p.dec), M4)
        sparse == PartialSums(p.slots)
                  \cup IF p.BTSlotsEncoding /\ dataType = "COMPLEX" THEN {} ELSE {p.slots}
    IN  (transforms \cup IF Sparse(p.slots) THEN sparse ELSE {}) \ {0}
AutomorphismsUsed(p) == {AutomorphismIndex[i] : i \in RotationsUsed(p)} \cup {Conjugation}

\* called as documented: set up, keys generated, plaintexts computed
EvalBootstrap(slots) ==
    LET p == bootPrecom[slots]
        ct == Table(Periodic(Message(slots), M4))
    IN  /\ p # None
        /\ slots \in keyed
        /\ p.U0Pre # <<>>
        /\ \E outcome \in {IF ~(AutomorphismsUsed(p) \subseteq evalKeys) THEN "key not found"
                           ELSE IF (IF p.BTSlotsEncoding THEN EvalBootstrapStCFirst(p, ct)
                                                          ELSE ModRaiseFirst(p, ct)) = ct
                                THEN "refreshed" ELSE "message lost"} :
              result' = [slots |-> slots, outcome |-> outcome]
        /\ UNCHANGED <<dataType, bootPrecom, evalKeys, keyed, setups>>

----------------------------------------------------------------------------
Init ==
    /\ dataType \in DOMAIN Budgets
    /\ bootPrecom = [s \in SlotCounts |-> None]
    /\ evalKeys = {}
    /\ keyed = {}
    /\ result = [slots |-> 0, outcome |-> "none"]
    /\ setups = 0

Next ==
    \/ \E slots \in SlotCounts, levelBudget \in Budgets[dataType], dim1 \in Dims, precompute, BTSlotsEncoding \in BOOLEAN :
         EvalBootstrapSetup(slots, levelBudget, dim1, precompute, BTSlotsEncoding)
    \/ \E slots \in SlotCounts : EvalBootstrapKeyGen(slots)
    \/ \E slots \in SlotCounts : EvalBootstrapPrecompute(slots)
    \/ SaveAndLoad
    \/ \E slots \in SlotCounts : EvalBootstrap(slots)

Spec == Init /\ [][Next]_vars

----------------------------------------------------------------------------
(* Properties.                                                              *)

\* m_bootPrecomMap holds set-ups by their number of slots, with plaintexts for
\* each level of both transforms or for none, and a key for conjugation comes
\* with every set of rotation keys
TypeOK ==
    /\ dataType \in DOMAIN Budgets
    /\ evalKeys \subseteq 1..Conjugation
    /\ keyed \subseteq SlotCounts
    /\ keyed # {} => Conjugation \in evalKeys
    /\ \A slots \in SlotCounts : LET p == bootPrecom[slots] IN
         p # None => /\ p.slots = slots
                     /\ Len(p.U0Pre) \in {0, p.dec.lvlb} /\ Len(p.U0hatTPre) \in {0, p.enc.lvlb}

\* EvalBootstrap, called after the documented steps, returns the message it is
\* given: the plaintexts of every level, their rotations, the levels the layers
\* are spread over and the order of the steps agree, for both orders of the
\* transforms, packed fully or sparsely, set up here or loaded. It is false in
\* two cases: complex data, sparse slots and budgets {1, 1}, when
\* EvalBootstrapPrecompute takes the place of the set-up (LatePairs); and a sparse
\* packing whose remaining level is turned back by another rotation, modulo the
\* slots, than the one it is evaluated with (EvalSlotsToCoeffsPrecompute, from
\* three layers on)
BootstrapReturnsMessage == result.outcome # "message lost"

\* every rotation a refresh asks for has a key: the indices that
\* FindBootstrapRotationIndices lists and those the transforms use agree
RotationKeysCover == result.outcome # "key not found"
=============================================================================
