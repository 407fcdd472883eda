# A TLA+ verification of OpenFHE

OpenFHE is a C++ library for homomorphic encryption. It has three layers: `core`
(integers, transforms, lattices, random numbers), `pke` (the schemes BGV, BFV and
CKKS with key switching, multiparty protocols and bootstrapping) and `binfhe`
(Boolean circuits and lookup tables). It is a library: the application's threads
call it, and inside it only OpenMP loops run in parallel.

Most of its code computes polynomials, with parameters a model checker cannot reach. The arithmetic
itself is modelled once, at the lattice layer, with small moduli and short words. Above it, what is
hard to get right and hard to test is the *bookkeeping* around the polynomials: which level, degree and scaling factor a ciphertext has after any
sequence of calls; what the process-wide registries of contexts and keys, and the
tables that all contexts share, hold after any sequence of calls and under any
schedule of the threads; whether the moduli that parameter generation ends with
fit the ring it chose; whether keys, plaintexts and rotations of a bootstrapping
belong together; what several parties compute when some of them drop out. That is
what the modules here model. All paths below are relative to `src/src/`.

## 1. Inventory

| Component | State | Operations | Hard behaviour | What makes it correct |
|---|---|---|---|---|
| BGV leveled SHE (`pke/lib/scheme/bgvrns/bgvrns-leveledshe.cpp`, `pke/lib/schemerns/rns-leveledshe.cpp`, `pke/lib/schemebase/base-leveledshe.cpp`) | per ciphertext: level, towers, `noiseScaleDeg`, `scalingFactorInt` | add, subtract, multiply, square, plaintext operands, ModReduce, LevelReduce, Compress | operands of any two levels and degrees; exceptions half-way; operands changed in place | a ciphertext decrypts to what was computed |
| BGV parameters (`bgvrns-cryptoparameters.cpp`, `rns-cryptoparameters.h`) | tables of scaling factors | precomputation, getters | boundaries per technique, getters that answer past the end | every factor used is invertible and the one of its level |
| BGV decryption, packed encoding (`bgvrns-pke.cpp`, `packedencoding.cpp`) | loop over towers; static slot tables | Encode, Encrypt, Decrypt, Decode | polynomial and factor switched in step | Decode finds an inverse |
| Evaluation-key registries (`cryptocontext.h/.cpp`) | two static maps by key tag | key generation, insert, get, clear, serialize | shared map objects, merging, partial loads | keys under the right tag, not lost, not replaced |
| Context factory (`cryptocontextfactory.h/.cpp`, `cryptoobject.h`) | static list of contexts | find, make, release | contexts held after release, contexts made by loading | one context for one set of parameters |
| CKKS leveled SHE (`ckksrns-leveledshe.cpp`) | level, degree, scaling factor, composite degree | as BGV | state changed before an exception | canonical scales, levels match towers |
| BFV (`bfvrns-*.cpp`) | level, tables | multiplication with base changes | levels in HPSPOVERQLEVELED | exact products |
| Parameter generation (`*-parametergeneration.cpp`, `gen-cryptocontext-params*.cpp`) | parameter object | generate, validate | interacting restrictions | accepted parameters are usable |
| Key switching (`pke/lib/keyswitch`) | digits, partitions | generate, switch | the last, shorter partition | the switched ciphertext decrypts alike |
| Multiparty, interactive bootstrapping, secret sharing (`*-multiparty.cpp`, `cryptocontext.cpp`) | shares of parties | joint keys, partial decryption, fusion, recovery | parties that abort, order of rounds | fused result is the plaintext |
| PRE, advanced SHE (`base-pre.cpp`, `*-advancedshe.cpp`) | none | chains and trees of operations | boundary sizes | same value as the naive formula |
| Bootstrapping, scheme switching (`ckksrns-fhe.cpp`, `ckksrns-schemeswitching.cpp`) | precomputations by slot count | setup, key generation, evaluation | level budget, missing precomputation | levels left as promised |
| BinFHE (`binfhe/lib`) | refresh keys by base, shared parameters | BTKeyGen, gates, functions | parameters changed during key generation | gate truth tables, key of the current base |
| Lattice, transforms (`dcrtpoly`, `transformnat-impl.h`) | format, towers; static transform tables | arithmetic, NTT, basis conversion, rescaling, scaling | every rounding is done on residues alone, overflows are counted in floating point; formats of towers and polynomial; tables filled lazily under OpenMP, keyed by modulus alone | each call is the operation on integers it stands for; a transform uses its own table |
| Number theory, integer backends (`nbtheory*`, `bigint*`, `intnat`) | none | modular and limb arithmetic | carries, word boundaries | result equals the integer operation |
| Samplers, random numbers (`core/lib/math`, `utils/prng`) | engine buffer | draw | refill | distribution |
| Matrices and trapdoors | none | sampling | numeric | distribution |
| Block allocator, ParallelControls, utilities (`core/lib/utils`) | free list, counters | allocate, free | pool limit, reuse | no block handed out twice |
| Serialization of objects (`*-ser.h`) | none | save, load | contexts found or made | round trip |

Vendored code (cereal, google-test), examples, benchmarks, unit tests and the
documentation sources are not components. `PROJECT.json` lists every component with its
status, and every hazard at its line.

Interactions: an application holds ciphertexts and keys, each with a pointer to
its context; a homomorphic operation of the context verifies that pointer, takes
evaluation keys from the static registries by the key tag, and delegates to the
scheme's leveled operations, which read the tables of the crypto parameters.
Loading a serialized object asks the factory for its context. Releasing all
contexts empties the registries and static tables.

## 2. Modules

| Module | What it is |
|---|---|
| `PlaintextRing` | the plaintext space as an abstract commutative ring |
| `BGVLeveledSHE`, `MCBGVLeveledSHE` | leveled operations, tables, encoding and decryption of BGV; instances over Z_t |
| `BGVLeveledSHE_proof` | algebra of scales; the theorems about BGV |
| `CKKSLeveledSHE`, `MCCKKSLeveledSHE` | leveled operations, tables and decoding of CKKS; instances over a prime field |
| `CKKSLeveledSHE_proof` | the theorems about CKKS |
| `KeyRegistry`, `MCKeyRegistry` | contexts of the factory and registries of evaluation keys |
| `KeyRegistry_proof` | the theorems about the registries |
| `NumberTheory` | primality, factorization, generators, roots of unity |
| `SharedTables`, `MCSharedTables` | the static tables of transforms and packed encoding, and the threads that fill and read them; extends `NumberTheory` |
| `SharedTables_proof` | the theorems about the tables and the threads |
| `ParameterGeneration`, `MCParameterGeneration` | estimate, ring dimension, moduli, hybrid key-switching tables, validation |
| `ParameterGeneration_proof` | lemmas on sums, digits and the table of the standard; the theorems about ring dimensions and estimates |
| `SlotTransforms` | the collapsed Fourier transforms of CKKS bootstrapping over an exact complex plane |
| `CKKSBootstrapping`, `MCCKKSBootstrapping` | setup, keys, precomputation, archive and evaluation; extends `SlotTransforms` |
| `CKKSBootstrapping_proof` | the theorems about bootstrapping: entries and rotation keys |
| `IdealEvaluator` | what an application is promised: ciphertexts hold numbers |
| `ThresholdFHE`, `MCThresholdFHE` | threshold keys, secret sharing, decryption and interactive bootstrapping; implements `IdealEvaluator` |
| `ThresholdFHE_proof` | lemmas on congruences, sums over finite sets, units modulo primes; the theorems about the parties: types, recovery of keys, the refinement |
| `NativeInteger` | machine words: modular operations by Barrett and Shoup, vectors of words, change of modulus |
| `NumberTheoreticTransform` | the butterflies of the power-of-two transform and their tables; extends `NativeInteger` |
| `RNSPrecomputations` | the tables of BFV and of hybrid key switching that the conversions of a basis read |
| `RingElement` | what the lattice layer promises: an element of Z_M[X]/(X^n + 1), each call an operation on integers |
| `DCRTPoly`, `MCDCRTPoly` | polynomials as towers of words in two formats; implements `RingElement` |
| `Accumulators` | the three blind rotations and the gadget decomposition of BinFHE |
| `BinFHE`, `MCBinFHE` | keys, gates, functions, floor, sign, decomposition; extends `Accumulators` |
| `BinFHE_proof` | the theorems about keys, bases and digits of BinFHE |

### BGVLeveledSHE

A ciphertext is a record: `level`, `towers` (RNS moduli left), `noiseScaleDeg`,
`scf` (`GetScalingFactorInt`), `val`, the residue its polynomials encode, and `msg`,
the value the application computed. `msg` is not in the code; it states
correctness: a good ciphertext has `val = scf * msg`. Operations act slot by slot,
so one slot stands for all. `compressed` marks what Compress dropped towers of.

The pure operators translate the in-place routines; an outcome says whether
the routine returned or threw and what it left in its operand, because the InPlace and
Mutable forms leave a half-adjusted operand with the caller:

* `ModReduceInternalInPlace`, `LevelReduceInternalInPlace`, `EvalMultCoreInPlace`:
  `bgvrns-leveledshe.cpp:44-82, 234-263`.
* `Raise...`, `AdjustLevelsAndDepthInPlace`, `AdjustLevelsAndDepthToOneInPlace`: lines
  83-233. The two symmetric branches of the code are one operator with the operands
  exchanged.
* the actions `EvalAddOrSub`, `EvalMult`, `EvalSquare`, `ComposedEvalMult`, ... with
  their InPlace, Mutable and plaintext forms: `rns-leveledshe.cpp` and
  `base-leveledshe.cpp`. An exception leaves the destination unchanged.
* `PrecomputeFactor`, `PrecomputeBigFactors`: the loops of `PrecomputeCRTTables`.
* `CompressCall`, `CompressModReduce`, `CompressReturn` and `DecryptCall`,
  `DecryptModReduce`, `Decode`, `DecryptReturn`: the two calls with loops, one step per
  iteration.

`noiseScaleDeg` is unsigned, so sums and differences wrap modulo `DegMod`.

### CKKSLeveledSHE

A ciphertext is a record of `level`, `towers`, `deg` (`GetNoiseScaleDeg`), `sf`
(`GetScalingFactor`), `scale` and `status`. `scale` is not in the code: it is what
the polynomials hold the message times of, and the properties relate it to what the code
tracks. Scaling factors are multiplied, divided and compared, never added, so they
are elements of an abstract field; a finite field stands for the reals, and
`Zero` is the scale of a sum of terms of unequal scales. `status` says whether
a ciphertext is an operand, was compressed, or is what a call left that threw after it had
changed it (`torn`).

* `PrecomputeReal`, `PrecomputeRealBig` and the getters: the tables of
  `ckksrns-cryptoparameters.cpp` and `rns-cryptoparameters.h`, for every technique.
* `ModReduceInternalInPlace`, `LevelReduceInternalInPlace`, `EvalMultCoreInPlace`: the
  in-place routines, with the order in which they change degree, level, towers and factor,
  and what they leave when the polynomials run out of towers.
* `Retarget` and the `Raise...` operators: the cases of `AdjustLevelsAndDepthInPlace`
  (`ckksrns-leveledshe.cpp:618-790`); `AdjustPlaintext` for FIXEDMANUAL.
* the actions `Encrypt`, `EvalAdd`, `EvalMult`, `EvalSquare`, `ComposedEvalMult`, `EvalAddConst`,
  `EvalMultConst`, `EvalLinearWSumMutable`, `ModReduce`, `LevelReduceInPlace`, `CompressCall` with their InPlace,
  Mutable and plaintext forms.

Contracts of the application, in the guards: with FIXEDMANUAL it adds operands of equal degree and rescales
only products; plaintexts of composite scaling are encoded at multiples of the composite degree; no object is both operands of a
Mutable call; a torn ciphertext, or a compressed one of another technique than FIXEDMANUAL, is only decrypted; Compress is asked for no
fewer towers than degrees.

### KeyRegistry

A key is a secret's tag, a context object and a mark that tells generations apart.
`evalMultKeyMap` and `evalAutomorphismKeyMap` are the two static maps;
the second holds pointers to map objects (`maps`), because `InsertEvalAutomorphismKey` stores
the caller's `shared_ptr` and `GetEvalAutomorphismKeyMapPtr` returns the
registered one. `held` is the map the application holds, `stream` what it serialized last,
`loading` the entries a running deserialization still has to insert: one action
per tag, since it throws at a tag that has an entry and leaves the ones before it
inserted. An action stands for each call of `cryptocontext.h/.cpp` that changes the
registries, including clearing and serialization as a whole, by tag and by context
(which look at the first key of an entry only), for the factory's
`GetContext` and `ReleaseAllContexts`, and for the loading of a secret key.
`granted` (indices that key generation returned for and nobody cleared) and `last` (the last call) are
not in the code; properties refer to them. `KeysNotReplaced` leaves out the calls that insert or load keys (`DocumentedToReplace`):
their comments say that matching keys are replaced, which `LoadReplacesMultKeys` and `LoadReplacesAutomorphismKeys` state and the code does not do.

### SharedTables

`tables` are the six static maps of `ChineseRemainderTransformFTTNat`, each from a modulus to
the ring dimension and root it was filled for; `initRoot` and `perms` the tables of
`PackedEncoding`; `lock` the unnamed `omp critical` section, which is one lock for all of the library; `prng` tells which
threads have made their engine (`m_prng` is threadprivate unless `FIXED_SEED` is defined);
`thr` is where each thread of the team is in its part of a parallel loop. Sequential code (`CreateContext`,
`ClearStaticMapsAndVectors`) is atomic; `SwitchFormat`, `KeySwitchGen` and `Packing` start a
region, `Join` ends it, and in between a `ThreadStep` is one lookup, one entry written, one table read, one draw:
`GetPRNG`, `FindTables`, `EnterPreCompute`, `FillTables`, `FetchTables`, `Transform`, `PackLookup`, `SetParams`, `PackRoot`,
`Permute`. A root is computed with the operators of `NumberTheory`, over small prime moduli. Three
constants widen the environment past what the run assumes; see the disagreements below.

### ParameterGeneration

A call of `GenCryptoContext` goes through `ChooseRing`, `FitModuli` (the fixed-point loop of BGV),
`SelectModuli`, `PrecomputeCRTTables` and `ValidateRing`; `call` is the call in progress, `last` its answer,
`sizeP_estimate_global` the variable through which `EstimateLogP` tells `PrecomputeCRTTables`
what it estimated (`rns-cryptoparameters.cpp`), and which outlives the call. `Load` stands for a deserialized context, which
computes the tables without an estimate of its own. A modulus is the exponent of the power of two it is searched from and
the side it lies on, which is all that decides the bit length of a product. The sizes that the noise
analysis of BGV and BFV yields are part of the request.

### SlotTransforms and CKKSBootstrapping

Complex numbers are F_P[i] with P = 3 modulo 4 and P + 1 a multiple of the cyclotomic order, so that the roots of unity of the transforms
exist exactly and equality replaces approximation. `SlotTransforms` translates the collapsed
matrices, their plaintexts rotated beforehand, the baby-step giant-step evaluation and the computation of the rotations that
keys are made for. In `CKKSBootstrapping`, `bootPrecom` is `m_bootPrecomMap`, `evalKeys` the automorphism indices with a key,
`keyed` the slots for which the application has made keys since they were set up,
`result` the outcome of the last evaluation and `setups` a counter that bounds the calls. The actions are `EvalBootstrapSetup`, `EvalBootstrapKeyGen`,
`EvalBootstrapPrecompute`, `SaveAndLoad` and `EvalBootstrap`, which encodes a message, applies
both transforms in either order and compares. The approximate modular reduction is the identity. Two constants narrow what an application does,
where the code is known to fail: without `LateKeys` it makes no keys between loading and precomputing, without `LatePairs` it does not call
`EvalBootstrapPrecompute` where that takes another matrix than `EvalBootstrapSetup` (`JoinedInPrecompute` and `JoinedInSetup` differ: complex data,
sparse packing, budgets {1,1}, modulus raised first).

### ThresholdFHE and IdealEvaluator

Every polynomial is one residue modulo the product of the towers, noise is zero. `secretKeys` and `shares` are what each party
holds, `publicKey`, `evalKey` and `multKey` what they joined so far, `multipliers` how many parties have added their part
of the relinearization key, `alive` the parties that have not dropped out, `ciphertexts`, `partials` and `refresh` the ciphertexts
and the decryption and interactive bootstrapping under way, `revealed` the last decrypted
value. Actions: `KeyGen`, `MultipartyKeyGen`, `MultiplyEvalKey`, `Abort` (at any moment, of any party), `Encrypt`, `EvalAdd`,
`EvalMult`, `MultipartyDecrypt`, `MultipartyDecryptFusion`, `IntMPBootAdjustScale`,
`IntMPBootDecrypt`, `IntMPBootAdd`, `IntMPBootEncrypt`. For a party that dropped out, the others act with the key they
recover from its shares. Sharing works per tower, with the raw sums of machine words
(`Word`). Refinement: with `values` the phase of every ciphertext under the sum of the secret keys, every step
is a step of `IdealEvaluator` or a stutter (`ImplementsIdeal`).

### Accumulators and BinFHE

A ciphertext is a mask, a body, a modulus, and (not in the code) whose ciphertext of which message it is. The accumulator of a blind
rotation is m(X^u) X^e: `Accumulators` models which external products and automorphisms
each method (GINX, AP, LMKCDEY) performs for a mask, and the signed digits a product decomposes its input into.
`ctx` and `baseG` are the parameters, whose base calls change while they run; `btKey` and `btKeyMap` the current refresh key and the
map by base; `owner` the secret key of the last key generation; `cts` the ciphertexts; `calls` the running `EvalSign` and
`EvalDecomp` of each thread, whose rounds (`StartLarge`, `Floor`, `EvalSign`, `EvalDecomp`) are steps of their own. A key
of another base than the parameters' makes a product meaningless (`KeyError`). `Room` bounds what the application holds.

### NativeInteger, NumberTheoreticTransform, RNSPrecomputations, DCRTPoly and RingElement

`poly` is a `DCRTPolyImpl`: its `params`, its `format` (`m_format`) and its `towers`, each with a modulus, a format of its own and
`RingDim` words (`PolyImpl`). `call` is the last call with its arguments, `calls` how many there were. An action is one method of `DCRTPolyImpl`, or
one call that a scheme makes of it:

* `Ring`, `WithScalars`: change of format, sums, products, negation, automorphisms, integers (`dcrtpoly-impl.h`, `poly-impl.h`,
  `mubintvecnat.cpp`).
* `DropAndReduce`: `DropLastElement`, `DropLastElementAndScale` (CKKS, BFV Compress), `ModReduce` (BGV).
* `ApproxModUp`, `ApproxModDown`: the two halves of hybrid key switching, `ApproxSwitchCRTBasis` in both.
* `ExpandBasis`: `ExpandCRTBasis`, `SwitchCRTBasis`, `FastExpandCRTBasisPloverQ`, `ExpandCRTBasisQlHat`, the conversions of BFV's
  HPS, HPSPOVERQ and HPSPOVERQLEVELED multiplications.
* `ScaleAndRound`: t x / Q or t x / P, the tower chosen by which basis the output is; `Encryption`: `TimesQovert`, `CRTInterpolate` followed by
  encoding in another basis, `ScaleAndRoundPOverQ`; `Decrypt`: the four variants of `ScaleAndRound` to the plaintext modulus, and `MultiplyAndRound` with
  a change of modulus after compression.

The words of `NativeInteger` have `MaxBits` bits and wrap where the code's do; a double word holds any product of two words, as in the code. Quotients are
estimated, shifted and corrected as there. `NumberTheoreticTransform` gives the butterflies of the in-place transforms their tables as a parameter,
computed once for each modulus, as `SharedTables` says they are. `RNSPrecomputations` names every table after the one in the code and computes it by that table's formula.

Doubles are exact rationals here: a sum of fractions over the moduli is a natural number over their product, and one half is added where the code
adds it. The thresholds at which decryption stops trusting a double or a word are constants
(`DecryptPrecisions`), so that a small instance goes through each of its branches; `DecryptScale` splits residues, reduces products, or masks
as the threshold says. The branches of `#if defined(__GNUC__)` around the butterflies compute the same and are one definition.

Refinement: `Value` computes the coefficients from the towers by the definitions of evaluation and of the Chinese remainder theorem, without any table
or butterfly of the model. Under it every step is a step of `RingElement` (`ImplementsRing`), whose actions say which integers a call may
yield: exactly one for most, and for the approximate conversions any with the permitted multiple of the modulus or rounding error.

## 3. Runs

State counts are of the runs as configured; every run ends within the time limit of five minutes with two workers.

| Run | Properties | States | Shows |
|---|---|---|---|
| `bgv_flexibleext` | `TypeOK`, `DecryptCorrect`, `ScaleAgreement`, `DegreeOneOrTwo`, `TowersMatchLevel`, `IInv` | 103,593 | BGV, FLEXIBLEAUTOEXT: all calls, also throwing ones, keep scales canonical; the special encoding at level 0; the invariant of the proof |
| `bgv_fixedmanual` | `TowersMatchLevel`, `IInv`, `CallsReturn` | 178,234 | BGV, FIXEDMANUAL, one object as both operands allowed: rescaling and dropping by hand, degrees up to 4 and wrapped ones; Compress and Decrypt end |
| `ckks_leveled` | `TypeOK`, `DecodesRight`, `ScalesFromTable`, `TowersMatchLevel`, `DegreeOneOrTwo` | 37,089 | CKKS, four techniques: decoding divides by the scale the polynomials have |
| `kr_one` | `TypeOK`, `OneContextPerTag`, `GrantedKeysStay`, `KeysNotReplaced` | 416,373 | one tag, both registries, two generations: merging, partial copies, loads that throw half-way, release between calls |
| `kr_tags` | `KeysBelongToTag`, `IInv` | 177,416 | two tags, shared map objects, contexts used after release; the invariant of the proof |
| `st_towers` | `NoDataRace`, `OwnTables`, `DecodeMatchesEncode`, `RegionsEnd` | 63,473 | three threads, two contexts of different dimension with a modulus in common, caches cleared in between |
| `pg_standard` | `OwnEstimate`, `RingHoldsModuli`, `DownwardEstimateExact`, `GenerationReturns` | 1,951 | sequences of contexts at the sizes of the HE standard |
| `boot_orders` | `TypeOK`, `BootstrapReturnsMessage`, `RotationKeysCover` | 15,702 | sparse and full packing, real and complex, eight pairs of budgets, any order of setup, keys, archive and evaluation |
| `th_aborts` | `TypeOK`, `RecoveryExact`, `ImplementsIdeal` | 547,598 | three parties, either sharing, any of them lost at any step; the refinement |
| `bh_one` | `TypeOK`, `DecryptsRight`, `KeysMatchBase`, `GadgetRecomposes` | 6,105 | every gate, function, floor, sign and decomposition with the three methods, composed in any order with key generation |
| `dcrt_ops` | `WellFormed`, `ImplementsRing` | 14,284 | three calls of any kind on double CRT polynomials, in either format; the refinement to the integer ring |
| `ckks_fixedauto` | `DecodesRight` violated | | the finding below |

### Bounds

* `bgv_flexibleext` has four moduli, so that there is a pair of levels for
  each of the six cases of the adjustment (equal, adjacent, further apart, and the last level, which has no
  big factor), `t = 5` with residues 2, 3, 2, 3, so that a factor of the wrong modulus, a missing or a doubled one changes a scale, and
  plaintexts of every level but the last. `bgv_fixedmanual` only aligns towers, for which three moduli with residues 1 are enough;
  plaintexts of all levels. Two ciphertext variables (interchangeable in the first) are both operands and destination. `MaxDeg = 4` limits the degree of a product (two operands of
  degree 2, the largest an automatic technique builds); `DegMod = 8` stands for 2^64 and keeps 4
  apart from a wrapped 0 - 1 = 7. Encoded degrees are 1 and 2. FLEXIBLEAUTO and FIXEDAUTO have no run: the theorems cover them.
* `ckks_leveled`: six moduli with composite degree 2 give three composite levels; single moduli and products of two are all different modulo
  101. 2^p is an element of order 5, so that the scales of FIXEDMANUAL, powers of it up to the fourth, stay distinct and finite in number.
  Plaintexts of levels 0, 1, 2 and 4; degrees to 4. A run over FIXEDAUTO alone is the violated one.
* `kr_one`: two indices for merging, one parameter set, two contexts (one made after a release), three map objects (one registered,
  one held, one new), two generations to tell a replaced key from a kept one, vectors of two keys. `kr_tags`: two tags, one
  index. `Ctxs` bounds how many contexts are ever made.
* `st_towers`: dimensions 4 and 2, moduli 41, 73 and 41, 13 (primes that are 1 modulo the cyclotomic order), plaintext modulus 17,
  three threads for two towers so that one is idle or late. Contexts are generated, or loaded with hybrid key switching.
* `pg_standard` uses real sizes: 60/50- and 60/30-bit moduli, depths 0 to 9, default, 2 and 4 digits, BV switching, a given batch size, a given ring,
  256-bit security, multiparty flooding. A context that answered an error stops nothing, and the run may end:
  `CHECK_DEADLOCK FALSE` in this run, those of bootstrapping, `th_aborts` and `dcrt_ops` because the application may have nothing left to do.
* `boot_orders`: P = 31, 8 slots and half of them; budgets with one level, with as many as layers, with a remainder in either
  direction, and more than there are layers; computed and given baby steps; two setups.
  Remaining levels occur with full packing only: a sparse one needs 8 of 16 slots, and all 16 have none, so that one run does not reach both.
  With `P = 127`, `M4 = 16`, `SlotCounts = {8, 16}` the three properties hold too, in five minutes (27,174 states); with 16 of 32 slots
  the message may be lost (`ckksrns-fhe.cpp:1803` below). `LatePairs = FALSE` leaves out the precomputation that loses the message for complex data with budgets {1,1}.
* `th_aborts`: threshold 2 of 3, additive and Shamir; towers 7, 11, 13; secrets 1 and -1; two ciphertexts, one refresh. All parties may abort.
* `bh_one`: q = N = 256, secrets of dimension two with both signs, one mask with entries on both halves, noise of both signs; gadgets of the
  parameter sets STD128 (GINX), STD128_AP and STD128Q (LMKCDEY), for which `GadgetRecomposes` is checked.

* `dcrt_ops`: dimension 8, words of 14 bits, Q = 97 * 113, P = 17 * 241, R = 193 * 17, all 1 modulo 16: moduli of different bit lengths in either
  order, so that a modulus is switched up and down, and a special modulus smaller than those of Q. The initial coefficients lie at 0, at a half and at the end of the
  modulus, and next to them, in Q, Q P and Q R. t = 4 (masked) and 5 (divided); decryption precisions on both sides of each threshold. Three calls reach each operation in
  both formats, after another operation and the change of format it needs. `MaxCalls` ends a sequence:
  `CHECK_DEADLOCK FALSE`. R has as many moduli as Q: the steps of HPS, where it has one more, are those of the other two methods on a longer basis.

### Finding

`ckks_fixedauto`. `GetScalingFactorRealBig` (`pke/include/schemerns/rns-cryptoparameters.h:635`) returns 2^p for the FIXED
techniques, where the adjustment of a ciphertext needs its square (`ckksrns-leveledshe.cpp:660, 691, 635, 716`): with FIXEDAUTO,
an operand of degree 1 that meets a deeper one of degree 1 is multiplied by 1 and then
rescaled away. `pke/examples/advanced-real-numbers.cpp:284` promises the correct depth and level.

### Known disagreements without a run

Further places where documentation and code differ, or where a contract that the runs assume is not enforced. Each can be reproduced with
the constants or the operator named; the modules keep what is needed.

| Place | What happens | To reproduce |
|---|---|---|
| `bgvrns-cryptoparameters.cpp:110` | FLEXIBLEAUTOEXT: the table of factors ends one entry early, plaintexts of that level are accepted | `EncodeLevels <- AllLevels`: `DecryptCorrect` |
| `bgvrns-leveledshe.cpp:226` | `EvalMultMutable(c, c)` of degree 2 rescales twice | `Aliasing = TRUE` with a rescaling technique: `DecryptCorrect` |
| `cryptocontext.cpp:135` | inserting or loading relinearization keys for a tag that has some throws; `cryptocontext.h:679` (load) and `718` (insert) say that matching keys are silently replaced | `LoadReplacesMultKeys` |
| `cryptocontext.cpp:361` | inserting or loading automorphism keys adds missing indices only; `cryptocontext.h:905` (load), `943` and `782` (insert) say that matching keys are silently replaced | `LoadReplacesAutomorphismKeys` |
| `cryptocontext.cpp:113` | clearing with an empty tag clears nothing, `cryptocontext.h:701` says that it clears all relinearization keys | `EmptyTagClearsAll` |
| `cryptocontext.cpp:99` | `EvalMultKeysGen` does not store its vector if the tag has one, `cryptocontext.h:1860` | `KeysGenStoresVector` |
| `cryptocontext.cpp:303` | clearing by context looks at the first key of a map only | `KeepReleased = TRUE`: `ContextCleared` |
| `transformnat-impl.h:718` | teams on contexts whose tables were replaced or cleared look up while another thread writes; `Best_Performance.md:41` recommends parallel use | `TeamsWhenStale`, `TeamsPack = TRUE`: `NoDataRace` |
| `distributiongenerator.cpp:96` | a context loaded with BV switching meets its tables unfilled in a team: a thread that fills them makes its engine inside the section it holds | `CreatedBy` with `"loaded BV"`: `RegionsEnd` |
| `rns-cryptoparameters.cpp:147` | the estimate of one context is compared with the size of the next | `ArchivedRequests`, `UnsetRequests`: `OwnEstimate` |
| `ckksrns-parametergeneration.cpp:128` | one added bit does not always account for moduli above their power of two | `AlternatingRequests`: `AlternationAccounted` |
| `ckksrns-fhe.cpp:317` | keys made between loading and precomputing: an archive does not hold the parameters of the transforms, which line 317 finds again only afterwards | `LateKeys = TRUE`: `RotationKeysCover` |
| `packedencoding.cpp:402` | root and permutations are looked up without a lock and written one after the other (539, 552): a thread that finds the root goes on with half-filled permutations | `TeamsPack = TRUE`: `NoDataRace` |
| `ckksrns-fhe.cpp:403` | complex data, sparse packing, budgets {1,1}, modulus raised first: `EvalBootstrapPrecompute` takes U0 alone where `EvalBootstrapSetup` (233-236) joins U0 and U1, and the message is lost, against `cryptocontext.h:3499-3500` | `LatePairs = TRUE`: `BootstrapReturnsMessage` |
| `ckksrns-fhe.cpp:1803` | sparse packing: the plaintexts of the remaining level of the decoding are rotated by multiples of `p.g`, those of full packing (1749) and the evaluation (2075) by `p.gRem`; `cryptocontext.h:3500` | P = 127, M4 = 32, 16 slots, `ThreeLevelsBV`: `BootstrapReturnsMessage` |
| `ckksrns-fhe.cpp:1846` | budgets {1,1}, full packing and a baby step longer than the slots: the last giant step rotates by M/4, whose key line 1249 takes off the list of rotations | a `dim1` above `M4` in `Dims` (`DimsFit`): `RotationKeysCover` |
| `cryptocontext.cpp:835` | additive shares need all other parties, whatever the threshold; `cryptocontext.h:3483` | `Schemes <- AdditiveMajority`: `RecoveryExact` |
| `ckksrns-multiparty.cpp:396` | `IntMPBootAdd` adds into its first input: a repeated call counts shares twice | `MaxAdds = 2` |
| `binfhecontext.cpp:295` | `BTKeyGen` for another secret keeps the keys of the map | `Rekeys = TRUE`: `KeysMatchBase` |
| `binfhe-base-scheme.cpp:420` | `EvalSign` in two threads: the base of the shared parameters changes under the other | two `Threads`: `DecryptsRight` |
| `ckkspackedencoding.cpp:345-350` | Decode of a ciphertext with one tower ignores the degree for the FIXED techniques | `FirstRoom = 2`: `DecodesRight` |
| `ckksrns-leveledshe.cpp:181` | FIXED techniques: an operand that a call threw on has lost a degree, not the tower | `DecodesRight` without its condition on torn operands |
| `binfhe-base-scheme.cpp:204` | `Bootstrap` adds a quarter of the large modulus to a ciphertext it has just switched to the small one; `binfhecontext.h:325` | `LargeDim = TRUE`: `DecryptsRight` |
| `dcrtpoly-impl.h:709` | `DropLastElementAndScale` in COEFFICIENT format leaves the towers in EVALUATION and the polynomial's format unchanged; BFV Compress of a product without relinearization | `ScaleFormats = {"EVALUATION", "COEFFICIENT"}`: `WellFormed` |
| `poly-impl.h:211-225` | in COEFFICIENT format `Plus(Integer)` adds to the constant coefficient, `Minus(Integer)` subtracts from each | stated as it is by `MinusInteger` of `RingElement` |
| `rns-leveledshe.cpp:319` | COMPOSITESCALINGMANUAL adjusts like COMPOSITESCALINGAUTO | by reading |

### Fairness

Nothing is assumed about which call the application makes next, or that it makes any. What is assumed is that a call that has been
entered is executed:

* `CallsReturn` (BGV): `WF_vars(Precompute \/ Running)`. The calls are plain functions of one
  thread, so a step of a running call that stays enabled is taken. That the loop body of Compress is reached again and again does not prove
  termination: it ends because each iteration drops a tower or throws, which is what the run checks, also from a wrapped degree.
* `RegionsEnd`: weak fairness of `Join` and of every thread's `ThreadStep`: the OpenMP runtime runs every thread of a team
  and the barrier at the end of a region waits for all. A thread waiting for the critical section is not enabled.
* `GenerationReturns`: weak fairness of the steps of a generation; the loop of BGV ends because the sizes settle, not by fairness.

## 4. Proofs

Eight specifications have proofs, for every value of their constants. The definitions are the ones TLC checks.
The provers take no fact with an operator as a parameter, so the induction theorems of the library cannot be cited. A proof module that needs
induction derives it at its head for *sets* (a property is the set of the numbers that have it): `LeastExists` from the
well-foundedness of the strict subset ordering on finite sets, `SetInduction` and `BoundedInduction` from it, and `RecursionExists`, that a function
defined by recursion takes the values its equations say. Each proof module rests on its component and the library alone.

| Module | Theorems | Hypotheses besides the assumptions on the constants |
|---|---|---|
| `BGVLeveledSHE_proof` | `Inductive`, `TypeCorrect`, `DecryptCorrectness`, `ScalesAgree`, `TowersFollowLevel`, `DegreesBounded` | `Contract` |
| `KeyRegistry_proof` | `Inductive`, `TypeCorrect`, `KeysOwnTag`, `KeysStay`, `NothingReplaced` (action property); `OneContext` | none; `~KeepReleased` for the last |
| `SharedTables_proof` | `NoDataRaces`, `TransformsUseOwnTables`, `DecodingUndoesEncoding` | `UsageRules`, `UniqueRoots` |
| `CKKSLeveledSHE_proof` | `TypeCorrect`, `TowersFollowLevel`, `DegreesAdjustable`, `FactorsFromTable`; `DecodesWithScale` | none; `DecodableTechniques` for the last |
| `BinFHE_proof` | `KeysFollowBase`; `DigitsRecompose`, `GadgetsRecompose` | `OneThread`, `ClearsKeys` for the first |
| `ThresholdFHE_proof` | `TypeCorrect`; `SharesRecover`; `Implements` (refinement) | none; `SumsFit`, `AllShares`; these, `MessagesFit(bound)` and `OneAggregation` |
| `CKKSBootstrapping_proof` | `TypeCorrect`; `KeysCover` | `DimsFit`, `BudgetsFit`; these and `~LateKeys` |
| `ParameterGeneration_proof` | `RingAlwaysHolds`; `EstimateIsOwn`, `DownwardIsExact` | none; `EstimateIsMade` |

**BGV** (`BGVLeveledSHE_proof`). Assumed, as named ASSUMEs: the ring laws of Z_t, that products and inverses of
units are units, that every modulus is a unit modulo t and is 1 for the FIXED techniques (parameter
generation chooses them so). The theorems have the hypothesis `Contract`: plaintexts are
encoded at levels with a table entry, and no object is passed as both operands of a
multiplication that rescales. The first two of the known disagreements are what happens without it.

`DecryptCorrect` is not inductive: what an adjustment produces depends on the scales of
its operands. `IInv` adds that the scale of a ciphertext is a *function* of its level and
degree (`Scale`), which the tables satisfy by `TablesOK`: rescaling a ciphertext of degree 2
gives the factor of degree 1 of the next level. The argument:

1. Algebra of scales: multiplying by target * inverse(scale), and rescaling afterwards, sets a
   ciphertext to the target scale (`Retarget`, `RetargetThrough`).
2. `TablesComputed`: the two loops establish `TablesOK`, from `TablesPartial`.
3. `RaiseDeepOK`, `RaiseShallowOK`, `RaiseOnceOK`, `RaiseTwiceOK`: each case of the adjustment ends at the
   scale of its target, and what it leaves when it throws is still good. `AdjustOK` and
   `AdjustToOneOK` combine them.
4. `AddOrSubOK`, `MultOK`, `MultPlainOK` for the core operations: equal level and degree imply equal scales.
5. `BinaryStep`, `PlaintextStep`, `UnaryStep`, `ManageStep`, `RunningStep`, `PrecomputeStep`: one per group of actions;
   `Inductive` and its five corollaries.

**KeyRegistry** (`KeyRegistry_proof`). Assumed: the types of the constants, that there is
at least one context object, and that `None` is none of the values.
`IInv` says that each key that is registered, held, stored or being loaded has the
tag it is found under, and a context whose parameters are those of the secret's
context; and that no registered map is empty. Non-emptiness is needed because two tags never share a
map object (`MapsNotShared`) only as each map has a key that names its tag. The argument: `GetContextGrows` (the factory
never gets two contexts with equal parameters), `InsertKeeps` (insertion keeps ownership and granted
indices and replaces no key), one lemma per action, four per group. `OneContext` has the hypothesis
`~KeepReleased`: keys' parameters determine their context if all contexts in use are the factory's.
`NothingReplaced` is the action property, from the same invariant; the proof shows it of the calls it leaves out too.

**SharedTables** (`SharedTables_proof`), for any number of threads, contexts and towers and all dimensions and moduli. `UsageRules`: contexts are dropped when the
caches are cleared, teams use contexts whose tables are those in the maps, and packing is sequential; without them the race of the known disagreements is real.
`UniqueRoots`: `RootOfUnity` does not depend on the generator the random search came upon, as it returns the least primitive root (the run computes
it for its moduli). `IInv` says that all busy threads work on one region of a context in use (`OneRegion`), in which the towers are shared out; that a
thread with a modulus to fill has it to itself (`RegionOK`, lemma `Apart`); that the six maps agree on every modulus but that of a thread which is filling it,
where the part already written is its own (`TablesAgree`, `WrittenOwn`); that what a thread found is its own (`FoundOwn`), that a context in use has its tables filled
(`LiveFilled`), and that roots and permutations of the packed encoding are those of their ring (`RootsRight`, `PermsFilled`, `EncodedRight`). All six
are related because a lookup asks the first map only (`LookupFindsOwn`). One lemma per step of a thread, by `ThreadStepInv` from what the step leaves alone;
`NoRace`, `FoundAreOwn` and `DecodesAsEncoded` derive the properties.

**CKKS** (`CKKSLeveledSHE_proof`), for any number of moduli, composite degree and factors. Assumed are the laws of the field of factors, and at least three
moduli, in whole composite groups. `IInv` is `Tables` (a factor for each level; the square of a level's factor over the dropped moduli is the factor of the
next level, lemma `InitTables` from the two loops) and, for each ciphertext, that level and towers match and the scale is what level and degree
say: `Elem(level, deg)` with the automatic techniques, the tracked power of 2^p with FIXEDMANUAL. A ciphertext in the middle of a call satisfies the shape of a
reduction (`RescaleShape`, `ReduceShape`) and a weaker condition if the call threw (`torn`). `RaiseDeepGood` to `RaiseTwiceGood` are the cases of the adjustment, as for BGV; `LinearWSumGood` and
`CompressGood` the calls with loops. `DecodableTechniques` leaves out FIXEDAUTO (the finding) and FIXEDMANUAL with a first modulus of two scaling factors, where Decode of a
ciphertext with one tower takes its degree to be one (a known disagreement).

**BinFHE** (`BinFHE_proof`). `KeysFollowBase` has the inductive invariant that every key of the map and the current one belong to the secret of the last
generation and to their base, and that a running call knows the base to return to. `OneThread` and `ClearsKeys` are what the two known disagreements break.
`DigitsRecompose` is about the decomposition alone: for every base, number of digits with Q <= base^digits, and every value modulo Q, the signed digits times the powers
of the base differ from the value by at most half of the ignored first digit (and the dropped carry). The argument: the remainders and the partial
sums are recursive functions whose sum is the value at every step (`Recomposition`); a remainder halves its bound with each digit (`RestBound`); so the last carry is at most one
(`CarryBound`). `GadgetAssumption` is how the code chooses `m_digitsG`.

**ThresholdFHE** (`ThresholdFHE_proof`), for all parties, thresholds, towers, draws and messages. Assumed: the moduli are distinct primes larger than the number of parties, the threshold is a
majority (`ShareKeys` throws otherwise), secrets and draws are reduced.

1. `TypeCorrect`, from `TInv`: keys and ciphertexts are reduced modulo the towers they have.
2. `SharesRecover`: whatever parties are lost, the others recover a lost key exactly while they are at least the threshold. With Shamir's sharing,
   `ValueAtZero`: Lagrange's coefficients, computed in pairs as the code does, give the value at 0 of a polynomial of smaller degree; a telescoping sum over the powers of the points
   (`WeightedStep`, `WeightedValue`). This holds in each tower, and `Interpolates` (Chinese remainder theorem) puts the towers together.
   `SumsFit` says the code's raw sum of `threshold` residues does not wrap; `AllShares` that additive sharing has threshold = parties - 1, as one missing share is fatal (a known disagreement).
3. `Implements`: every step is a step of `IdealEvaluator` or leaves the numbers alone. The inductive invariant `SInv(bound)` adds to `TInv`: the joined public key is one of the sum of the secrets that
   joined (`KeysJoin`); the multiplication key is that of the sum times the secrets of the parties that contributed (`KeysMultiply`); the phase of a ciphertext is, and stays, within its bound
   (`ValuesSmall`); the parts of a decryption are congruent to key * c2, with c1 for the lead, recovered keys included (`PartsAddUp`); and what a refresh holds is the
   phase, and that each party's pair of shares carries one mask with both signs (`RefreshHolds`, `RefreshMasked`). So the masks cancel in the sum (`MasksAddUp`), and a number that
   with all the masks fits the towers kept is its own centred residue (`CentredEqual`, `RefreshedValue`). One lemma `...Advances` per action. `MessagesFit(bound)` is that fit:
   each of `bound` bounds a ciphertext's number, sums and products of earlier ciphertexts included. `OneAggregation` is needed because `IntMPBootAdd` adds into its first input: a repeated
   call counts shares twice. The run satisfies all four.

**CKKS bootstrapping** (`CKKSBootstrapping_proof`), for every ring dimension, number of slots, budget and baby step. Assumed: `M4Assumption` (a power of two, at least 2).
`DimsFit` says the baby steps an application asks for are at most M/4 (a known disagreement otherwise), `BudgetsFit` that budgets are natural numbers; budgets that are too large are within it, as
the code cuts them to the layers there are. `KeysCover`: an entry is used only with keys for all rotations, and the conjugation, its transforms perform. `~LateKeys` (keys are made before an archive is
written) is needed because what the archive leaves out is found again from less. The argument:

1. Powers of two by recursion (`TwoTo`), base-two logarithms and ceilings. `LayersSpread`: `SelectLayers` spreads all layers over the budget, with at least one in each level and none left over.
2. `ParamsLaid`: `GetCollapsedFFTParams` answers parameters that are `Laid` (levels, layers, rotations and steps fit each other), and, asked again with an archived level budget and baby step, answers the
   same. So the inductive invariant `TypeInv` has that each entry of `m_bootPrecomMap` is in full or `Bare`, as an archive leaves it, and `FullOf` a bare entry is the one that was saved.
3. `LevelsFit`: the rotations of every level stay within the slots. `LevelCovered`: with the reductions the code makes, what a level rotates by, in baby and giant steps, is in the list made for it, or is 0 and
   not a rotation. `EncodingCovered`, `DecodingCovered` (levels), `LinearCovered` (budgets {1,1}) and `PartialSumsIn` (sparse packing) are the cases, combined by `UsedHaveKeys`.
4. `KeysKept` is the second half of the inductive invariant: the keys made for an entry stay through setup, precomputation, archive and loading.

**Parameter generation** (`ParameterGeneration_proof`). `RequestsAssumption` says what a request is: positive sizes and a number of primes, and for BGV with
computed sizes positive sizes at every ring dimension the request may end with. Sizes, numbers of moduli and digits are otherwise arbitrary. `RingAlwaysHolds`: the ring dimension
that was chosen for the *estimated* sizes also complies for the moduli that were *selected* together with the special primes computed from *them*, so
the validation at the end never answers "please report to developers", however the sides of the moduli turn out and whatever estimates earlier calls left. The argument:

1. Sums of sequences (`SumConcat`, `AfterFirstSum`) and `LengthsFacts`: a product of moduli has the sum of their exponents in bits, one more at most (`Longest`).
2. `EstimateHolds`: the estimate, with its extra bit, is at least `Longest` of the selected moduli; or it is one word of 60 bits and they may have 61. The code
   adds no bit then (`QEstimate(r) # AuxBits`), and an invariant that the estimate is never exceeded would be false. `WholeWords` is why this does no harm: no limit of
   the table is a multiple of 60, so that with special primes of 60 bits one bit more asks for the same ring.
3. `FindRingDimGrows`: a longer modulus needs no smaller ring. BGV with computed sizes: `FitModuliInv`, the loop ends when the bound holds the moduli of the ring dimension it was made for.
4. The inductive invariant `Inv` (`BoundInv`, `RingInv`, `FitsInv`) carries this through the call. It needs that the estimate in the global is positive (`EstimatePositive`):
   0 stands for *no estimate*, and `EstimateMet` would let any size of P pass.

`EstimateIsOwn` and `DownwardIsExact` suppose that every generation with hybrid key switching makes an estimate and that no context with it is
deserialized (`EstimateIsMade`); what happens without is among the disagreements. For the second, moduli that all lie below their power of two give every digit one length, the sum of the sizes
that were estimated (`DigitOfBits`), and that every digit has moduli (`Distributable`) forces the number of digits the estimate used (`ExactBits`).

Only model-checked:

* liveness (`CallsReturn`, `RegionsEnd`, `GenerationReturns`): fairness and ENABLED are out of the prover's reach;
* the lattice layer (`WellFormed`, `ImplementsRing`): `NativeInteger` has a RECURSIVE operator (Euclid's algorithm), in whose presence the prover has no arithmetic;
* `BootstrapReturnsMessage`: that the collapsed matrices multiply to the transform, and its inverse, is an induction over data;
* `TypeOK` and `DecryptsRight` of `BinFHE`: the second is about the phase of a ciphertext through all of the blind rotation;
* the violated statement.

## 5. Not modelled, and why

* Noise: parameter generation guarantees a bound; the model takes decryption of a
  polynomial as exact.
* In the modules of the schemes polynomials are what their properties need, a residue or a scale; DCRTPoly has the polynomials themselves, and the two are not
  composed. Relinearization changes no metadata the model tracks. Key switching is modelled by its two basis changes and its digits, not as a product with a key.
* DCRTPoly: the BEHZ conversions (FastBaseConv*, FastRNSFloorq, the gamma-corrected ScaleAndRound), ExpandCRTBasisReverseOrder, ApproxScaleAndRound and the digit
  decompositions (CRTDecompose, PowersOfBase); the loss of precision of a double, for whose bounds the code has its thresholds; samplers as constructors.
* Integer backends other than the native one: CRTInterpolate yields an integer, however it is represented.
* Decryption of ciphertexts in COEFFICIENT format, and `MultByMonomial`.
* KeyRegistry: the explicit tag argument of an insertion (only the tag of the keys, or its default, is modelled), empty
  vectors (see hazards), writes of the application into a registered map through its pointer, the overload of
  `DeserializeEvalAutomorphismKey` at `cryptocontext.h:866-897`, which takes an `std::ostream` and cannot be
  instantiated. `EvalSumRowsKeyGen` is key generation followed by a partial copy, both of which are actions.
  Several threads: the registries are unsynchronised, one application thread is modelled.
* CKKSLeveledSHE: noise and the precision that roundings cost; rotations, MultByMonomial and MultByInteger, which change no scale; complex constants are as real
  ones. EvalFastRotation and the polynomial evaluations are compositions of modelled calls and not modelled themselves.
* SharedTables: the tables of arbitrary cyclotomic orders (Bluestein) and roots of unity that the user gives. The registries
  and the list of contexts have no lock; concurrent calls of the application on them are not documented and not modelled.
* ParameterGeneration: composite scaling, flooding for PRE, the computation of noise (its results are data of a request), requests that the
  validation of user parameters rejects, sizes of 60 bits and more that throw at once.
* CKKSBootstrapping: the approximate modular reduction, its levels and noise, scaling by powers of two, two iterations
  (Meta-BTS), functional bootstrapping.
* ThresholdFHE: noise and smudging, the two-party IntBoot operations, joint automorphism keys. Messages and secrets are single residues, so rotations cannot be expressed.
* BinFHE: public-key encryption, scheme switching and the branch of `EvalSign` for it (`binfhe-base-scheme.cpp:439-445`), saving and loading, the exceptions for a key that is null; GINX alone for large precision and arbitrary functions, as
  in the code; Q = 1 modulo the large modulus, so that switching has the sign of its rounding but no drift.
* All components marked `not_modelled` in `PROJECT.json`, with the reason there.

## 6. Plan

Done: all modules of section 2, model-checked; proofs of `BGVLeveledSHE`, `KeyRegistry`, `SharedTables`, `CKKSLeveledSHE`, `ThresholdFHE` with its refinement, the keys of
`CKKSBootstrapping`, the ring dimensions and estimates of `ParameterGeneration`, and the keys and digits of `BinFHE`. Next, in this order:

1. Proofs: `TypeOK` of `BinFHE`, with the hypotheses on the plaintext modulus it needs; termination arguments for the loop of BGV as a variant.
2. `AdvancedSHE`: EvalAddMany, EvalMultMany, EvalSum and the polynomial evaluations (`ckksrns-utils.cpp:126-350`) as operators against
   their formulas; the whole multiplication of BFV over the steps of `DCRTPoly`, with the levels HPSPOVERQLEVELED drops.
3. `LimbArithmetic` of the dynamic backend with a small limb width; BEHZ; the chain of key switches of PRE.
4. An ideal evaluator implemented by the leveled operations of BGV and CKKS, an ideal key store (a function from tag and index to
   key) implemented by the registries.

A new component's run shares an instance with an existing one where the state spaces are small; a run of its own is for a question of its own.
