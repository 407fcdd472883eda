------------------------------ MODULE MCBinFHE ------------------------------
(* Instances of BinFHE: two-dimensional LWE keys, q = N = 256.             *)
EXTENDS BinFHE

SmallSecrets == {<<1, -1>>}
TwoSecrets == {<<1, -1>>, <<0, 1>>}
FreshMasks == {<<5, 250>>}
ResultMasks == {<<131, 0>>}
SmallNoise == {-2, 2}

SomeLarge == {17, 256, 511}
SomeInputs == {5, 15}

Negacyclic == [x \in 0 .. 15 |-> IF x < 8 THEN x + 3 ELSE 16 - (x - 8 + 3)]
Periodic == [x \in 0 .. 15 |-> ((x % 8) ^ 2) % 16]
Cube == [x \in 0 .. 15 |-> (x ^ 3) % 16]
SomeFunctions == {Negacyclic, Periodic, Cube}

\* Q, baseG and digitsG of STD128, STD128_AP and STD128Q
Gadget(mod, base, digits) == [Q |-> mod, B |-> base, digits |-> digits]
Ctx(method, opt, gadget) ==
  [method |-> method, timeOptimization |-> opt, base |-> 1, gadget |-> gadget]
SignContexts == {Ctx("GINX", TRUE, Gadget(134215681, 128, 4))}
AllContexts == SignContexts \cup {Ctx("AP", FALSE, Gadget(134215681, 512, 3)),
                                  Ctx("LMKCDEY", FALSE, Gadget(33550337, 16, 7))}
=============================================================================
