------------------------ MODULE MCCKKSBootstrapping ------------------------
(* Instances of CKKSBootstrapping for TLC.                                  *)
EXTENDS CKKSBootstrapping

\* one level for both, as many as layers, a remaining level on either side,
\* and more than there are layers
BudgetsBV == [REAL |-> {<<1, 1>>, <<2, 2>>, <<3, 2>>, <<1, 3>>},
              COMPLEX |-> {<<1, 1>>, <<2, 2>>, <<3, 2>>, <<2, 5>>}]
\* 16 of 32 slots with this budget: the remaining level has another baby step
ThreeLevelsBV == [REAL |-> {<<4, 3>>}]

DefaultDims == {<<0, 0>>}
DimsBV == {<<0, 0>>, <<2, 4>>}
=============================================================================
