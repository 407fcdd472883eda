--------------------------- MODULE MCThresholdFHE ---------------------------
(* Small instances of ThresholdFHE. *)
EXTENDS ThresholdFHE

ThreeTowers == <<7, 11, 13>>

ThreeParties == { [parties |-> 3, threshold |-> 2, shareType |-> "additive"],
                  [parties |-> 3, threshold |-> 2, shareType |-> "shamir"] }
\* with this scheme RecoveryExact does not hold
AdditiveMajority == { [parties |-> 5, threshold |-> 3, shareType |-> "additive"] }

OneTape == { <<30, 4, 2>> }
=============================================================================
