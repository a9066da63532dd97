-------------------------- MODULE MCServerRecovery --------------------------
(* Two versions of the data that have one application schema each and only *)
(* the grants in common.                                                   *)
EXTENDS ServerRecovery
CONSTANTS grants, shop, wiki
ThreeSchemas == {grants, shop, wiki}
TwoVersions  == [v \in 0..1 |-> {grants, IF v = 0 THEN shop ELSE wiki}]
=============================================================================
