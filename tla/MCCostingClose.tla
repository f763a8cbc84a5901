---------------------------- MODULE MCCostingClose ----------------------------
(* Instances of CostingClose for TLC.                                         *)
EXTENDS CostingClose, TLC

CONSTANTS s1, s2, ann, bob

(* Sessions and users are only compared for equality.                         *)
Symmetry == Permutations({s1, s2}) \cup Permutations({ann, bob})
==============================================================================
