------------------------------ MODULE MCRfqAwards ------------------------------
(* Instances of RfqAwards for TLC.                                            *)
EXTENDS RfqAwards, TLC

CONSTANTS s1, s2, l1, l2, b1, b2

(* Sessions, lines and bids are only compared for equality.                   *)
Symmetry == Permutations({s1, s2}) \cup Permutations({l1, l2}) \cup Permutations({b1, b2})
==============================================================================
