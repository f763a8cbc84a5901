---------------------------- MODULE MCOfflineSync ----------------------------
(* Instances of OfflineSync for TLC.                                          *)
EXTENDS OfflineSync, TLC

CONSTANTS t1, t2, q1, q2, q3

Symmetry == Permutations(Tab) \cup Permutations(Req)
==============================================================================
