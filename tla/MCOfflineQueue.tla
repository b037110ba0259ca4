--------------------------- MODULE MCOfflineQueue ---------------------------
(* Instances of OfflineQueue for TLC.                                      *)
EXTENDS OfflineQueue, TLC

CONSTANTS t1, t2, w1, w2, w3, f1, alice, bob

TabSymmetry == Permutations(Tabs)

\* Sound where Expirable and Rejected are each all or none of Writes.
FullSymmetry == TabSymmetry \cup Permutations(Writes)

=============================================================================
