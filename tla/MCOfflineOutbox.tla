-------------------------- MODULE MCOfflineOutbox ---------------------------
(* Instances of OfflineOutbox for TLC.                                     *)
EXTENDS MCOfflineQueue, OfflineOutbox

=============================================================================
