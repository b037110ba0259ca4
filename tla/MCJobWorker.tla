---------------------------- MODULE MCJobWorker ----------------------------
(* Instances of JobWorker for TLC.                                         *)
EXTENDS JobWorker, TLC

CONSTANTS j1

=============================================================================
