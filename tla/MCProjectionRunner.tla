------------------------- MODULE MCProjectionRunner -------------------------
(* Instances of ProjectionRunner for TLC.                                  *)
EXTENDS ProjectionRunner, TLC

CONSTANTS r1, r2, global, p1

\* Events 1 and 3 have no partition, 2 has one.
MCPart == 1 :> global @@ 2 :> p1 @@ 3 :> global

RunnerSymmetry == Permutations(Runners)

=============================================================================
