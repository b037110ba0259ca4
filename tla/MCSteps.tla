------------------------------ MODULE MCSteps -------------------------------
(* An instance of StepEngine for TLC: three branches under a limit.        *)
EXTENDS StepEngine, StepHandlers

Handlers == {Three}

=============================================================================
