SPECIFICATION Spec
CONSTANTS
  Programs <- Handlers
  Numerals <- Decimals
  Policies = {"", "pause", "fail"}
  MaxAttempts = 2
  MaxLost = 0
INVARIANTS
  EffectsRolledBack
\* A run ends.
CHECK_DEADLOCK FALSE
