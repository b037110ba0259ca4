SPECIFICATION Spec
CONSTANTS
  j1 = j1
  Jobs = {j1}
  MaxSeq = 2
  Steps = 2
  MaxConcurrent = 2
  Batch = 1
INVARIANTS
  StepsNumberedOnce
  CompletedIsWhole
  NoDoubleReport
  StartedOnce
  NothingOutlivesStop
PROPERTIES
  AbortedIsSilent
  DrainHoldsOn
\* A worker stops, and start() returns.
CHECK_DEADLOCK FALSE
