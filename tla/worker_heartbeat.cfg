SPECIFICATION Spec
CONSTANTS
  j1 = j1
  Jobs = {j1}
  MaxSeq = 2
  Steps = 1
  MaxConcurrent = 2
  Batch = 1
INVARIANTS
  HeartbeatWhileDraining
\* A worker stops, and start() returns.
CHECK_DEADLOCK FALSE
