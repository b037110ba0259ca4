SPECIFICATION FairSpec
CONSTANTS
  t1 = t1
  t2 = t2
  w1 = w1
  w2 = w2
  w3 = w3
  f1 = f1
  alice = alice
  bob = bob
  Tabs = {t1, t2}
  Writes = {w1}
  FutureWrites = {}
  Expirable = {w1}
  Rejected = {w1}
  Principals = {alice, bob}
  WebLocks = FALSE
  Channel = FALSE
  LateLogins = FALSE
  MaxItems = 3
  MaxDeadLettered = 1
  MaxRefreshRetries = 1
  MaxFaults = 2
  MaxStarts = 1
  MaxCalls = 0
  NoTab = NoTab
  NoRecord = NoRecord
  Expired = Expired
INVARIANTS
  NoForeignSend
  NoWriteLost
PROPERTIES
  EveryWriteResolved
\* A step that no longer comes is what the liveness property is about.
CHECK_DEADLOCK FALSE
