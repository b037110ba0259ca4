SPECIFICATION Spec
CONSTANTS
  t1 = t1
  t2 = t2
  w1 = w1
  w2 = w2
  w3 = w3
  f1 = f1
  alice = alice
  bob = bob
  Tabs = {t1}
  Writes = {w1}
  FutureWrites = {f1}
  Expirable = {}
  Rejected = {w1}
  Principals = {alice}
  WebLocks = TRUE
  Channel = TRUE
  LateLogins = FALSE
  MaxItems = 3
  MaxDeadLettered = 0
  MaxRefreshRetries = 1
  MaxFaults = 0
  MaxStarts = 0
  MaxCalls = 1
  NoTab = NoTab
  NoRecord = NoRecord
  Expired = Expired
INVARIANTS
  CountersInSyncUnlessMissed
PROPERTIES
  NewerUntouched
