SPECIFICATION Spec
CONSTANTS
  t1 = t1
  t2 = t2
  w1 = w1
  w2 = w2
  w3 = w3
  f1 = f1
  alice = alice
  bob = bob
  Tabs = {t1}
  Writes = {w1}
  FutureWrites = {}
  Expirable = {}
  Rejected = {}
  Principals = {alice, bob}
  WebLocks = TRUE
  Channel = FALSE
  LateLogins = TRUE
  MaxItems = 3
  MaxDeadLettered = 1
  MaxRefreshRetries = 1
  MaxFaults = 2
  MaxStarts = 0
  MaxCalls = 0
  NoTab = NoTab
  NoRecord = NoRecord
  Expired = Expired
INVARIANTS
  NoForeignSend
