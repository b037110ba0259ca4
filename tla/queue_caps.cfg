SPECIFICATION Spec
CONSTANTS
  t1 = t1
  t2 = t2
  w1 = w1
  w2 = w2
  w3 = w3
  f1 = f1
  alice = alice
  bob = bob
  Tabs = {t1}
  Writes = {w1, w2, w3}
  FutureWrites = {}
  Expirable = {}
  Rejected = {w2, w3}
  Principals = {alice}
  WebLocks = TRUE
  Channel = FALSE
  LateLogins = FALSE
  MaxItems = 1
  MaxDeadLettered = 1
  MaxRefreshRetries = 1
  MaxFaults = 1
  MaxStarts = 0
  MaxCalls = 1
  NoTab = NoTab
  NoRecord = NoRecord
  Expired = Expired
INVARIANTS
  CapHolds
  NeverUnderCounts
  DeadLetterBound
