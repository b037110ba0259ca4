SPECIFICATION Spec
CONSTANTS
  t1 = t1
  t2 = t2
  w1 = w1
  w2 = w2
  w3 = w3
  f1 = f1
  alice = alice
  bob = bob
  Tabs = {t1, t2}
  Writes = {w1, w2}
  FutureWrites = {}
  Expirable = {}
  Rejected = {w1}
  Principals = {alice}
  WebLocks = TRUE
  Channel = FALSE
  LateLogins = TRUE
  MaxItems = 3
  MaxDeadLettered = 0
  MaxRefreshRetries = 1
  MaxFaults = 2
  MaxStarts = 1
  MaxCalls = 0
  Keys = {1, 2}
  NoTab = NoTab
  NoRecord = NoRecord
  Expired = Expired
INVARIANTS
  TypeOK
  StrictFifo
  SingleDrainer
  OnePlace
PROPERTIES
  OutboxSpec
SYMMETRY TabSymmetry
