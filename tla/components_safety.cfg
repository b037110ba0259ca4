SPECIFICATION AllSpec
CONSTANTS
  j1 = j1
  j2 = j2
  r1 = r1
  r2 = r2
  global = global
  e1 = e1
  e2 = e2
  p1 = p1
  p2 = p2
  h1 = h1
  h2 = h2
  t1 = t1
  t2 = t2
  c1 = c1
  c2 = c2
  ed1 = ed1
  ed2 = ed2
  l1 = l1
  l2 = l2
  q1 = q1
  NoRunner = NoRunner
  NoBatch = NoBatch
  PartsRun = {"pull", "streaming", "signal", "invocation", "group", "dedup", "browser", "node", "rpc", "watch", "agent", "filter", "saver"}
  LastEvent = 2
  BrowserFaults = 2
  Callbacks = {c1, c2}
  PullJobs = {j1}
  PullSeq = 2
  PullSteps = 2
  PullSlots = 1
  PullBatch = 1
  StreamingJobs = {j1, j2}
  Unfenced = {j1}
  StreamingSeq <- TwoThenOne
  StreamingStreams = 2
  StreamingSteps <- OneThenNone
  StreamingUndos = 1
  StreamingSlots = 1
  StreamingFaults = 1
  Workers = {w1, w2}
  Signals = {int, term}
  Programs <- Handlers
  Policies = {"", "pause", "fail"}
  MaxAttempts = 2
  ResponseLosses = 1
  Numerals <- Decimals
  GroupEvents = {e1, e2}
  GroupModes = {"manual", "auto"}
  GroupStreams = 2
  GroupCopies = 2
  GroupFaults = 2
  Callers = {p1, p2}
  ClaimAttempts = 3
  MaxLost = 2
  MaxFailures = 3
  Connections = {ed1, ed2}
  Loads = {l1, l2}
  ToolRequests = {q1}
  MaxTurns = 1
  MaxStops = 1
  MaxChildren = 2
  RpcSubs = {h1, h2}
  RpcEvents = 2
  MaxPauses = 1
  RpcFaults = 2
  WatchTabs = {t1, t2}
  TabOf <- AllInOne
  MaxRetries = 1
INVARIANTS
  TypeOK
  JobsAreKnown
  StepsOnce
  StepsEnd
  AcksAreHonest
  ClaimIsExclusive
  ClientsAgree
  WhatIsToldIsTrue
  AgentSessionsHold
PROPERTIES
  DrainsAreWhole
  GroupLeaves
\* A component comes to its end.
CHECK_DEADLOCK FALSE
