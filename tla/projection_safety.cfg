SPECIFICATION Spec
CONSTANTS
  r1 = r1
  r2 = r2
  global = global
  p1 = p1
  Runners = {r1, r2}
  N = 4
  Backlog = 3
  Matching = {1, 2, 3}
  Part <- MCPart
  Global = global
  BatchSize = 2
  Modes = {"managed", "external"}
  Transports = {"stream", "poll"}
  MaxFaults = 1
  MaxEnds = 1
  MaxMishaps = 1
  NoRunner = NoRunner
  NoBatch = NoBatch
INVARIANTS
  NothingSkipped
  PositionCovered
  StoppedReleases
  LostIsFenced
  StopSaves
PROPERTIES
  FoldSpec
SYMMETRY RunnerSymmetry
