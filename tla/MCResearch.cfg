SPECIFICATION Spec
CONSTANTS
  Shapes <- MCShapes
  Higher = 2
  Left = 1
  Right = 1
  Channel = 2
  Barriers <- MCBarriers
  Warmup = 1
  Nan = Nan
  MaxCandles = 6
  MaxPause = 1
  Agents = {"a", "b"}
  One = 4
  Inputs <- MCInputs
  e1 = e1
  e2 = e2
  e3 = e3
  m1 = m1
  m2 = m2
  Models = {m1, m2}
  Suite <- MCSuite
  ModelOf <- MCModelOf
  FoldCount = 2
  MaxFaults = 2
  p1 = p1
  p2 = p2
  p3 = p3
  r1 = r1
  r2 = r2
  o1 = o1
  o2 = o2
  k1 = k1
  k2 = k2
  Processes = {p1, p2, p3}
  Requests = {r1, r2}
  RequestOf <- MCRequestOf
  RunKeys <- MCRunKeys
  Outcomes = {o1, o2}
  Engines <- MCEngines
  Nothing = Nothing
  MaxCrashes = 1
INVARIANTS
  NoLookAhead
  SplitsKeepLabelsApart
  NoSideIsFavoured
  ReportsRestOnArtifacts
  RecordsOfOneExecution
PROPERTIES
  Settles
  RecoversOneOutcome
  RetryCompletes
CHECK_DEADLOCK FALSE
