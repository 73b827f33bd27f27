SPECIFICATION Spec
CONSTANTS
  Kinds <- M5Only
  TTL = 3
  MaxBars = 3
  TerminalFacts = {}
  MaxGap = 1
  MaxTime = 8
  MaxCrashes = 0
INVARIANT ExpiredRollsOver
CHECK_DEADLOCK FALSE
