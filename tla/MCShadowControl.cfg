SPECIFICATION ControlSpec
CONSTANTS
  operator = operator
  viewer = viewer
  Sessions <- MCSessions
  Operators <- MCOperators
  MaxInstances = 2
INVARIANTS
  OneRunsAddressed
  RecordedEndIsReal
PROPERTIES
  StopEnds
  OrphanEnds
CHECK_DEADLOCK FALSE
