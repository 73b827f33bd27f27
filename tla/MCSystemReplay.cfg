SPECIFICATION MCSpec
CONSTANTS
  Kinds <- M5Only
  TTL = 5
  MaxBars = 3
  TerminalFacts = {}
  MaxGap = 1
  MaxTime = 10
  MaxCrashes = 0
  Discipline <- SmallDiscipline
  Risk <- SmallRisk
  Management <- DemoManagement
  Actions <- DefaultActions
  DayLength = 6
  BarTimes <- TwoDays
  Opens <- OpenPrices
  Closes <- ClosePrices
  Specialists = {"chart"}
  MaxTold = 4
  LiveKinds = {"M5", "INTRABAR"}
  LiveFacts = {"INVALIDATED", "EXPIRED"}
  LiveGap = 2
  LiveTime = 5
  LiveCrashes = 1
INVARIANTS
  ThesisSound
  BookInOrder
  EntryFollowsThesis
  DailyCapButCarried
  TellingsAgree
PROPERTIES
  NeverRevived
CHECK_DEADLOCK FALSE
