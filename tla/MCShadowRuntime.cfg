\* Loop: six facts every five seconds as in the code, under bars of 24 seconds that they overtake, room for a bar polled as late as it may be and for two restarts. Stream: three of events of any kind, crashes and failed appends. Clock: two changes of the broker's clock or account and two sessions. Funnel: two days of three active bars, three polls and one crash or failed append. The search stops at its bounds.
SPECIFICATION Spec
CONSTANTS
  Bar = 24
  Facts = 6
  Interval = 5
  PollSeconds = 5
  Latencies = {0, 1}
  StaleAfter = 24
  Epoch = 2000
  BaseSequence = 1000
  Pauses = {3, 20}
  MaxStarts = 3
  MaxTime = 60
  AgentOrder <- TwoAgents
  FirstSequence = 1
  MaxInstant = 1
  MaxSequence = 2
  MaxEvents = 3
  MaxSteps = 3
  Hour = 4
  M5 = 2
  Plausible <- TwoOffsets
  Tolerance = 1
  Ahead = 0
  QuoteStale = 2
  Closing = 9
  Environments = {e1, e2}
  MaxUtc = 12
  MaxSessions = 2
  MaxChanges = 2
  Panel <- FiveAgents
  Bundles <- OneDebate
  MaxDisagreement = 6
  Pictures <- OneQuiet
  Setups = {1, 2, 3}
  Cadence <- TwoADay
  BarsPerDay = 4
  Window = {1, 2, 3}
  LastBar = 4
  MaxPolls = 3
  MaxCuts = 1
INVARIANTS
  FactsAccepted
  CausalOrder
  JournalRemembers
  NothingAheadOfState
  DecisionsOnRecord
  ShadowKeepsDiscipline
PROPERTIES
  NoBarTwice
  DatedTruly
CHECK_DEADLOCK FALSE
