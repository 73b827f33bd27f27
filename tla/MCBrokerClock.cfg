SPECIFICATION ClockSpec
CONSTANTS
  Hour = 4
  M5 = 2
  Plausible <- TwoOffsets
  Tolerance = 1
  Ahead = 0
  QuoteStale = 2
  Closing = 9
  Environments = {e1, e2}
  MaxUtc = 16
  MaxSessions = 2
  MaxChanges = 2
PROPERTY StaleQuotesWait
CHECK_DEADLOCK FALSE
