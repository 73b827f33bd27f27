\* The numbers of the code: an M5 bar, six facts every five seconds, a loop that sleeps two. A turn takes one second besides; one process that is never restarted, for two bars.
SPECIFICATION ShadowSpec
CONSTANTS
  Bar = 300
  Facts = 6
  Interval = 5
  PollSeconds = 2
  Latencies = {1}
  StaleAfter = 300
  Epoch = 1700000100
  BaseSequence = 1000000
  Pauses = {300}
  MaxStarts = 1
  MaxTime = 600
PROPERTY NewBarAccepted
CHECK_DEADLOCK FALSE
