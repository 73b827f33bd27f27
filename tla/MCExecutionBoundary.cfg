\* One executor, as shipped; two processes that ask for explanations.
SPECIFICATION MCSpec
CONSTANTS
  i1 = i1
  i2 = i2
  Intents = {i1, i2}
  Executors = {e1}
  ApprovedVolume = 2
  PolicyOf <- MixedPolicies
  Callers = {c1, c2}
  AttemptKeys = {k1, k2, k3}
  x1 = x1
  x2 = x2
  Explanations = {x1, x2}
  Unreadable = Unreadable
  Allowed = {1}
  Sightings <- MCSightings
  Replies <- MCReplies
SYMMETRY MCSymmetry
INVARIANTS
  TruthfulLedger
  ReusesTheFirst
PROPERTIES
  NonDemoSessionNeverTrades
  ImplementsAtMostOnce
  OneAnswerPerKey
