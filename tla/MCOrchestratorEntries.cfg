\* The composed runtime deciding about entries: two, one of which a snapshot may link.
SPECIFICATION OrchSpec
CONSTANTS
  i1 = i1
  Intents = {i1, i2}
  Executors = {rt}
  Runtime = rt
  Actions = {}
  Target <- FirstEntry
  Linkable = {i2}
  None = None
  ApprovedVolume = 1
  PolicyOf <- DemoPolicies
PROPERTIES
  KeepsBoundary
  UnknownStopsEntries
