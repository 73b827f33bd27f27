\* The composed runtime with an entry and two position actions on what it opened.
SPECIFICATION OrchSpec
CONSTANTS
  i1 = i1
  Intents = {i1}
  Executors = {rt}
  Runtime = rt
  Actions = {a1, a2}
  Target <- FirstEntry
  Linkable = {i1}
  None = None
  ApprovedVolume = 2
  PolicyOf <- DemoPolicies
INVARIANTS
  ActionsSentOnce
PROPERTIES
  DispatchOnlyWhenReady
  MutatesOnlyExplainedBooks
