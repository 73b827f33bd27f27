SPECIFICATION Spec
CONSTANTS
  Writers = {p1, p2}
  v1 = v1
  v2 = v2
  Versions <- MCVersions
  Families <- MCFamilies
  MaxRecords <- MCMaxRecords
  Facts <- MCFacts
  Early <- MCEarly
  Ranges <- MCRanges
  Weeks = 2
  WeekLength = 2
  MinSamples = 1
  MinDays = 2
  MinExperiences = 2
  MinWeeks = 2
  Builders = {p1, p2}
  MaxRevisions = 2
SYMMETRY MCSymmetry
INVARIANTS
  ForksOnlyByOverlap
  ProposalsStandOnEvidence
  SourcesInSight
PROPERTIES
  AuthorizedOnEvidence
CHECK_DEADLOCK FALSE
