SPECIFICATION Spec
CONSTANTS
  MaxCandidateRank = 5
  MaxHopCount = 6
  InfiniteHops = 7
  CostMax = 15
  Scenarios <- AllScenarios
INVARIANTS
  TypeOK
  SnapshotCoherent
  KBestExact
  CandidatesHonourRequest
  CurrentIsProven
  CauseNamed
  NoPartialAnswer
PROPERTIES
  SettledIsFinal
  WorkShrinks
