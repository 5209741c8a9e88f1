SPECIFICATION Spec
CONSTANTS
  MaxCandidateRank = 5
  MaxHopCount = 6
  InfiniteHops = 7
  CostMax = 15
  Scenarios <- TwinScenarios
INVARIANT
  ParallelLinksEnumerated
