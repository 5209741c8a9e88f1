SPECIFICATION Spec
CONSTANTS
  Thread = {t1, t2}
  Plan <- MCPlan
  Bounds <- MCBounds
INVARIANTS
  TypeOK
  OwnAnswer
  CurrentWasTrue
PROPERTY
  CallReturns
