SPECIFICATION MCSpec
CONSTANTS
  Requests = {r1, r2}
  Generations = {old, new}
  None = None
  NumKeys = 2
  Torn = Torn
  MaxFaults = 4
INVARIANTS
  ServedIsStored
  ServedMatchesContract
  SeedTypeOK
  NoNeedlessCopy
  OkMeansSeeded
PROPERTIES
  RenderingEnds
  FinishesTheJob
