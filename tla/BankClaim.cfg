\* computeStatus against an informer cache that lags behind the apply.
SPECIFICATION Spec
CONSTANTS
  NoRevision = NoRevision
  NoUID = NoUID
  r1 = r1
  r2 = r2
  Revisions = {r1, r2}
  Plan <- GatedPlan
  Total = 2
  Rounds <- PassOrFail
  UIDs = {1, 2, 3, 4, 5}
  Generations = {1, 2, 3, 4, 5}
  MaxEdits = 2
  MaxFaults = 1
PROPERTY LastGoodWasAvailable
CHECK_DEADLOCK FALSE
SYMMETRY Symmetry
