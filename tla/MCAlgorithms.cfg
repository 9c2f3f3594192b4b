\* Every part with bounds of its own; the parts do not multiply.
SPECIFICATION SpecAll
CONSTANTS
  None = None
  NaN = NaN
  Inf = Inf
  Unset = Unset
  MaxTotal = 24
  ListedWeights = {0, 1, 5, 20, 100, 101}
  ScalarWeights = {1, 20, 30, 50, 100}
  MaxListed = 3
  MaxLine = 4
  MaxLines = 3
  MaxRead = 5
  MinRate = 2
  MinUsage = 2
  Floor = 1000
  MaxRate = 2
  Delays = {0, 2}
  Intervals = {1, 4}
  Windows = {2}
  MaxEdits = 2
  Revs = {a, b}
  Broken = {b}
  MaxReplicas = 2
  MaxChanges = 2
INVARIANTS
  SplitContract
  ExposureAtLeastRequested
  
  ReadsDoNotMatter
  MemoryBounded
  ShownIsOfThisTrial
PROPERTIES
  NeitherSideShrinks
  
  SilenceIsNoEvidence
  BankedServed
CHECK_DEADLOCK FALSE
