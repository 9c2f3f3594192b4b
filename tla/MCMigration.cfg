\* An upgrade in the middle of an edit, with one fault and two retained records.
SPECIFICATION Spec
CONSTANTS
  m1 = m1
  m2 = m2
  p1 = p1
  p2 = p2
  i1 = i1
  i2 = i2
  Models = {m1, m2}
  Ports = {p1, p2}
  Images = {i1}
  Unset = Unset
  DefaultImage = i1
  OldImages = {i1, i2}
  Timeouts = {3, 6}
  DefaultTimeout = 4
  Period = 2
  Limit = 2
  MaxEdits = 2
  MaxFaults = 1
  None = None
INVARIANTS
  UpgradeIsNotARelease
  
PROPERTIES
  LabelMeansOneWorkload
SYMMETRY Symmetry
CHECK_DEADLOCK FALSE
