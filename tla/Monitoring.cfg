\* Two ModelDeployments that share the discovery cache.
SPECIFICATION FairSpec
CONSTANTS
  MDs = {a, b}
  None = None
  AbsentTTL = 1
  PresentTTL = 5
  Resync = 3
  Retry = 1
  MaxTrouble = 2
INVARIANTS
  NoticedWithinAMinute
PROPERTIES
  AbsenceWasVerified
  OthersUntouched
  
