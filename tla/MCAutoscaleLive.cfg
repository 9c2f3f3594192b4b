SPECIFICATION FairSpec
CONSTANTS
  NoSample = NoSample
  Loads = {0, 11, 30}
  Limits <- MCLimits
  Totals = {3}
  Target = 10
  ToleranceMilli = 100
  UpWindow = 1
  DownWindow = 2
  MaxHistory = 3
  MaxPasses = 1
  MaxEdits = 1
PROPERTY Converges
