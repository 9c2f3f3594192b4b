\* One request of every form, two faults.
SPECIFICATION FairSpec
CONSTANTS
  Varied = r1
  Reqs = {r1}
  Workers = {w1}
  None = None
  Modes <- AllModes
  Tokens = 1
  TTFT = 3
  ITL = 1
  RateNum = 1
  RateDen = 2
  PipeCap = 1
  Concurrency = 1
  MaxFaults = 2
PROPERTIES
  
  PodBecomesReady
CHECK_DEADLOCK FALSE
