\* Two requests of every form, one fault.
SPECIFICATION Spec
CONSTANTS
  Varied = r1
  Reqs = {r1, r2}
  Workers = {w1}
  None = None
  Modes <- AllModes
  Tokens = 1
  TTFT = 3
  ITL = 1
  RateNum = 1
  RateDen = 2
  PipeCap = 1
  Concurrency = 1
  MaxFaults = 1
INVARIANTS
  CountedOnce
  GaugesAreTrue
  
  ClientAndShimAgree
  
CHECK_DEADLOCK FALSE
