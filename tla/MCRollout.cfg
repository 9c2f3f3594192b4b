\* A gated release over three replicas; edits of the rollout section over two.
SPECIFICATION Spec
CONSTANTS
  NoRevision = NoRevision
  NoUID = NoUID
  r1 = r1
  r2 = r2
  r3 = r3
  Revisions = {r1, r2, r3}
  Plans <- AllPlans
  Totals = {1, 2, 3}
  UIDs = {1, 2, 3, 4, 5}
  Generations = {1, 2, 3, 4}
  ScopeAnswers = {TRUE, FALSE}
  MaxEdits = 3
  MaxInconclusive = 2
INVARIANTS
  TypeOK
  AlwaysAFallback
  RejectionSticks
  NeverUnattended
PROPERTIES
  EveryRungEarned
  FailureBudgetSpent
  ImplementsContract
CONSTRAINT InCase
