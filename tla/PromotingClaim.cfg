SPECIFICATION FairSpec
CONSTANTS
  NoRevision = NoRevision
  NoUID = NoUID
  r1 = r1
  r2 = r2
  r3 = r3
  Revisions = {r1, r2}
  Plans <- BaseOnly
  Totals = {3}
  UIDs = {1, 2, 3, 4, 5}
  Generations = {1, 2, 3, 4}
  ScopeAnswers = {TRUE}
  MaxEdits = 1
  MaxInconclusive = 2
PROPERTY PromotingAlwaysProgresses
