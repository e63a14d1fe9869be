SPECIFICATION FairSpec
CONSTANTS
  Jobs = {j1, j2}
  Tokens = {t1, t2}
  NoToken = NoToken
  First = "source"
  MaxGen = 2
  MaxBudget = 1
PROPERTIES
  CancelReachesRun
CHECK_DEADLOCK FALSE
