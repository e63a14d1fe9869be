SPECIFICATION FairSpec
CONSTANTS
  a = a
  b = b
  big = big
  r1 = r1
  r2 = r2
  Requests = {r1, r2}
  Watchers = {}
  MaxPending = 1
  MaxBuild = 1
  Chunks = {a, b, big}
  Parts <- BuildParts
  Big = big
  Oversized = {1}
  MaxVersion = 4
  MaxEpoch = 2
  MaxBudget = 1
INVARIANTS PublishedIsFresh
PROPERTIES RefreshAnswered
CHECK_DEADLOCK FALSE
