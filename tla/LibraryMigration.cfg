SPECIFICATION FairSpec
CONSTANTS
  Jobs = {j1, j2}
  Tokens = {t1, t2}
  NoToken = NoToken
  First = "source"
  MaxGen = 2
  MaxBudget = 1
INVARIANTS
  TypeOK
  OneRecord
  NoWriterOncePlanned
  SourceStagingKept
  OneRunner
PROPERTIES
  StopIsForThisRun
  CancelEnds
  HandoverEnds
CHECK_DEADLOCK FALSE
