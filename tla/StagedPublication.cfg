SPECIFICATION FairSpec
CONSTANTS
  Target = mkv
  Targets = {mkv, mp4}
  Sidecars = {nfo, json}
  MaxBudget = 3
INVARIANTS TypeOK NeverMixed SettledIsWhole
PROPERTIES OldOutlivesCommit PublicationSettles
CHECK_DEADLOCK FALSE
