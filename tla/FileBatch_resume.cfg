SPECIFICATION Spec
CONSTANTS
  Files = {1, 2}
  Patches = {1}
  ItemOf <- OneGroup
  PatchItem <- GroupPatch
  PatchMedia <- GroupMedia
  PatchNfo <- MovedPatched
  Creates = {}
  Skipped = {}
  MaxRuns = 1
  MaxStages = 3
  MaxTouches = 0
  MaxCrashes = 1
  MaxFaults = 0
INVARIANTS FinishedWorkIsComplete
CHECK_DEADLOCK FALSE
