SPECIFICATION Spec
CONSTANTS
  Files = {1, 2, 3}
  Patches = {1, 2}
  ItemOf <- TwoItems
  PatchItem <- TwoPatches
  PatchMedia <- TwoMedia
  PatchNfo <- MovedNfo
  Creates <- NewNfo
  Skipped = {}
  MaxRuns = 2
  MaxStages = 3
  MaxTouches = 2
  MaxCrashes = 2
  MaxFaults = 1
INVARIANTS TypeOK ReplacementIsJournaled PatchedGroupIsMoved RecordedIsDone
PROPERTIES OnlySupersededIsDestroyed
CHECK_DEADLOCK FALSE
