SPECIFICATION FairSpec
CONSTANTS
  Files = {1, 2}
  Patches = {1, 2}
  ItemOf <- OneGroup
  PatchItem <- InPlacePatches
  PatchMedia <- StayInPlace
  PatchNfo <- StayInPlace
  Creates <- NewNfo
  Skipped = {}
  MaxRuns = 1
  MaxStages = 4
  MaxTouches = 0
  MaxCrashes = 3
  MaxFaults = 0
PROPERTIES ConfirmedCompletes
CHECK_DEADLOCK FALSE
