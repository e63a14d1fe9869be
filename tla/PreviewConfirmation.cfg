SPECIFICATION Spec
CONSTANTS
  c1 = c1
  c2 = c2
  k1 = k1
  Confirms <- TwoConfirms
  Cancels <- OneCancel
  Retention = 2
  MaxTime = 4
  MaxCrashes = 1
  MaxFaults = 1
SYMMETRY Symmetry
INVARIANTS TypeOK CancelledIsUnexecuted ConfirmedIsKept ConfirmedInTimeRuns
PROPERTIES ClosedIsFinal
CHECK_DEADLOCK FALSE
