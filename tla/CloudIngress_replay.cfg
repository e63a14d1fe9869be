SPECIFICATION Spec
CONSTANTS
  k1 = k1
  k2 = k2
  Keys <- OneOfEach
  Telegram <- OneKey
  Recovery <- OtherKey
  PageSize = 2
  MaxSeq = 2
  MaxEpoch = 2
  MaxRestores = 1
  MaxFaults = 0
  Retention = FALSE
INVARIANTS RestoredEnvelopeRunsOnce
