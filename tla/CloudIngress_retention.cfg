SPECIFICATION Spec
CONSTANTS
  k1 = k1
  k2 = k2
  Keys <- OneOfEach
  Telegram <- OneKey
  Recovery <- OtherKey
  PageSize = 1
  MaxSeq = 3
  MaxEpoch = 1
  MaxRestores = 0
  MaxFaults = 2
  Retention = TRUE
INVARIANTS InFlightIsProcessing SettledIsNotPending
PROPERTIES DeliverySpec
