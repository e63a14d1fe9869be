SPECIFICATION FairSpec
CONSTANTS
  k1 = k1
  k2 = k2
  Keys <- OneOfEach
  Telegram <- OneKey
  Recovery <- NoKeys
  PageSize = 2
  MaxSeq = 2
  MaxEpoch = 2
  MaxRestores = 1
  MaxFaults = 1
  Retention = FALSE
INVARIANTS TypeOK AckedIsReceived TelegramNotReplayed
PROPERTIES ReceiptsAreFinal AcceptedSettles PendingDrains
