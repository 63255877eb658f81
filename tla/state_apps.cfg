\* The applications of one owner, and what a kv:set puts in their place.
SPECIFICATION Spec
CONSTANTS
  a = a
  b = b
  x = x
  Address = {a}
  Miner = {a}
  Coinbase = Coinbase
  NoAddress = NoAddress
  NoId = NoId
  NaN = NaN
  IllTyped = IllTyped
  Blank = Blank
  Id = {x}
  Unit = 1
  InitialMiningReward = 3
  HalvingInterval = 10
  MaxTransactionsPerBlock = 2
  MaxPendingTransactions = 2
  MaxPendingTransactionsPerSender = 2
  MaxPendingDataTransactionsPerSender = 2
  MinReplacementFeeBump = 1
  MinDataTransactionFee = 0
  DataFeePerChunk = 0
  DataFeeChunkBytes = 1
  MaxPayloadBytes = 30
  MinDifficulty = 1
  AdjustmentInterval = 10
  BlockTime = 1
  Clock = {1}
  MaxChain = 1
  MCNonces = {0, 1, 2}
  MCOperations <- MCApplications
  Transactions <- MCTransactions
  Payload <- MCPayload
INVARIANT TypeOK
INVARIANT HistoryExplainsState
INVARIANT CountersNonNegative
INVARIANT CountersAddUp
CHECK_DEADLOCK FALSE
