\* Two addresses, the keys that anyone may claim, and a peer that took another way.
SPECIFICATION Spec
CONSTANTS
  a = a
  b = b
  x = x
  Address = {a, b}
  Miner = {a}
  Coinbase = Coinbase
  NoAddress = NoAddress
  NoId = NoId
  NaN = NaN
  IllTyped = IllTyped
  Blank = Blank
  Id = {x}
  Unit = 1
  InitialMiningReward = 3
  HalvingInterval = 10
  MaxTransactionsPerBlock = 2
  MaxPendingTransactions = 3
  MaxPendingTransactionsPerSender = 2
  MaxPendingDataTransactionsPerSender = 2
  MinReplacementFeeBump = 1
  MinDataTransactionFee = 0
  DataFeePerChunk = 0
  DataFeeChunkBytes = 1
  MaxPayloadBytes = 8
  MinDifficulty = 1
  AdjustmentInterval = 10
  BlockTime = 1
  Clock = {1}
  MaxChain = 3
  MCNonces = {0, 1}
  MCOperations <- MCShared
  Transactions <- MCTransactions
  Payload <- MCPayload
INVARIANT OwnersAlone
INVARIANT NamespaceKept
INVARIANT PreviewStable
INVARIANT ResultsOfChain
CHECK_DEADLOCK FALSE
