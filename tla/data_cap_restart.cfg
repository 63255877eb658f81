\* A replacement past the limit on data transactions, and the restart after it.
SPECIFICATION Spec
CONSTANTS
  a = a
  b = b
  Address = {a, b}
  Miner = {a}
  Coinbase = Coinbase
  Unit = 2
  InitialMiningReward = 4
  HalvingInterval = 2
  MaxTransactionsPerBlock = 2
  MaxPendingTransactions = 3
  MaxPendingTransactionsPerSender = 2
  MaxPendingDataTransactionsPerSender = 1
  MinReplacementFeeBump = 1
  MinDataTransactionFee = 1
  DataFeePerChunk = 1
  DataFeeChunkBytes = 2
  MaxPayloadBytes = 3
  MinDifficulty = 1
  AdjustmentInterval = 2
  BlockTime = 1
  Clock = {1}
  MaxChain = 3
  TornWrites = FALSE
  Torn = Torn
  MCAmounts = {2}
  MCFees = {0, 1, 2}
  MCMaxNonce = 1
  MCBytes = {1}
  Transactions <- MCTransactions
PROPERTY StartKeepsLedger
CHECK_DEADLOCK FALSE
