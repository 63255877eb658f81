\* Quick and slow blocks, and the messages that settle what two miners did.
SPECIFICATION FairSpec
CONSTANTS
  a = a
  b = b
  n1 = n1
  n2 = n2
  n3 = n3
  Address = {a, b}
  Miner = {a}
  Coinbase = Coinbase
  Unit = 1
  InitialMiningReward = 3
  HalvingInterval = 2
  MaxTransactionsPerBlock = 2
  MaxPendingTransactions = 3
  MaxPendingTransactionsPerSender = 3
  MaxPendingDataTransactionsPerSender = 3
  MinReplacementFeeBump = 1
  MinDataTransactionFee = 0
  DataFeePerChunk = 1
  DataFeeChunkBytes = 1
  MaxPayloadBytes = 1
  MinDifficulty = 1
  AdjustmentInterval = 2
  BlockTime = 4
  Node = {n1, n2}
  Dial <- MCPair
  Clock = {1, 20}
  MaxChain = 3
  MaxChainMessage = 10
  MCAmounts = {1}
  MCNonces = {}
  MCClockOfSigning = {1}
  Transactions <- MCTransactions
INVARIANT DifficultyFromChain
PROPERTY Synchronizes
CHECK_DEADLOCK FALSE
