\* A wallet signs two transactions for one nonce, and one more.
SPECIFICATION ReliableSpec
CONSTANTS
  a = a
  b = b
  n1 = n1
  n2 = n2
  n3 = n3
  Address = {a, b}
  Miner = {a, b}
  Coinbase = Coinbase
  Unit = 1
  InitialMiningReward = 3
  HalvingInterval = 10
  MaxTransactionsPerBlock = 2
  MaxPendingTransactions = 3
  MaxPendingTransactionsPerSender = 3
  MaxPendingDataTransactionsPerSender = 3
  MinReplacementFeeBump = 1
  MinDataTransactionFee = 0
  DataFeePerChunk = 1
  DataFeeChunkBytes = 1
  MaxPayloadBytes = 1
  MinDifficulty = 1
  AdjustmentInterval = 10
  BlockTime = 1
  Node = {n1, n2}
  Dial <- MCPair
  Clock = {1}
  MaxChain = 2
  MaxChainMessage = 10
  MCAmounts = {1, 3}
  MCNonces = {0, 1}
  MCClockOfSigning = {1}
  Transactions <- MCTransactions
INVARIANT NoOverdraft
CHECK_DEADLOCK FALSE
