\* The star of docker-compose.yml.
SPECIFICATION ReliableSpec
CONSTANTS
  a = a
  b = b
  n1 = n1
  n2 = n2
  n3 = n3
  Address = {a, b}
  Miner = {a}
  Coinbase = Coinbase
  Unit = 1
  InitialMiningReward = 3
  HalvingInterval = 10
  MaxTransactionsPerBlock = 2
  MaxPendingTransactions = 3
  MaxPendingTransactionsPerSender = 3
  MaxPendingDataTransactionsPerSender = 3
  MinReplacementFeeBump = 1
  MinDataTransactionFee = 0
  DataFeePerChunk = 1
  DataFeeChunkBytes = 1
  MaxPayloadBytes = 1
  MinDifficulty = 1
  AdjustmentInterval = 10
  BlockTime = 1
  Node = {n1, n2, n3}
  Dial <- MCStar
  Clock = {1}
  MaxChain = 2
  MaxChainMessage = 10
  MCAmounts = {1}
  MCNonces = {}
  MCClockOfSigning = {1}
  Transactions <- MCTransactions
INVARIANT QuietPeersAgree
CHECK_DEADLOCK FALSE
