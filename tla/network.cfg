\* Two transactions of one sender, the later paying more; connection and processes
\* fail, and the longest chains do not fit in a message.
SPECIFICATION Spec
CONSTANTS
  a = a
  b = b
  n1 = n1
  n2 = n2
  n3 = n3
  Address = {a, b}
  Miner = {a}
  Coinbase = Coinbase
  Unit = 1
  InitialMiningReward = 3
  HalvingInterval = 10
  MaxTransactionsPerBlock = 2
  MaxPendingTransactions = 3
  MaxPendingTransactionsPerSender = 3
  MaxPendingDataTransactionsPerSender = 3
  MinReplacementFeeBump = 1
  MinDataTransactionFee = 0
  DataFeePerChunk = 1
  DataFeeChunkBytes = 1
  MaxPayloadBytes = 1
  MinDifficulty = 1
  AdjustmentInterval = 10
  BlockTime = 1
  Node = {n1, n2}
  Dial <- MCPair
  Clock = {1}
  MaxChain = 2
  MaxChainMessage = 3
  MCAmounts = {1}
  MCNonces = {0, 1}
  MCClockOfSigning = {1}
  Transactions <- MCTransactions
INVARIANT TypeOK
INVARIANT QuietPeersAgree
INVARIANT ChainsValid
INVARIANT MempoolsFit
PROPERTY WorkGrows
PROPERTY DroppedOnlyIfInvalid
CHECK_DEADLOCK FALSE
