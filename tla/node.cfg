\* Every limit is reached; money comes from mining, transfers and fees; the file may be torn.
SPECIFICATION FairSpec
CONSTANTS
  a = a
  b = b
  Address = {a, b}
  Miner = {a}
  Coinbase = Coinbase
  Unit = 2
  InitialMiningReward = 4
  HalvingInterval = 2
  MaxTransactionsPerBlock = 2
  MaxPendingTransactions = 3
  MaxPendingTransactionsPerSender = 2
  MaxPendingDataTransactionsPerSender = 2
  MinReplacementFeeBump = 1
  MinDataTransactionFee = 0
  DataFeePerChunk = 1
  DataFeeChunkBytes = 2
  MaxPayloadBytes = 3
  MinDifficulty = 1
  AdjustmentInterval = 2
  BlockTime = 1
  Clock = {1}
  MaxChain = 2
  TornWrites = TRUE
  Torn = Torn
  MCAmounts = {2}
  MCFees = {0, 1}
  MCMaxNonce = 2
  MCBytes = {3}
  Transactions <- MCTransactions
INVARIANT TypeOK
INVARIANT NoncesContiguous
INVARIANT MempoolBounded
INVARIANT Solvent
INVARIANT ChainValid
INVARIANT SupplyConserved
PROPERTY ImplementsAccounts
PROPERTY NeverDropped
PROPERTY StartKeepsLedger
PROPERTY WaitsBehindBetter
PROPERTY SettlesUnlessOutbid
CHECK_DEADLOCK FALSE
