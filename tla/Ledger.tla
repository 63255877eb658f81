------------------------------- MODULE Ledger -------------------------------
(***************************************************************************)
(* The data and the pure functions of one Blockchain object                *)
(* (src/core/blockchain.js): transactions, blocks, balances and nonces,    *)
(* mempool admission, block selection, mining, block and chain validation, *)
(* chain replacement and the reload of a saved file.  The state machines   *)
(* (Blockchain.tla, Network.tla) apply these functions to their state.     *)
(*                                                                         *)
(* Abstractions.                                                           *)
(*  - A txId is a SHA-256 of the transaction's fields: here a transaction  *)
(*    is identified by the record of those fields.                         *)
(*  - A block hash commits to the previous hash, so it identifies the      *)
(*    whole chain that ends in the block: a block announced to a peer is   *)
(*    that chain, and "prevHash equals my last hash" is "the chain without *)
(*    its last block is mine".  Height is the position in the chain.       *)
(*  - Signatures: the transactions are those wallets have signed; what is  *)
(*    left of isValidTransaction is the check of the fields.               *)
(*  - Amounts are integers in the unit DUG/Unit, so that a reward that has *)
(*    been halved is an integer too.                                       *)
(***************************************************************************)
EXTENDS Reductions, FiniteSets, Functions

CONSTANTS
    Address,                \* the normalised addresses
    Miner,                  \* the strings POST /mine may name as miner
    Coinbase,               \* the null `from` of a reward transaction
    Unit,                   \* how many integer amounts make one DUG
    InitialMiningReward,
    HalvingInterval,
    MaxTransactionsPerBlock,
    MaxPendingTransactions,
    MaxPendingTransactionsPerSender,
    MaxPendingDataTransactionsPerSender,
    MinReplacementFeeBump,
    MinDataTransactionFee,
    DataFeePerChunk,
    DataFeeChunkBytes,
    MaxPayloadBytes,
    MinDifficulty,          \* MIN_DIFFICULTY = INITIAL_DIFFICULTY
    AdjustmentInterval,
    BlockTime

ASSUME LedgerAssumption ==
    /\ Coinbase \notin Address
    /\ Unit \in Nat \ {0}
    /\ InitialMiningReward \in Nat
    /\ HalvingInterval \in Nat \ {0}
    /\ MaxTransactionsPerBlock \in Nat \ {0}
    /\ MaxPendingTransactions \in Nat \ {0}
    /\ MaxPendingTransactionsPerSender \in Nat \ {0}
    /\ MaxPendingDataTransactionsPerSender \in Nat \ {0}
    /\ MinReplacementFeeBump \in Nat
    /\ MinDataTransactionFee \in Nat
    /\ DataFeePerChunk \in Nat
    /\ DataFeeChunkBytes \in Nat \ {0}
    /\ MaxPayloadBytes \in Nat
    /\ MinDifficulty \in Nat
    /\ AdjustmentInterval \in Nat \ {0, 1}
    /\ BlockTime \in Nat

-----------------------------------------------------------------------------
(* Records.  `to` is not typed by Address: POST /mine takes any string.    *)
(* `bytes` is the size of the payload, 0 when there is none.               *)

Transaction ==
    [from : Address \cup {Coinbase}, to : Address \cup Miner, amount : Nat,
     fee : Nat, nonce : Nat, timestamp : Nat,
     type : {"transfer", "data", "reward"}, bytes : Nat]

Block == [transactions : Seq(Transaction), difficulty : Nat, timestamp : Nat]

Genesis ==
    [transactions |-> <<>>, difficulty |-> MinDifficulty, timestamp |-> 0]

(* The mutable fields of a Blockchain object; FreshLedger is its           *)
(* constructor.                                                            *)
LedgerState ==
    [chain : Seq(Block), pendingTransactions : Seq(Transaction),
     difficulty : Nat]

FreshLedger ==
    [chain |-> <<Genesis>>, pendingTransactions |-> <<>>,
     difficulty |-> MinDifficulty]

-----------------------------------------------------------------------------
(* Sums over transactions and over the chain. *)

Cost(t) == t.amount + t.fee

Fees(txs) == SumSeq([j \in DOMAIN txs |-> txs[j].fee])

IndicesFrom(txs, a) == {j \in DOMAIN txs : txs[j].from = a}

Spent(txs, a) ==
    SumSeq([j \in DOMAIN txs |-> IF txs[j].from = a THEN Cost(txs[j]) ELSE 0])

Received(txs, a) ==
    SumSeq([j \in DOMAIN txs |-> IF txs[j].to = a THEN txs[j].amount ELSE 0])

(* getBalance(address, false) and getConfirmedNonce: one pass over all the *)
(* transactions of the chain.                                              *)
Balance(chain, a) ==
    SumSeq([i \in DOMAIN chain |-> Received(chain[i].transactions, a)
                                     - Spent(chain[i].transactions, a)])

ConfirmedNonce(chain, a) ==
    SumSeq([i \in DOMAIN chain |->
                Cardinality(IndicesFrom(chain[i].transactions, a))])

NextNonce(led, a) ==
    ConfirmedNonce(led.chain, a)
        + Cardinality(IndicesFrom(led.pendingTransactions, a))

LastBlock(chain) == chain[Len(chain)]

HasTransactionInChain(chain, t) ==
    \E i \in DOMAIN chain : \E j \in DOMAIN chain[i].transactions :
        chain[i].transactions[j] = t

-----------------------------------------------------------------------------
(* Mempool admission. *)

Ceil(n, d) == (n + d - 1) \div d

MinimumFee(t) ==
    IF t.type # "data" THEN 0
    ELSE LET chunks == IF t.bytes = 0 THEN 1 ELSE Ceil(t.bytes, DataFeeChunkBytes)
         IN  MinDataTransactionFee + (chunks - 1) * DataFeePerChunk

(* Transaction.isValidTransaction, short of the hash and the signature.    *)
IsValidTransaction(t) ==
    /\ t.timestamp > 0
    /\ t.to \in Address
    /\ \/ t.type = "reward" /\ t.from = Coinbase
       \/ t.type = "transfer" /\ t.from \in Address /\ t.amount > 0
       \/ t.type = "data" /\ t.from \in Address /\ t.bytes \in 1 .. MaxPayloadBytes

(* findPendingTransactionBySenderAndNonce: the position of the first       *)
(* pending transaction of the same sender and nonce, as a set of one or    *)
(* none.                                                                   *)
Replaced(pending, t) ==
    {j \in IndicesFrom(pending, t.from) :
        /\ pending[j].nonce = t.nonce
        /\ \A k \in IndicesFrom(pending, t.from) :
              pending[k].nonce = t.nonce => j <= k}

DataIndicesFrom(pending, a) ==
    {j \in IndicesFrom(pending, a) : pending[j].type = "data"}

(* Mutants: any nonce not below the next one; each limit off by one. *)
FitsWithGap(led, t) ==
    /\ t.nonce >= NextNonce(led, t.from)
    /\ Len(led.pendingTransactions) < MaxPendingTransactions

FitsOverLimit(led, t) ==
    LET pending == led.pendingTransactions
    IN  /\ t.nonce = NextNonce(led, t.from)
        /\ Cardinality(IndicesFrom(pending, t.from)) <= MaxPendingTransactionsPerSender
        /\ Len(pending) <= MaxPendingTransactions

(* The nonce and the caps, which only a transaction that replaces none is  *)
(* held to.                                                                *)
FitsAtTheEnd(led, t) ==
    LET pending == led.pendingTransactions
    IN  /\ t.nonce = NextNonce(led, t.from)
        /\ Cardinality(IndicesFrom(pending, t.from)) < MaxPendingTransactionsPerSender
        /\ t.type = "data" =>
             Cardinality(DataIndicesFrom(pending, t.from))
                < MaxPendingDataTransactionsPerSender
        /\ Len(pending) < MaxPendingTransactions

OutbidsReplaced(pending, t) ==
    \A j \in Replaced(pending, t) : t.fee >= pending[j].fee + MinReplacementFeeBump

(* What the sender has promised already, without the replaced one. *)
ReservedBy(pending, t) ==
    SumSeq([j \in DOMAIN pending |->
                IF pending[j].from = t.from /\ j \notin Replaced(pending, t)
                THEN Cost(pending[j]) ELSE 0])

(* Mutant: funds are checked against the chain alone. *)
AdmissibleIgnoringPending(led, t) ==
    LET pending == led.pendingTransactions
    IN  /\ IsValidTransaction(t)
        /\ t.from \in Address
        /\ t.fee >= MinimumFee(t)
        /\ IF Replaced(pending, t) # {} THEN OutbidsReplaced(pending, t)
           ELSE FitsAtTheEnd(led, t)
        /\ Balance(led.chain, t.from) >= Cost(t)

(* addTransaction returns instead of throwing.  Reward transactions are    *)
(* made inside blocks; none is submitted or relayed by itself.             *)
Admissible(led, t) ==
    LET pending == led.pendingTransactions
    IN  /\ IsValidTransaction(t)
        /\ t.from \in Address
        /\ ~HasTransactionInChain(led.chain, t)
        /\ \A j \in DOMAIN pending : pending[j] # t
        /\ t.fee >= MinimumFee(t)
        /\ IF Replaced(pending, t) # {} THEN OutbidsReplaced(pending, t)
           ELSE FitsAtTheEnd(led, t)
        /\ Balance(led.chain, t.from) - ReservedBy(pending, t) >= Cost(t)

AddTransaction(led, t) ==
    IF ~Admissible(led, t) THEN led
    ELSE IF Replaced(led.pendingTransactions, t) = {}
    THEN [led EXCEPT !.pendingTransactions = Append(@, t)]
    ELSE [led EXCEPT !.pendingTransactions =
             [j \in DOMAIN @ |-> IF j \in Replaced(@, t) THEN t ELSE @[j]]]

-----------------------------------------------------------------------------
(* Block selection. *)

(* The nonce expected next of a sender once `selected` has been taken: one *)
(* past its last selected transaction, or its confirmed nonce.             *)
ExpectedNonce(chain, selected, a) ==
    LET mine == IndicesFrom(selected, a)
    IN  IF mine = {} THEN ConfirmedNonce(chain, a)
        ELSE selected[CHOOSE j \in mine : \A k \in mine : k <= j].nonce + 1

(* Mutant: any pending transaction may come next. *)
EligibleInAnyOrder(led, selected) ==
    {j \in DOMAIN led.pendingTransactions :
        \A k \in DOMAIN selected : selected[k] # led.pendingTransactions[j]}

Eligible(led, selected) ==
    {j \in DOMAIN led.pendingTransactions :
        LET t == led.pendingTransactions[j]
        IN  /\ \A k \in DOMAIN selected : selected[k] # t
            /\ t.nonce = ExpectedNonce(led.chain, selected, t.from)}

(* The order of the (stable) sort: fee, then age, then arrival. *)
Precedes(pending, j, k) ==
    \/ pending[j].fee > pending[k].fee
    \/ /\ pending[j].fee = pending[k].fee
       /\ \/ pending[j].timestamp < pending[k].timestamp
          \/ pending[j].timestamp = pending[k].timestamp /\ j <= k

(* Mutant: nobody sorts. *)
BestByArrival(led, eligible) ==
    CHOOSE j \in eligible : \A k \in eligible : j <= k

Best(led, eligible) ==
    CHOOSE j \in eligible : \A k \in eligible : Precedes(led.pendingTransactions, j, k)

(* The loop of getTransactionsForNextBlock, stopped after n rounds. *)
ExecutionOrder(led, n) ==
    LET selected[k \in 0 .. n] ==
            IF k = 0 THEN <<>>
            ELSE LET before == selected[k - 1]
                     eligible == Eligible(led, before)
                 IN  IF eligible = {} THEN before
                     ELSE Append(before, led.pendingTransactions[Best(led, eligible)])
    IN  selected[n]

(* Mutant: as they arrived. *)
TransactionsInArrivalOrder(led) ==
    [j \in {k \in DOMAIN led.pendingTransactions : k <= MaxTransactionsPerBlock} |->
        led.pendingTransactions[j]]

TransactionsForNextBlock(led) == ExecutionOrder(led, MaxTransactionsPerBlock)

-----------------------------------------------------------------------------
(* Mining. *)

Halved(halvings) ==
    LET reward[i \in 0 .. halvings] ==
            IF i = 0 THEN InitialMiningReward ELSE reward[i - 1] \div 2
    IN  reward[halvings]

(* getMiningRewardAtHeight: 0 below one DUG, and at genesis. *)
MiningReward(height) ==
    LET reward == Halved((height - 1) \div HalvingInterval)
    IN  IF height <= 0 \/ reward < Unit THEN 0 ELSE reward

(* Mutant: the reward of the height after. *)
RewardOfNextHeight(chain, txs, miner, now) ==
    [from |-> Coinbase, to |-> miner,
     amount |-> MiningReward(Len(chain) + 1) + Fees(txs), fee |-> 0,
     nonce |-> Len(chain), timestamp |-> now, type |-> "reward", bytes |-> 0]

RewardTransaction(chain, txs, miner, now) ==
    [from |-> Coinbase, to |-> miner,
     amount |-> MiningReward(Len(chain)) + Fees(txs), fee |-> 0,
     nonce |-> Len(chain), timestamp |-> now, type |-> "reward", bytes |-> 0]

AdjustDifficulty(chain, difficulty) ==
    LET actual   == LastBlock(chain).timestamp
                      - chain[Len(chain) - AdjustmentInterval + 1].timestamp
        expected == BlockTime * AdjustmentInterval
        adjusted == IF 2 * actual < expected THEN difficulty + 1
                    ELSE IF actual > 2 * expected THEN difficulty - 1
                    ELSE difficulty
    IN  IF adjusted < MinDifficulty THEN MinDifficulty ELSE adjusted

AtAdjustment(chain) == Len(chain) % AdjustmentInterval = 0

(* Mutants: the pending transactions stay; all of a confirmed sender go. *)
RemoveNothing(pending, txs) == pending

RemoveSenders(pending, txs) ==
    Subsequence(pending, {t \in Range(pending) : IndicesFrom(txs, t.from) = {}})

RemovePending(pending, txs) ==
    Subsequence(pending, Range(pending) \ Range(txs))

(* Mutant: the miner is paid the fees of the whole mempool. *)
NextBlockWithPendingFees(led, miner, now) ==
    LET txs == TransactionsForNextBlock(led)
    IN  [transactions |->
             Append(txs, RewardTransaction(led.chain, led.pendingTransactions, miner, now)),
         difficulty |-> led.difficulty, timestamp |-> now]

NextBlock(led, miner, now) ==
    LET txs == TransactionsForNextBlock(led)
    IN  [transactions |-> Append(txs, RewardTransaction(led.chain, txs, miner, now)),
         difficulty |-> led.difficulty, timestamp |-> now]

MinePendingTransactions(led, miner, now) ==
    LET block == NextBlock(led, miner, now)
        chain == Append(led.chain, block)
    IN  [chain |-> chain,
         pendingTransactions |->
             RemovePending(led.pendingTransactions, block.transactions),
         difficulty |-> IF AtAdjustment(chain)
                        THEN AdjustDifficulty(chain, led.difficulty)
                        ELSE led.difficulty]

-----------------------------------------------------------------------------
(* Validation. *)

(* isValidBlock of the block at position i of a chain, its predecessor and *)
(* its height being given by the position.                                 *)
IsValidBlock(chain, i) ==
    LET block   == chain[i]
        txs     == block.transactions
        rewards == IndicesFrom(txs, Coinbase)
        normal  == Subsequence(txs, {t \in Range(txs) : t.from # Coinbase})
    IN  /\ block.difficulty >= MinDifficulty
        /\ block.difficulty - chain[i - 1].difficulty \in {-1, 0, 1}
        /\ Len(normal) <= MaxTransactionsPerBlock
        /\ Cardinality(rewards) = 1
        /\ \A j \in rewards : txs[j].amount = MiningReward(i - 1) + Fees(normal)
        /\ \A j \in DOMAIN txs : IsValidTransaction(txs[j])

(* What isValidChain adds of that block: none of its transactions is in    *)
(* the chain already, and each sender's nonces go on where they stopped.   *)
ContinuesChain(chain, i) ==
    LET txs    == chain[i].transactions
        before == SubSeq(chain, 1, i - 1)
    IN  \A j \in DOMAIN txs :
          /\ ~HasTransactionInChain(before, txs[j])
          /\ \A k \in 1 .. j - 1 : txs[k] # txs[j]
          /\ txs[j].from # Coinbase =>
               txs[j].nonce = ConfirmedNonce(before, txs[j].from)
                   + Cardinality({k \in 1 .. j - 1 : txs[k].from = txs[j].from})

IsValidChain(chain) ==
    /\ chain # <<>>
    /\ chain[1] = Genesis
    /\ \A i \in 2 .. Len(chain) : IsValidBlock(chain, i) /\ ContinuesChain(chain, i)

PowerOfTwo(exponent) ==
    LET power[i \in 0 .. exponent] == IF i = 0 THEN 1 ELSE 2 * power[i - 1]
    IN  power[exponent]

ChainWork(chain) == SumSeq([i \in DOMAIN chain |-> PowerOfTwo(chain[i].difficulty)])

-----------------------------------------------------------------------------
(* What a block, a chain or a saved file from elsewhere does to a ledger. *)

(* addBlock of the last block of `announced`. *)
AcceptsBlock(led, announced) ==
    /\ Len(announced) > 1
    /\ SubSeq(announced, 1, Len(announced) - 1) = led.chain
    /\ IsValidBlock(announced, Len(announced))

(* Mutant: the difficulty is not adjusted after a block from a peer. *)
AddBlockWithoutAdjusting(led, announced) ==
    LET block == LastBlock(announced)
    IN  [chain |-> announced,
         pendingTransactions |->
             RemovePending(led.pendingTransactions, block.transactions),
         difficulty |-> block.difficulty]

AddBlock(led, announced) ==
    LET block == LastBlock(announced)
    IN  [chain |-> announced,
         pendingTransactions |->
             RemovePending(led.pendingTransactions, block.transactions),
         difficulty |-> IF AtAdjustment(announced)
                        THEN AdjustDifficulty(announced, led.difficulty)
                        ELSE block.difficulty]

(* addTransaction of each of txs in turn; run[i] is the ledger after the   *)
(* first i of them.                                                        *)
Readmission(base, txs) ==
    LET run[i \in 0 .. Len(txs)] ==
            IF i = 0 THEN base ELSE AddTransaction(run[i - 1], txs[i])
    IN  run

(* Mutants: a chain of the same work; the longer chain. *)
AcceptsEqualChain(led, chain) ==
    ChainWork(chain) >= ChainWork(led.chain) /\ IsValidChain(chain)

AcceptsLongerChain(led, chain) ==
    Len(chain) > Len(led.chain) /\ IsValidChain(chain)

AcceptsChain(led, chain) ==
    /\ ChainWork(chain) > ChainWork(led.chain)
    /\ IsValidChain(chain)

(* Mutants: the mempool is kept as it is; it is dropped. *)
ReplaceChainKeepingPending(led, chain) ==
    [chain |-> chain, pendingTransactions |-> led.pendingTransactions,
     difficulty |-> IF AtAdjustment(chain)
                    THEN AdjustDifficulty(chain, LastBlock(chain).difficulty)
                    ELSE LastBlock(chain).difficulty]

ReplaceChainDroppingPending(led, chain) ==
    [ReplaceChainKeepingPending(led, chain) EXCEPT !.pendingTransactions = <<>>]

(* replaceChain: a pending transaction the new chain does not confirm goes *)
(* through admission again, and is dropped if refused.                     *)
ReplaceChain(led, chain) ==
    LET old  == Subsequence(led.pendingTransactions,
                            {t \in Range(led.pendingTransactions) :
                                ~HasTransactionInChain(chain, t)})
        base == [chain |-> chain, pendingTransactions |-> <<>>,
                 difficulty |-> IF AtAdjustment(chain)
                                THEN AdjustDifficulty(chain, LastBlock(chain).difficulty)
                                ELSE LastBlock(chain).difficulty]
    IN  Readmission(base, old)[Len(old)]

(* Mutant: the difficulty of the last block instead of the saved one. *)
LoadBaseOfLastBlock(file) ==
    [chain |-> file.chain, pendingTransactions |-> <<>>,
     difficulty |-> LastBlock(file.chain).difficulty]

(* loadState: the file is taken whole, or (invalid chain, or one pending   *)
(* transaction refused) not at all, which leaves the constructor's ledger. *)
LoadBase(file) ==
    [chain |-> file.chain, pendingTransactions |-> <<>>,
     difficulty |-> IF file.difficulty < MinDifficulty THEN MinDifficulty
                    ELSE file.difficulty]

Loads(file) ==
    /\ IsValidChain(file.chain)
    /\ LET run == Readmission(LoadBase(file), file.pendingTransactions)
       IN  \A i \in DOMAIN file.pendingTransactions :
               Admissible(run[i - 1], file.pendingTransactions[i])

LoadState(file) ==
    IF ~Loads(file) THEN FreshLedger
    ELSE Readmission(LoadBase(file), file.pendingTransactions)
            [Len(file.pendingTransactions)]
=============================================================================
