----------------------------- MODULE Blockchain -----------------------------
(***************************************************************************)
(* One node without peers' blocks: the Blockchain object that              *)
(* src/node/index.js creates at startup, its state file, and the handlers  *)
(* that change them.  JavaScript runs a handler to its end, and each       *)
(* handler saves the state before it returns, so a handler is one step;    *)
(* what may come between is a crash of the process, which loses the        *)
(* handler and may leave the file half written.  Left out is a handler     *)
(* that ends early because rebuildDerivedState throws (blockchain.js:2549  *)
(* and 2628), which StateLayer.tla models: what is said here is said of    *)
(* nodes whose chains execute.                                             *)
(***************************************************************************)
EXTENDS Reports

CONSTANTS
    Transactions,   \* the signed transactions the wallets may make
    Clock,          \* the values Date.now() may return to a miner
    MaxChain,       \* bound: no block without transactions past this length
    TornWrites,     \* whether a crash may cut the writing of the file short
    Torn            \* what is then left: storage.load() throws on it

ASSUME BlockchainAssumption ==
    /\ Transactions \subseteq {t \in Transaction : t.from \in Address}
    /\ Clock \subseteq Nat \ {0}
    /\ MaxChain \in Nat
    /\ TornWrites \in BOOLEAN
    /\ Torn \notin LedgerState

VARIABLES
    ledger,     \* the Blockchain object; while down, the one last saved
    disk,       \* what the state file holds
    up          \* the process is running

vars == <<ledger, disk, up>>

chain == ledger.chain
pendingTransactions == ledger.pendingTransactions

-----------------------------------------------------------------------------
(* A first start: no file, a fresh ledger, and the persistState() of       *)
(* startup.                                                                *)
Init ==
    /\ ledger = FreshLedger
    /\ disk = FreshLedger
    /\ up = TRUE

(* Mutant: persistState() is forgotten. *)
HandleWithoutSaving(led) ==
    /\ up
    /\ ledger' = led
    /\ UNCHANGED <<disk, up>>

(* A handler that leaves the ledger as `led` and calls persistState(). *)
Handle(led) ==
    /\ up
    /\ ledger' = led
    /\ disk' = led
    /\ UNCHANGED up

(* POST /transactions and the application routes: the active wallet signs  *)
(* with the next nonce the node sees for it.                               *)
SubmitTransaction(t) ==
    /\ t.nonce = NextNonce(ledger, t.from)
    /\ Admissible(ledger, t)
    /\ Handle(AddTransaction(ledger, t))

(* NEW_TRANSACTION from a peer, made on another node: any nonce. *)
HandleIncomingTransaction(t) ==
    /\ Admissible(ledger, t)
    /\ Handle(AddTransaction(ledger, t))

(* The bound on blocks: one with transactions is always mined.             *)
WithinBound == TransactionsForNextBlock(ledger) # <<>> \/ Len(chain) < MaxChain

(* POST /mine with the given miner and POST /faucet (which refuses an      *)
(* invalid address first).                                                 *)
Mine(miner, now) ==
    /\ WithinBound
    /\ Handle(MinePendingTransactions(ledger, miner, now))

(* The process dies: between handlers, or while one writes the file.       *)
Crash ==
    /\ up
    /\ up' = FALSE
    /\ disk' \in IF TornWrites THEN {disk, Torn} ELSE {disk}
    /\ UNCHANGED ledger

(* Startup: storage.load() throws on a half-written file; otherwise        *)
(* loadState takes the file or keeps the fresh ledger, which is saved.     *)
Start ==
    /\ ~up
    /\ disk # Torn
    /\ up' = TRUE
    /\ ledger' = LoadState(disk)
    /\ disk' = ledger'

Next ==
    \/ \E t \in Transactions : SubmitTransaction(t) \/ HandleIncomingTransaction(t)
    \/ \E miner \in Miner, now \in Clock : Mine(miner, now)
    \/ Crash
    \/ Start

Spec == Init /\ [][Next]_vars

(* Startup follows a crash (whoever runs the node starts it again); mining *)
(* is a request, and somebody keeps making it.  These are weak fairness of *)
(* Start and strong fairness of Mine, said by what only these steps do:    *)
(* Start alone brings the node up, Mine alone adds a block, and it can     *)
(* while the node is up.                                                   *)
Restarted == ~up /\ disk # Torn /\ up' = TRUE

BlockMined == Len(chain') > Len(chain)

FairSpec ==
    /\ Spec
    /\ WF_up(Restarted)
    /\ []<>(up /\ WithinBound) => []<><<BlockMined>>_vars

-----------------------------------------------------------------------------
(* The types of the state: what the file holds is always the ledger the    *)
(* last handler left, unless its writing was cut short.                    *)
TypeOK ==
    /\ ledger \in LedgerState
    /\ disk \in {ledger, Torn}
    /\ up \in BOOLEAN
    /\ up => disk = ledger

(* getBalance and addTransaction: the chain gives each address at least    *)
(* what its pending transactions take, so that no block built from them    *)
(* overdraws it, whichever of them the miner takes first.                  *)
Solvent ==
    \A a \in Address : Spent(pendingTransactions, a) <= Balance(chain, a)

(* Each sender's pending nonces are exactly the ones that follow its       *)
(* confirmed transactions, none twice and none missing: every one of them  *)
(* can become eligible for a block, and getNextNonce is a nonce that       *)
(* addTransaction accepts.                                                 *)
NoncesContiguous ==
    \A a \in Address :
        {pendingTransactions[j].nonce : j \in IndicesFrom(pendingTransactions, a)}
            = ConfirmedNonce(chain, a) .. NextNonce(ledger, a) - 1

(* addTransaction's limits hold whatever was replaced, mined or reloaded.  *)
MempoolBounded ==
    /\ Len(pendingTransactions) <= MaxPendingTransactions
    /\ \A a \in Address :
          Cardinality(IndicesFrom(pendingTransactions, a))
              <= MaxPendingTransactionsPerSender

(* What the node mines is a chain that it, and any peer, validates:        *)
(* minePendingTransactions and isValidChain agree on order, limits,        *)
(* rewards and difficulty.                                                 *)
ChainValid == IsValidChain(chain)

(* Fees move to the miner and are not minted again: all balances together  *)
(* are the rewards of the heights mined so far.  The supply that /stats    *)
(* reports exceeds them by the fees, which every reward contains again,    *)
(* and the activity of an address accounts for its balance to the unit.    *)
SupplyConserved ==
    LET everyone == SetToSeq(Address)
        total    == SumSeq([k \in DOMAIN everyone |-> Balance(chain, everyone[k])])
    IN  /\ total = SumSeq([i \in DOMAIN chain |-> MiningReward(i - 1)])
        /\ TotalSupply(chain) = total + TotalFeesCollected(chain)
        /\ \A a \in Address :
              Balance(chain, a) = SumSeq([i \in DOMAIN chain |->
                  LET lines == Activity(chain[i].transactions, a)
                  IN  SumSeq([j \in DOMAIN lines |-> Effect(lines[j], a)])])

(* A restart gives back the chain, the mempool and the difficulty that the *)
(* node had saved ("so the chain survives restarts", README.md:306).       *)
StartKeepsLedger == [][Start => UNCHANGED ledger]_vars

(* A receipt only goes forward (getTransactionReceipt; "receipts stay      *)
(* `pending` until block inclusion", docs/cli.md:334): from pending to     *)
(* confirmed in the block just mined, or to nothing when outbid by one of  *)
(* the same sender and nonce; a full mempool, a restart or another block   *)
(* never drops it, and a confirmed one keeps its height and gains a        *)
(* confirmation with each block.                                           *)
NeverDropped ==
    [][\A t \in Range(pendingTransactions) \cup UNION {Range(b.transactions) : b \in Range(chain)} :
          LET before == Receipt(ledger, t)
              after  == Receipt(ledger', t)
          IN  CASE after.status = "confirmed" ->
                     /\ after.confirmations = before.confirmations + Len(chain') - Len(chain)
                     /\ before.status = "confirmed" => after.blockHeight = before.blockHeight
                [] after.status = "pending" -> before.status = "pending"
                [] after.status = "not_found" ->
                     /\ before.status = "pending"
                     /\ \E u \in Range(ledger'.pendingTransactions) :
                           /\ u.from = t.from /\ u.nonce = t.nonce
                           /\ u.fee >= t.fee + MinReplacementFeeBump]_vars

(* What a block takes after the last transaction of a sender; and the rank *)
(* of the sort, short of the order of arrival.                             *)
TakenSince(taken, a) ==
    {k \in DOMAIN taken : \A l \in k .. Len(taken) : taken[l].from # a}

Better(t, u) ==
    \/ t.fee > u.fee
    \/ t.fee = u.fee /\ t.timestamp <= u.timestamp

(* A block leaves a transaction behind only for better ones: it is full,   *)
(* and since the sender's turn came (the last of its transactions in the   *)
(* block, or the beginning) it has taken none that pays less, and of those *)
(* that pay the same none that is younger.  This is said of the            *)
(* transaction of each sender that is next; the others wait for that one,  *)
(* whatever they pay (getTransactionsForNextBlock).                        *)
WaitsBehindBetter ==
    [][Len(chain') > Len(chain) =>
          LET block == LastBlock(chain').transactions
              taken == SubSeq(block, 1, Len(block) - 1)
          IN  \A j \in DOMAIN pendingTransactions' :
                 LET t == pendingTransactions'[j]
                 IN  t.nonce = ConfirmedNonce(chain', t.from) =>
                        /\ Len(taken) = MaxTransactionsPerBlock
                        /\ \A k \in TakenSince(taken, t.from) : Better(taken[k], t)]_vars

(* Somebody keeps outbidding: a transaction is admitted that pays no less  *)
(* than one that sender a has pending up to nonce n.                       *)
Outbids(a, n) ==
    \E u \in Range(pendingTransactions') \ Range(pendingTransactions) :
        \E j \in IndicesFrom(pendingTransactions, a) :
            /\ pendingTransactions[j].nonce <= n
            /\ u.fee >= pendingTransactions[j].fee

(* Fees do not grow with age, so whoever is outbid for ever waits for      *)
(* ever.  Nothing else keeps a transaction waiting: while blocks are       *)
(* mined, whatever was admitted for a nonce of a sender, or what replaced  *)
(* it, is confirmed, through crashes and restarts, unless transactions     *)
(* that pay no less are admitted again and again; only a file cut short,   *)
(* on which no start succeeds, leaves it waiting too.                      *)
SettlesUnlessOutbid ==
    \A a \in Address, n \in {t.nonce : t \in Transactions} :
        \/ []<><<Outbids(a, n)>>_vars
        \/ (\E j \in IndicesFrom(pendingTransactions, a) : pendingTransactions[j].nonce = n)
              ~> (ConfirmedNonce(chain, a) > n \/ disk = Torn)

(* The mempool and the chain implement the accounts of Accounts.tla.       *)
AccountsOf ==
    INSTANCE Accounts WITH
        balance  <- [a \in Address |-> Balance(chain, a)],
        reserved <- [a \in Address |-> Spent(pendingTransactions, a)]

ImplementsAccounts == AccountsOf!Spec
=============================================================================
