------------------------------ MODULE Network ------------------------------
(***************************************************************************)
(* Several nodes and the messages between them (src/network/p2p.js): each  *)
(* node has the Blockchain object of Ledger.tla, sockets to its peers, and *)
(* one handler per message type.  A handler runs to its end, so it is one  *)
(* step: it takes the first message that waits at one end of a socket,     *)
(* changes the ledger of that node and sends what it sends.                *)
(*                                                                         *)
(* A socket is a TCP connection: it delivers in order until it closes, and *)
(* what is under way when it closes is lost.  Both ends open and close at  *)
(* once here.  A node that crashes loses its sockets, and comes back with  *)
(* the ledger it saved (Blockchain.tla: the one it had).                   *)
(***************************************************************************)
EXTENDS Ledger

CONSTANTS
    Node,
    Dial,               \* <<n, m>>: n has m among its bootstrap peers
    Transactions,       \* the signed transactions the wallets may make
    Clock,              \* the values Date.now() may return to a miner
    MaxChain,           \* bound: no block without transactions past this length
    MaxChainMessage     \* how many blocks fit in MAX_P2P_MESSAGE_BYTES

ASSUME NetworkAssumption ==
    /\ Dial \subseteq {d \in Node \X Node : d[1] # d[2]}
    /\ Transactions \subseteq {t \in Transaction : t.from \in Address}
    /\ Clock \subseteq Nat \ {0}
    /\ MaxChain \in Nat
    /\ MaxChainMessage \in Nat

VARIABLES
    ledger,     \* of each node
    open,       \* the dials whose socket is open
    inbox       \* inbox[d][n]: what waits for n at its end of the socket of d

vars == <<ledger, open, inbox>>

-----------------------------------------------------------------------------
(* Messages.  A block or a chain is the chain that ends in it. *)

ChainMessage(chain)     == [type |-> "CHAIN", data |-> chain]
RequestChain            == [type |-> "REQUEST_CHAIN"]
NewBlock(chain)         == [type |-> "NEW_BLOCK", data |-> chain]
NewTransaction(t)       == [type |-> "NEW_TRANSACTION", data |-> t]
RequestPending          == [type |-> "REQUEST_PENDING_TRANSACTIONS"]
PendingMessage(pending) == [type |-> "PENDING_TRANSACTIONS", data |-> pending]

Message ==
    [type : {"CHAIN", "NEW_BLOCK"}, data : Seq(Block)]
        \cup [type : {"REQUEST_CHAIN", "REQUEST_PENDING_TRANSACTIONS"}]
        \cup [type : {"NEW_TRANSACTION"}, data : Transaction]
        \cup [type : {"PENDING_TRANSACTIONS"}, data : Seq(Transaction)]

Ends(d) == {d[1], d[2]}

Sockets(n) == {d \in open : n \in Ends(d)}

(* The inboxes once n has sent `messages` over the sockets in `over`.      *)
Sent(boxes, n, over, messages) ==
    [d \in Dial |-> [m \in Node |->
        IF d \in over /\ m \in Ends(d) \ {n} THEN boxes[d][m] \o messages
        ELSE boxes[d][m]]]

Broadcast(boxes, n, messages) == Sent(boxes, n, Sockets(n), messages)

SetLedger(n, led) == ledger' = [ledger EXCEPT ![n] = led]

-----------------------------------------------------------------------------
Init ==
    /\ ledger = [n \in Node |-> FreshLedger]
    /\ open = {}
    /\ inbox = [d \in Dial |-> [n \in Node |-> <<>>]]

(* Mutant: the chain is not asked for. *)
OpenWithoutChain(d) ==
    /\ d \notin open
    /\ open' = open \cup {d}
    /\ inbox' = [inbox EXCEPT ![d] =
                    [n \in Node |-> IF n \in Ends(d) THEN <<RequestPending>> ELSE <<>>]]
    /\ UNCHANGED ledger

(* connectToPeer, at startup or by the reconnect timer, and connectSocket  *)
(* at both ends: each asks the other for its chain and its mempool.        *)
Open(d) ==
    /\ d \notin open
    /\ open' = open \cup {d}
    /\ inbox' = [inbox EXCEPT ![d] =
                    [n \in Node |-> IF n \in Ends(d)
                                    THEN <<RequestChain, RequestPending>> ELSE <<>>]]
    /\ UNCHANGED ledger

(* Mutant: what was under way reaches the next socket. *)
ClosedKeepingMessages(dials) ==
    /\ open' = open \ dials
    /\ UNCHANGED inbox

Closed(dials) ==
    /\ open' = open \ dials
    /\ inbox' = [d \in Dial |-> IF d \in dials THEN [n \in Node |-> <<>>] ELSE inbox[d]]

Close(d) ==
    /\ d \in open
    /\ Closed({d})
    /\ UNCHANGED ledger

(* The process of n dies and is started again. *)
Restart(n) ==
    /\ Closed(Sockets(n))
    /\ SetLedger(n, LoadState(ledger[n]))

-----------------------------------------------------------------------------
(* Requests to the node. *)

(* POST /transactions: admitted, saved, broadcast. *)
SubmitTransaction(n, t) ==
    /\ t.nonce = NextNonce(ledger[n], t.from)
    /\ Admissible(ledger[n], t)
    /\ SetLedger(n, AddTransaction(ledger[n], t))
    /\ inbox' = Broadcast(inbox, n, <<NewTransaction(t)>>)
    /\ UNCHANGED open

(* POST /mine, POST /faucet: mined, saved, broadcast. *)
Mine(n, miner, now) ==
    /\ \/ TransactionsForNextBlock(ledger[n]) # <<>>
       \/ Len(ledger[n].chain) < MaxChain
    /\ SetLedger(n, MinePendingTransactions(ledger[n], miner, now))
    /\ inbox' = Broadcast(inbox, n, <<NewBlock(ledger'[n].chain)>>)
    /\ UNCHANGED open

-----------------------------------------------------------------------------
(* Messages: n takes the first one at its end of the socket of d. *)

Receives(d, n, type) ==
    /\ inbox[d][n] # <<>>
    /\ Head(inbox[d][n]).type = type

Data(d, n) == Head(inbox[d][n]).data

(* The inboxes without that message. *)
Taken(d, n) == [inbox EXCEPT ![d][n] = Tail(@)]

OnRequestChain(d, n) ==
    /\ Receives(d, n, "REQUEST_CHAIN")
    /\ inbox' = Sent(Taken(d, n), n, {d}, <<ChainMessage(ledger[n].chain)>>)
    /\ UNCHANGED <<ledger, open>>

OnRequestPending(d, n) ==
    /\ Receives(d, n, "REQUEST_PENDING_TRANSACTIONS")
    /\ inbox' = Sent(Taken(d, n), n, {d}, <<PendingMessage(ledger[n].pendingTransactions)>>)
    /\ UNCHANGED <<ledger, open>>

(* parseMessage drops a message that is too long; handleChain replaces the *)
(* chain by one of more work.  An adopted chain is not sent on.            *)
OnChain(d, n) ==
    /\ Receives(d, n, "CHAIN")
    /\ inbox' = Taken(d, n)
    /\ IF Len(Data(d, n)) <= MaxChainMessage /\ AcceptsChain(ledger[n], Data(d, n))
       THEN SetLedger(n, ReplaceChain(ledger[n], Data(d, n)))
       ELSE UNCHANGED ledger
    /\ UNCHANGED open

(* handleNewBlock: a block that does not fit makes the node ask all its    *)
(* peers for their chains.  An accepted block is not sent on.              *)
OnNewBlock(d, n) ==
    /\ Receives(d, n, "NEW_BLOCK")
    /\ IF AcceptsBlock(ledger[n], Data(d, n))
       THEN /\ SetLedger(n, AddBlock(ledger[n], Data(d, n)))
            /\ inbox' = Taken(d, n)
       ELSE /\ inbox' = Broadcast(Taken(d, n), n, <<RequestChain>>)
            /\ UNCHANGED ledger
    /\ UNCHANGED open

(* handleIncomingTransaction of each of txs: those admitted are sent to    *)
(* every peer, the one they came from included.                            *)
Incoming(d, n, txs) ==
    LET run      == Readmission(ledger[n], txs)
        admitted == {t \in Range(txs) :
                        \E i \in DOMAIN txs : txs[i] = t /\ Admissible(run[i - 1], t)}
        news     == Subsequence(txs, admitted)
    IN  /\ SetLedger(n, run[Len(txs)])
        /\ inbox' = Broadcast(Taken(d, n), n,
                              [i \in DOMAIN news |-> NewTransaction(news[i])])
        /\ UNCHANGED open

OnNewTransaction(d, n) ==
    /\ Receives(d, n, "NEW_TRANSACTION")
    /\ Incoming(d, n, <<Data(d, n)>>)

OnPending(d, n) ==
    /\ Receives(d, n, "PENDING_TRANSACTIONS")
    /\ Incoming(d, n, Data(d, n))

Receive(d, n) ==
    \/ OnRequestChain(d, n)
    \/ OnChain(d, n)
    \/ OnNewBlock(d, n)
    \/ OnNewTransaction(d, n)
    \/ OnRequestPending(d, n)
    \/ OnPending(d, n)

-----------------------------------------------------------------------------
Request ==
    \/ \E n \in Node, t \in Transactions : SubmitTransaction(n, t)
    \/ \E n \in Node, miner \in Miner, now \in Clock : Mine(n, miner, now)

Communication ==
    \/ \E d \in Dial : Open(d)
    \/ \E d \in Dial, n \in Node : Receive(d, n)

Failure ==
    \/ \E d \in Dial : Close(d)
    \/ \E n \in Node : Restart(n)

Next == Request \/ Communication \/ Failure

Spec == Init /\ [][Next]_vars

(* A network whose connections do not fail. *)
ReliableSpec == Init /\ [][Request \/ Communication]_vars

(* The reconnect timer dials again, and an open socket delivers.           *)
FairSpec ==
    /\ ReliableSpec
    /\ \A d \in Dial : WF_vars(Open(d))
    /\ \A d \in Dial, n \in Node : WF_vars(Receive(d, n))

-----------------------------------------------------------------------------
TypeOK ==
    /\ ledger \in [Node -> LedgerState]
    /\ open \subseteq Dial
    /\ inbox \in [Dial -> [Node -> Seq(Message)]]
    /\ \A d \in Dial, n \in Node : inbox[d][n] # <<>> => d \in open /\ n \in Ends(d)

Work(n) == ChainWork(ledger[n].chain)

Quiet(n) == \A d \in Dial : inbox[d][n] = <<>>

(* addBlock checks less than isValidChain: neither nonces nor repetitions. *)
(* Still every chain that mining, blocks and chains from peers, and their  *)
(* reorganisations make, is one that isValidChain takes.                   *)
ChainsValid == \A n \in Node : IsValidChain(ledger[n].chain)

(* Whichever way a node came to its chain, its difficulty is the one the   *)
(* chain gives (adjustDifficulty in minePendingTransactions, addBlock and  *)
(* replaceChain), so that all nodes with a chain agree on the next block.  *)
DifficultyFromChain ==
    \A n \in Node :
        LET chain == ledger[n].chain
        IN  ledger[n].difficulty =
                IF AtAdjustment(chain)
                THEN AdjustDifficulty(chain, LastBlock(chain).difficulty)
                ELSE LastBlock(chain).difficulty

(* A node gives up its chain only for one of more work, be it by a block,  *)
(* a chain or a restart: "the valid chain is chosen by work"               *)
(* (docs/architecture.md:144) and "restarting the node does not wipe       *)
(* progress" (docs/architecture.md:296).                                   *)
WorkGrows ==
    [][\A n \in Node :
          \/ ledger'[n].chain = ledger[n].chain
          \/ ChainWork(ledger'[n].chain) > Work(n)]_vars

(* The peer of more work has a chain that does not fit in a message.       *)
BeyondMessage(d) ==
    \E n, m \in Ends(d) : Work(n) > Work(m) /\ Len(ledger[n].chain) > MaxChainMessage

(* Connected peers that wait for nothing have chains of the same work:     *)
(* what is announced, refused, asked for and answered, in whatever order,  *)
(* leaves no peer behind (docs/architecture.md:316, "synchronize chain     *)
(* history"), unless by a chain that is dropped for its length             *)
(* (parseMessage, MAX_P2P_MESSAGE_BYTES).                                  *)
QuietPeersAgree ==
    \A d \in open :
        (\A n \in Ends(d) : Quiet(n)) => Work(d[1]) = Work(d[2]) \/ BeyondMessage(d)

(* Where no two signed transactions share sender and nonce, every node's   *)
(* mempool is payable and gapless over its chain, also after a block or a  *)
(* chain that other nodes have made.                                       *)
MempoolsFit ==
    \A n \in Node, a \in Address :
        LET pending == ledger[n].pendingTransactions
            chain   == ledger[n].chain
        IN  /\ Spent(pending, a) <= Balance(chain, a)
            /\ {pending[j].nonce : j \in IndicesFrom(pending, a)}
                 = ConfirmedNonce(chain, a) .. NextNonce(ledger[n], a) - 1

(* A pending transaction leaves a node only by being confirmed, or when    *)
(* the node's chain no longer lets it in: "drop transactions that became   *)
(* invalid after chain replacement" (blockchain.js:3247) drops no other.   *)
DroppedOnlyIfInvalid ==
    [][\A n \in Node :
          ledger'[n] = ledger[n]
            \/ \A t \in Range(ledger[n].pendingTransactions) :
                  \/ t \in Range(ledger'[n].pendingTransactions)
                  \/ HasTransactionInChain(ledger'[n].chain, t)
                  \/ ~Admissible(ledger'[n], t)]_vars

(* No chain takes more from an address than it gives it: "double-spend-    *)
(* style prevention through nonce and balance validation"                  *)
(* (docs/architecture.md:73).                                              *)
NoOverdraft ==
    \A n \in Node, a \in Address : Balance(ledger[n].chain, a) >= 0

(* Once mining stops, connected nodes come to chains of the same work.     *)
Synchronizes ==
    <>[](\A d \in Dial : Work(d[1]) = Work(d[2]) \/ BeyondMessage(d))
=============================================================================
