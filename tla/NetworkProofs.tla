--------------------------- MODULE NetworkProofs ---------------------------
(***************************************************************************)
(* What holds of all nodes at once, for every network, whatever the order  *)
(* of messages, and through lost connections and restarts.                 *)
(***************************************************************************)
EXTENDS Network, LedgerTheorems, TLAPS

(* What is under way, where chains are in C. *)
Mail(C) ==
    [type : {"CHAIN", "NEW_BLOCK"}, data : C]
        \cup [type : {"REQUEST_CHAIN", "REQUEST_PENDING_TRANSACTIONS"}]
        \cup [type : {"NEW_TRANSACTION"}, data : Transactions]
        \cup [type : {"PENDING_TRANSACTIONS"}, data : Seq(Transactions)]

(* What waits on open sockets only. *)
Boxes(C, sockets) ==
    {boxes \in [Dial -> [Node -> Seq(Mail(C))]] :
        \A d \in Dial, n \in Node :
            boxes[d][n] # <<>> => d \in sockets /\ n \in Ends(d)}

(* Every node keeps a ledger of L, and every chain under way is in C. *)
Keeps(L, C) ==
    /\ ledger \in [Node -> L]
    /\ open \subseteq Dial
    /\ inbox \in Boxes(C, open)

(* No handler leads out of L and C. *)
Kept(L, C) ==
    /\ FreshLedger \in L
    /\ \A led \in L :
          /\ led.chain \in C
          /\ led.pendingTransactions \in Seq(Transactions)
          /\ LoadState(led) \in L
          /\ \A miner \in Miner, now \in Clock :
                MinePendingTransactions(led, miner, now) \in L
          /\ \A c \in C :
                /\ AcceptsBlock(led, c) => AddBlock(led, c) \in L
                /\ AcceptsChain(led, c) => ReplaceChain(led, c) \in L
    /\ Preserved(L, Transactions)

-----------------------------------------------------------------------------
(* Mail. *)

LEMMA MailData ==
    ASSUME NEW C, NEW m \in Mail(C)
    PROVE  /\ m.type \in {"CHAIN", "NEW_BLOCK"} => m.data \in C
           /\ m.type = "NEW_TRANSACTION" => m.data \in Transactions
           /\ m.type = "PENDING_TRANSACTIONS" => m.data \in Seq(Transactions)
<1>1. CASE m \in [type : {"CHAIN", "NEW_BLOCK"}, data : C]
  BY <1>1
<1>2. CASE m \in [type : {"REQUEST_CHAIN", "REQUEST_PENDING_TRANSACTIONS"}]
  BY <1>2
<1>3. CASE m \in [type : {"NEW_TRANSACTION"}, data : Transactions]
  BY <1>3
<1>4. CASE m \in [type : {"PENDING_TRANSACTIONS"}, data : Seq(Transactions)]
  BY <1>4
<1> QED BY <1>1, <1>2, <1>3, <1>4 DEF Mail

LEMMA MailSent ==
    ASSUME NEW C
    PROVE  /\ \A c \in C : ChainMessage(c) \in Mail(C) /\ NewBlock(c) \in Mail(C)
           /\ RequestChain \in Mail(C) /\ RequestPending \in Mail(C)
           /\ \A t \in Transactions : NewTransaction(t) \in Mail(C)
           /\ \A p \in Seq(Transactions) : PendingMessage(p) \in Mail(C)
BY DEF Mail, ChainMessage, NewBlock, RequestChain, RequestPending, NewTransaction, PendingMessage

LEMMA BoxType ==
    ASSUME NEW C, NEW sockets, NEW boxes \in Boxes(C, sockets), NEW d \in Dial, NEW n \in Node
    PROVE  boxes[d][n] \in Seq(Mail(C))
BY DEF Boxes

(* n takes the first message at its end. *)
LEMMA TakenKeepsBoxes ==
    ASSUME NEW C, NEW sockets, inbox \in Boxes(C, sockets), NEW d \in Dial, NEW n \in Node,
           inbox[d][n] # <<>>
    PROVE  Taken(d, n) \in Boxes(C, sockets) /\ Head(inbox[d][n]) \in Mail(C)
<1> DEFINE M == Mail(C)
           q == inbox[d][n]
           new == Taken(d, n)
<1>1. inbox \in [Dial -> [Node -> Seq(M)]] /\ q \in Seq(M) /\ q # <<>>
      /\ \A e \in Dial, m \in Node : inbox[e][m] # <<>> => e \in sockets /\ m \in Ends(e)
  BY DEF Boxes
<1> HIDE DEF M
<1>2. Tail(q) \in Seq(M) /\ Head(q) \in M
  <2> HIDE DEF q
  <2> QED BY <1>1
<1>3. /\ new \in [Dial -> [Node -> Seq(M)]]
      /\ \A e \in Dial, m \in Node : new[e][m] = IF e = d /\ m = n THEN Tail(q) ELSE inbox[e][m]
  BY <1>1, <1>2 DEF Taken
<1> HIDE DEF new, q
<1>4. \A e \in Dial, m \in Node : new[e][m] # <<>> => e \in sockets /\ m \in Ends(e)
  BY <1>1, <1>3 DEF q
<1> QED BY <1>2, <1>3, <1>4 DEF Boxes, M, new, q

(* n sends over open sockets. *)
LEMMA SentKeepsBoxes ==
    ASSUME NEW C, NEW sockets, NEW boxes \in Boxes(C, sockets), NEW n, NEW over,
           over \subseteq sockets, NEW messages \in Seq(Mail(C))
    PROVE  Sent(boxes, n, over, messages) \in Boxes(C, sockets)
<1> DEFINE M == Mail(C)
           new == Sent(boxes, n, over, messages)
<1>1. boxes \in [Dial -> [Node -> Seq(M)]] /\ messages \in Seq(M)
      /\ \A e \in Dial, m \in Node : boxes[e][m] # <<>> => e \in sockets /\ m \in Ends(e)
  BY DEF Boxes
<1> HIDE DEF M
<1>2. \A e \in Dial, m \in Node : boxes[e][m] \in Seq(M) /\ boxes[e][m] \o messages \in Seq(M)
  BY <1>1
<1>3. \A e \in Dial, m \in Node :
         new[e][m] = IF e \in over /\ m \in Ends(e) \ {n} THEN boxes[e][m] \o messages
                     ELSE boxes[e][m]
  BY DEF Sent
<1>4. new = [e \in Dial |-> [m \in Node |-> new[e][m]]]
  BY DEF Sent
<1> HIDE DEF new
<1>5. \A e \in Dial, m \in Node : new[e][m] \in Seq(M)
  BY <1>2, <1>3
<1>6. new \in [Dial -> [Node -> Seq(M)]]
  BY <1>4, <1>5
<1>7. \A e \in Dial, m \in Node : new[e][m] # <<>> => e \in sockets /\ m \in Ends(e)
  BY <1>1, <1>3
<1> QED BY <1>6, <1>7 DEF Boxes, M, new

LEMMA BroadcastKeepsBoxes ==
    ASSUME NEW C, NEW boxes \in Boxes(C, open), NEW n, NEW messages \in Seq(Mail(C))
    PROVE  Broadcast(boxes, n, messages) \in Boxes(C, open)
<1>1. Sockets(n) \subseteq open
  BY DEF Sockets
<1> QED BY <1>1, SentKeepsBoxes DEF Broadcast

LEMMA ClosedKeepsBoxes ==
    ASSUME NEW C, inbox \in Boxes(C, open), NEW dials, Closed(dials)
    PROVE  inbox' \in Boxes(C, open')
<1> DEFINE M == Mail(C)
<1>1. inbox \in [Dial -> [Node -> Seq(M)]]
      /\ \A e \in Dial, m \in Node : inbox[e][m] # <<>> => e \in open /\ m \in Ends(e)
  BY DEF Boxes
<1> HIDE DEF M
<1>2. inbox' = [e \in Dial |-> IF e \in dials THEN [m \in Node |-> <<>>] ELSE inbox[e]]
      /\ open' = open \ dials
  BY DEF Closed
<1>3. inbox' \in [Dial -> [Node -> Seq(M)]]
  BY <1>1, <1>2
<1>4. \A e \in Dial, m \in Node : inbox'[e][m] # <<>> => e \in open' /\ m \in Ends(e)
  BY <1>1, <1>2
<1> QED BY <1>3, <1>4 DEF Boxes, M

LEMMA OpenKeepsBoxes ==
    ASSUME NEW C, inbox \in Boxes(C, open), NEW d \in Dial, Open(d)
    PROVE  inbox' \in Boxes(C, open')
<1> DEFINE M == Mail(C)
           asked == [m \in Node |-> IF m \in Ends(d) THEN <<RequestChain, RequestPending>> ELSE <<>>]
<1>1. inbox \in [Dial -> [Node -> Seq(M)]]
      /\ \A e \in Dial, m \in Node : inbox[e][m] # <<>> => e \in open /\ m \in Ends(e)
  BY DEF Boxes
<1>2. RequestChain \in M /\ RequestPending \in M
  BY MailSent
<1> HIDE DEF M
<1>3. inbox' = [inbox EXCEPT ![d] = asked] /\ open' = open \cup {d}
  BY DEF Open
<1>4. asked \in [Node -> Seq(M)]
  BY <1>2
<1>5. \A m \in Node : asked[m] # <<>> => m \in Ends(d)
  OBVIOUS
<1> HIDE DEF asked
<1>6. inbox' \in [Dial -> [Node -> Seq(M)]]
  BY <1>1, <1>3, <1>4
<1>7. \A e \in Dial, m \in Node : inbox'[e][m] # <<>> => e \in open' /\ m \in Ends(e)
  BY <1>1, <1>3, <1>5
<1> QED BY <1>6, <1>7 DEF Boxes, M

-----------------------------------------------------------------------------
(* Handlers. *)

LEMMA SetLedgerKeeps ==
    ASSUME NEW L, ledger \in [Node -> L], NEW n \in Node, NEW led \in L, SetLedger(n, led)
    PROVE  ledger' \in [Node -> L]
BY DEF SetLedger

(* What handleIncomingTransaction sends on. *)
LEMMA NewsAreMail ==
    ASSUME NEW C, NEW txs \in Seq(Transactions), NEW admitted, NEW sent,
           sent = LET news == Subsequence(txs, admitted)
                  IN  [i \in DOMAIN news |-> NewTransaction(news[i])]
    PROVE  sent \in Seq(Mail(C)) /\ \A m \in Range(sent) : m.type = "NEW_TRANSACTION"
<1> DEFINE news == Subsequence(txs, admitted)
<1>1. news \in Seq(Transactions)
  BY SubsequenceType
<1>2. \A t \in Transactions : NewTransaction(t) \in Mail(C)
  BY MailSent
<1>3. sent = [i \in DOMAIN news |-> NewTransaction(news[i])]
  OBVIOUS
<1> HIDE DEF news
<1>4. sent \in Seq(Mail(C))
  BY <1>1, <1>2, <1>3
<1>5. \A m \in Range(sent) : m.type = "NEW_TRANSACTION"
  BY <1>3 DEF Range, NewTransaction
<1> QED BY <1>4, <1>5

(* handleIncomingTransaction of each of txs. *)
LEMMA IncomingKeeps ==
    ASSUME NEW L, NEW C, Kept(L, C), Keeps(L, C), NEW d \in Dial, NEW n \in Node,
           inbox[d][n] # <<>>, NEW txs \in Seq(Transactions), Incoming(d, n, txs)
    PROVE  Keeps(L, C)'
<1> DEFINE run == Readmission(ledger[n], txs)
           admitted == {t \in Range(txs) :
                           \E i \in DOMAIN txs : txs[i] = t /\ Admissible(run[i - 1], t)}
           news == Subsequence(txs, admitted)
           sent == [i \in DOMAIN news |-> NewTransaction(news[i])]
<1>1. ledger \in [Node -> L] /\ open \subseteq Dial /\ inbox \in Boxes(C, open)
  BY DEF Keeps
<1>2. Preserved(L, Transactions)
  BY DEF Kept
<1>3. run[Len(txs)] \in L
  <2>1. Readmits(run, ledger[n], txs, L)
    BY <1>1, <1>2, ReadmissionRuns
  <2>2. Len(txs) \in 0 .. Len(txs)
    OBVIOUS
  <2> HIDE DEF run
  <2> QED BY <2>1, <2>2 DEF Readmits
<1>4. sent \in Seq(Mail(C))
  <2> HIDE DEF admitted
  <2> QED BY NewsAreMail
<1>5. SetLedger(n, run[Len(txs)]) /\ inbox' = Broadcast(Taken(d, n), n, sent) /\ open' = open
  BY DEF Incoming
<1> HIDE DEF run, sent
<1>6. Taken(d, n) \in Boxes(C, open)
  BY <1>1, TakenKeepsBoxes
<1>7. inbox' \in Boxes(C, open)
  BY <1>4, <1>5, <1>6, BroadcastKeepsBoxes
<1>8. ledger' \in [Node -> L]
  BY <1>1, <1>3, <1>5, SetLedgerKeeps
<1>9. open' \subseteq Dial /\ inbox' \in Boxes(C, open')
  BY <1>1, <1>5, <1>7
<1> QED BY <1>8, <1>9 DEF Keeps

LEMMA ReceiveKeeps ==
    ASSUME NEW L, NEW C, Kept(L, C), Keeps(L, C), NEW d \in Dial, NEW n \in Node, Receive(d, n)
    PROVE  Keeps(L, C)'
<1> DEFINE m == Head(inbox[d][n])
           led == ledger[n]
<1>1. ledger \in [Node -> L] /\ led \in L /\ open \subseteq Dial /\ inbox \in Boxes(C, open)
  BY DEF Keeps
<1>2. inbox[d][n] # <<>>
  BY DEF Receive, Receives, OnRequestChain, OnChain, OnNewBlock, OnNewTransaction,
         OnRequestPending, OnPending
<1>3. Taken(d, n) \in Boxes(C, open) /\ m \in Mail(C)
  BY <1>1, <1>2, TakenKeepsBoxes
<1>4. d \in open
  BY <1>1, <1>2 DEF Boxes
<1>5. /\ led.chain \in C /\ led.pendingTransactions \in Seq(Transactions)
      /\ \A c \in C : /\ AcceptsBlock(led, c) => AddBlock(led, c) \in L
                      /\ AcceptsChain(led, c) => ReplaceChain(led, c) \in L
  BY <1>1 DEF Kept
<1>6. ASSUME NEW messages \in Seq(Mail(C)), inbox' = Sent(Taken(d, n), n, {d}, messages),
             UNCHANGED <<ledger, open>>
      PROVE  Keeps(L, C)'
  <2>1. inbox' \in Boxes(C, open)
    BY <1>3, <1>4, <1>6, SentKeepsBoxes
  <2>2. ledger' = ledger /\ open' = open
    BY <1>6
  <2>3. ledger' \in [Node -> L] /\ open' \subseteq Dial /\ inbox' \in Boxes(C, open')
    BY <1>1, <2>1, <2>2
  <2> QED BY <2>3 DEF Keeps
<1>7. CASE OnRequestChain(d, n)
  <2>1. <<ChainMessage(led.chain)>> \in Seq(Mail(C))
    BY <1>5, MailSent
  <2> QED BY <1>6, <1>7, <2>1 DEF OnRequestChain
<1>8. CASE OnRequestPending(d, n)
  <2>1. <<PendingMessage(led.pendingTransactions)>> \in Seq(Mail(C))
    BY <1>5, MailSent
  <2> QED BY <1>6, <1>8, <2>1 DEF OnRequestPending
<1>9. CASE OnChain(d, n)
  <2>1. m.data \in C
    BY <1>3, <1>9, MailData DEF OnChain, Receives
  <2>2. inbox' \in Boxes(C, open) /\ open' = open
    BY <1>3, <1>9 DEF OnChain
  <2>3. ledger' \in [Node -> L]
    <3>1. CASE AcceptsChain(led, m.data) /\ SetLedger(n, ReplaceChain(led, m.data))
      <4>1. ReplaceChain(led, m.data) \in L
        BY <1>5, <2>1, <3>1
      <4> QED BY <1>1, <3>1, <4>1, SetLedgerKeeps
    <3>2. CASE ledger' = ledger
      BY <1>1, <3>2
    <3> QED BY <1>9, <3>1, <3>2 DEF OnChain, Data
  <2>4. open' \subseteq Dial /\ inbox' \in Boxes(C, open')
    BY <1>1, <2>2
  <2> QED BY <2>3, <2>4 DEF Keeps
<1>10. CASE OnNewBlock(d, n)
  <2>1. m.data \in C
    BY <1>3, <1>10, MailData DEF OnNewBlock, Receives
  <2>2. open' = open
    BY <1>10 DEF OnNewBlock
  <2>3. CASE AcceptsBlock(led, m.data)
    <3>1. SetLedger(n, AddBlock(led, m.data)) /\ inbox' = Taken(d, n)
      BY <1>10, <2>3 DEF OnNewBlock, Data
    <3>2. AddBlock(led, m.data) \in L
      BY <1>5, <2>1, <2>3
    <3>3. ledger' \in [Node -> L]
      BY <1>1, <3>1, <3>2, SetLedgerKeeps
    <3>4. open' \subseteq Dial /\ inbox' \in Boxes(C, open')
      BY <1>1, <1>3, <2>2, <3>1
    <3> QED BY <3>3, <3>4 DEF Keeps
  <2>4. CASE ~AcceptsBlock(led, m.data)
    <3>1. inbox' = Broadcast(Taken(d, n), n, <<RequestChain>>) /\ ledger' = ledger
      BY <1>10, <2>4 DEF OnNewBlock, Data
    <3>2. <<RequestChain>> \in Seq(Mail(C))
      BY MailSent
    <3>3. inbox' \in Boxes(C, open)
      BY <1>3, <3>1, <3>2, BroadcastKeepsBoxes
    <3>4. ledger' \in [Node -> L] /\ open' \subseteq Dial /\ inbox' \in Boxes(C, open')
      BY <1>1, <2>2, <3>1, <3>3
    <3> QED BY <3>4 DEF Keeps
  <2> QED BY <2>3, <2>4
<1>11. CASE OnNewTransaction(d, n)
  <2>1. m.data \in Transactions
    BY <1>3, <1>11, MailData DEF OnNewTransaction, Receives
  <2>2. <<m.data>> \in Seq(Transactions)
    <3> DEFINE t == m.data
    <3> HIDE DEF t
    <3>1. <<t>> \in Seq(Transactions)
      BY <2>1 DEF t
    <3> QED BY <3>1 DEF t
  <2>3. Incoming(d, n, <<m.data>>)
    BY <1>11 DEF OnNewTransaction, Data
  <2> QED BY <1>2, <2>2, <2>3, IncomingKeeps
<1>12. CASE OnPending(d, n)
  <2>1. m.data \in Seq(Transactions)
    BY <1>3, <1>12, MailData DEF OnPending, Receives
  <2>2. Incoming(d, n, m.data)
    BY <1>12 DEF OnPending, Data
  <2> QED BY <1>2, <2>1, <2>2, IncomingKeeps
<1> QED BY <1>7, <1>8, <1>9, <1>10, <1>11, <1>12 DEF Receive

(* A request to n that leaves it with `led` and is told to its peers.      *)
LEMMA RequestKeeps ==
    ASSUME NEW L, NEW C, Keeps(L, C), NEW n \in Node, NEW led \in L, SetLedger(n, led),
           NEW m \in Mail(C), inbox' = Broadcast(inbox, n, <<m>>), UNCHANGED open
    PROVE  Keeps(L, C)'
<1>1. ledger \in [Node -> L] /\ open \subseteq Dial /\ inbox \in Boxes(C, open)
  BY DEF Keeps
<1>2. <<m>> \in Seq(Mail(C))
  OBVIOUS
<1>3. inbox' \in Boxes(C, open)
  BY <1>1, <1>2, BroadcastKeepsBoxes
<1>4. ledger' \in [Node -> L]
  BY <1>1, SetLedgerKeeps
<1>5. open' \subseteq Dial /\ inbox' \in Boxes(C, open')
  BY <1>1, <1>3
<1> QED BY <1>4, <1>5 DEF Keeps

LEMMA InitKeeps ==
    ASSUME NEW L, NEW C, Kept(L, C), Init
    PROVE  Keeps(L, C)
<1>1. ledger \in [Node -> L]
  BY DEF Init, Kept
<1>2. inbox = [d \in Dial |-> [n \in Node |-> <<>>]] /\ open = {}
  BY DEF Init
<1>3. inbox \in Boxes(C, open)
  BY <1>2 DEF Boxes
<1> QED BY <1>1, <1>2, <1>3 DEF Keeps

LEMMA StepKeeps ==
    ASSUME NEW L, NEW C, Kept(L, C), Keeps(L, C), [Next]_vars
    PROVE  Keeps(L, C)'
<1>1. ledger \in [Node -> L] /\ open \subseteq Dial /\ inbox \in Boxes(C, open)
  BY DEF Keeps
<1>2. ASSUME NEW n \in Node, NEW t \in Transactions, SubmitTransaction(n, t)
      PROVE  Keeps(L, C)'
  <2>1. AddTransaction(ledger[n], t) \in L
    BY <1>1 DEF Kept, Preserved
  <2>2. NewTransaction(t) \in Mail(C)
    BY MailSent
  <2> QED BY <1>2, <2>1, <2>2, RequestKeeps DEF SubmitTransaction
<1>3. ASSUME NEW n \in Node, NEW miner \in Miner, NEW now \in Clock, Mine(n, miner, now)
      PROVE  Keeps(L, C)'
  <2> DEFINE new == MinePendingTransactions(ledger[n], miner, now)
  <2>1. new \in L
    BY <1>1 DEF Kept
  <2>2. SetLedger(n, new) /\ inbox' = Broadcast(inbox, n, <<NewBlock(ledger'[n].chain)>>)
        /\ UNCHANGED open
    BY <1>3 DEF Mine
  <2> HIDE DEF new
  <2>3. ledger' \in [Node -> L]
    BY <1>1, <2>1, <2>2, SetLedgerKeeps
  <2>4. ledger'[n].chain \in C
    BY <2>3 DEF Kept
  <2>5. NewBlock(ledger'[n].chain) \in Mail(C)
    BY <2>4, MailSent
  <2> QED BY <2>1, <2>2, <2>5, RequestKeeps
<1>4. ASSUME NEW d \in Dial, Open(d) PROVE Keeps(L, C)'
  <2>1. inbox' \in Boxes(C, open')
    BY <1>1, <1>4, OpenKeepsBoxes
  <2>2. open' \subseteq Dial /\ ledger' \in [Node -> L]
    BY <1>1, <1>4 DEF Open
  <2> QED BY <2>1, <2>2 DEF Keeps
<1>5. ASSUME NEW d \in Dial, NEW n \in Node, Receive(d, n) PROVE Keeps(L, C)'
  BY <1>5, ReceiveKeeps
<1>6. ASSUME NEW d \in Dial, Close(d) PROVE Keeps(L, C)'
  <2>1. Closed({d}) /\ ledger' = ledger
    BY <1>6 DEF Close
  <2>2. inbox' \in Boxes(C, open')
    BY <1>1, <2>1, ClosedKeepsBoxes
  <2>3. open' \subseteq Dial /\ ledger' \in [Node -> L]
    BY <1>1, <2>1 DEF Closed
  <2> QED BY <2>2, <2>3 DEF Keeps
<1>7. ASSUME NEW n \in Node, Restart(n) PROVE Keeps(L, C)'
  <2>1. Closed(Sockets(n)) /\ SetLedger(n, LoadState(ledger[n]))
    BY <1>7 DEF Restart
  <2>2. inbox' \in Boxes(C, open')
    BY <1>1, <2>1, ClosedKeepsBoxes
  <2>3. open' \subseteq Dial
    BY <1>1, <2>1 DEF Closed
  <2>4. LoadState(ledger[n]) \in L
    BY <1>1 DEF Kept
  <2>5. ledger' \in [Node -> L]
    BY <1>1, <2>1, <2>4, SetLedgerKeeps
  <2> QED BY <2>2, <2>3, <2>5 DEF Keeps
<1>8. CASE UNCHANGED vars
  <2>1. ledger' = ledger /\ open' = open /\ inbox' = inbox
    BY <1>8 DEF vars
  <2> QED BY <1>1, <2>1 DEF Keeps
<1> QED BY <1>2, <1>3, <1>4, <1>5, <1>6, <1>7, <1>8
        DEF Next, Request, Communication, Failure

-----------------------------------------------------------------------------
(* What one step of the network may do to the ledger of a node, where      *)
(* chains come from C.                                                     *)
LedgerStep(C, old, new) ==
    \/ new = old
    \/ \E t \in Transactions : new = AddTransaction(old, t)
    \/ \E txs \in Seq(Transactions) : new = Readmission(old, txs)[Len(txs)]
    \/ \E miner \in Miner, now \in Clock : new = MinePendingTransactions(old, miner, now)
    \/ \E c \in C : AcceptsBlock(old, c) /\ new = AddBlock(old, c)
    \/ \E c \in C : AcceptsChain(old, c) /\ new = ReplaceChain(old, c)
    \/ new = LoadState(old)

LEMMA SetLedgerSteps ==
    ASSUME NEW L, NEW C, ledger \in [Node -> L], NEW n \in Node, NEW led,
           SetLedger(n, led), LedgerStep(C, ledger[n], led), NEW k \in Node
    PROVE  LedgerStep(C, ledger[k], ledger'[k])
<1>1. CASE k = n
  <2>1. ledger'[k] = led
    BY <1>1 DEF SetLedger
  <2> QED BY <1>1, <2>1
<1>2. CASE k # n
  <2>1. ledger'[k] = ledger[k]
    BY <1>2 DEF SetLedger
  <2> QED BY <2>1 DEF LedgerStep
<1> QED BY <1>1, <1>2

LEMMA ReceiveSteps ==
    ASSUME NEW L, NEW C, Keeps(L, C), NEW d \in Dial, NEW n \in Node, Receive(d, n),
           NEW k \in Node
    PROVE  LedgerStep(C, ledger[k], ledger'[k])
<1> DEFINE m == Head(inbox[d][n])
           led == ledger[n]
<1>1. ledger \in [Node -> L] /\ inbox \in Boxes(C, open)
  BY DEF Keeps
<1>2. inbox[d][n] # <<>>
  BY DEF Receive, Receives, OnRequestChain, OnChain, OnNewBlock, OnNewTransaction,
         OnRequestPending, OnPending
<1>3. m \in Mail(C)
  BY <1>1, <1>2, TakenKeepsBoxes
<1>4. CASE UNCHANGED ledger
  BY <1>4 DEF LedgerStep
<1>5. CASE OnChain(d, n) /\ ledger' # ledger
  <2>1. m.data \in C
    BY <1>3, <1>5, MailData DEF OnChain, Receives
  <2>2. AcceptsChain(led, m.data) /\ SetLedger(n, ReplaceChain(led, m.data))
    BY <1>5 DEF OnChain, Data
  <2>3. LedgerStep(C, led, ReplaceChain(led, m.data))
    BY <2>1, <2>2 DEF LedgerStep
  <2> QED BY <1>1, <2>2, <2>3, SetLedgerSteps
<1>6. CASE OnNewBlock(d, n) /\ ledger' # ledger
  <2>1. m.data \in C
    BY <1>3, <1>6, MailData DEF OnNewBlock, Receives
  <2>2. AcceptsBlock(led, m.data) /\ SetLedger(n, AddBlock(led, m.data))
    BY <1>6 DEF OnNewBlock, Data
  <2>3. LedgerStep(C, led, AddBlock(led, m.data))
    BY <2>1, <2>2 DEF LedgerStep
  <2> QED BY <1>1, <2>2, <2>3, SetLedgerSteps
<1>7. ASSUME NEW txs \in Seq(Transactions), Incoming(d, n, txs)
      PROVE  LedgerStep(C, ledger[k], ledger'[k])
  <2>1. SetLedger(n, Readmission(led, txs)[Len(txs)])
    BY <1>7 DEF Incoming
  <2>2. LedgerStep(C, led, Readmission(led, txs)[Len(txs)])
    BY DEF LedgerStep
  <2> QED BY <1>1, <2>1, <2>2, SetLedgerSteps
<1>8. CASE OnNewTransaction(d, n)
  <2>1. m.data \in Transactions
    BY <1>3, <1>8, MailData DEF OnNewTransaction, Receives
  <2>2. <<m.data>> \in Seq(Transactions)
    <3> DEFINE t == m.data
    <3> HIDE DEF t
    <3>1. <<t>> \in Seq(Transactions)
      BY <2>1 DEF t
    <3> QED BY <3>1 DEF t
  <2>3. Incoming(d, n, <<m.data>>)
    BY <1>8 DEF OnNewTransaction, Data
  <2> QED BY <1>7, <2>2, <2>3
<1>9. CASE OnPending(d, n)
  <2>1. m.data \in Seq(Transactions)
    BY <1>3, <1>9, MailData DEF OnPending, Receives
  <2>2. Incoming(d, n, m.data)
    BY <1>9 DEF OnPending, Data
  <2> QED BY <1>7, <2>1, <2>2
<1>10. OnRequestChain(d, n) \/ OnRequestPending(d, n) => UNCHANGED ledger
  BY DEF OnRequestChain, OnRequestPending
<1> QED BY <1>4, <1>5, <1>6, <1>8, <1>9, <1>10 DEF Receive

LEMMA StepsOfLedgers ==
    ASSUME NEW L, NEW C, Keeps(L, C), [Next]_vars, NEW k \in Node
    PROVE  LedgerStep(C, ledger[k], ledger'[k])
<1>1. ledger \in [Node -> L]
  BY DEF Keeps
<1>2. CASE UNCHANGED ledger
  BY <1>2 DEF LedgerStep
<1>3. ASSUME NEW n \in Node, NEW t \in Transactions, SubmitTransaction(n, t)
      PROVE  LedgerStep(C, ledger[k], ledger'[k])
  <2>1. SetLedger(n, AddTransaction(ledger[n], t))
    BY <1>3 DEF SubmitTransaction
  <2>2. LedgerStep(C, ledger[n], AddTransaction(ledger[n], t))
    BY DEF LedgerStep
  <2> QED BY <1>1, <2>1, <2>2, SetLedgerSteps
<1>4. ASSUME NEW n \in Node, NEW miner \in Miner, NEW now \in Clock, Mine(n, miner, now)
      PROVE  LedgerStep(C, ledger[k], ledger'[k])
  <2>1. SetLedger(n, MinePendingTransactions(ledger[n], miner, now))
    BY <1>4 DEF Mine
  <2>2. LedgerStep(C, ledger[n], MinePendingTransactions(ledger[n], miner, now))
    BY DEF LedgerStep
  <2> QED BY <1>1, <2>1, <2>2, SetLedgerSteps
<1>5. ASSUME NEW n \in Node, Restart(n)
      PROVE  LedgerStep(C, ledger[k], ledger'[k])
  <2>1. SetLedger(n, LoadState(ledger[n]))
    BY <1>5 DEF Restart
  <2>2. LedgerStep(C, ledger[n], LoadState(ledger[n]))
    BY DEF LedgerStep
  <2> QED BY <1>1, <2>1, <2>2, SetLedgerSteps
<1>6. ASSUME NEW d \in Dial, Open(d) \/ Close(d) PROVE UNCHANGED ledger
  BY <1>6 DEF Open, Close
<1>7. UNCHANGED vars => UNCHANGED ledger
  BY DEF vars
<1> QED BY <1>2, <1>3, <1>4, <1>5, <1>6, <1>7, ReceiveSteps
        DEF Next, Request, Communication, Failure

-----------------------------------------------------------------------------
(* Whatever the wallets sign: chains that nodes have made, and ledgers on  *)
(* them.                                                                   *)
MadeChains == {c \in Seq(Block) : ProperChain(c)}

SoundNodes ==
    {led \in LedgerState :
        SoundLedger(led) /\ led.pendingTransactions \in Seq(Transactions)}

LEMMA TransactionsSigned == \A t \in Transactions : t \in Signed /\ t \in Transaction
BY NetworkAssumption DEF Signed

LEMMA TransactionsSeq ==
    ASSUME NEW p \in Seq(Transactions)
    PROVE  p \in Seq(Signed) /\ p \in Seq(Transaction)
BY TransactionsSigned

LEMMA AddKeepsTransactions ==
    ASSUME NEW led \in LedgerState, led.pendingTransactions \in Seq(Transactions),
           NEW t \in Transactions
    PROVE  AddTransaction(led, t).pendingTransactions \in Seq(Transactions)
<1> DEFINE p == led.pendingTransactions
           new == AddTransaction(led, t)
           q == [j \in DOMAIN p |-> IF j \in Replaced(p, t) THEN t ELSE p[j]]
<1>1. CASE ~Admissible(led, t)
  BY <1>1 DEF AddTransaction
<1>2. CASE Admissible(led, t) /\ Replaced(p, t) = {}
  <2>1. new.pendingTransactions = Append(p, t)
    BY <1>2 DEF AddTransaction, LedgerState
  <2> HIDE DEF p
  <2> QED BY <2>1 DEF p
<1>3. CASE Admissible(led, t) /\ Replaced(p, t) # {}
  <2>1. new = [led EXCEPT !.pendingTransactions = q]
    BY <1>3 DEF AddTransaction
  <2>2. q \in Seq(Transactions)
    <3>1. p \in Seq(Transactions)
      OBVIOUS
    <3> HIDE DEF p
    <3> QED BY <3>1
  <2> HIDE DEF q, new
  <2>3. new.pendingTransactions = q
    BY <2>1 DEF LedgerState
  <2> QED BY <2>2, <2>3 DEF new
<1> QED BY <1>1, <1>2, <1>3

LEMMA RemoveKeepsTransactions ==
    ASSUME NEW p \in Seq(Transactions), NEW txs
    PROVE  RemovePending(p, txs) \in Seq(Transactions)
<1> DEFINE keep == Range(p) \ Range(txs)
<1> HIDE DEF keep
<1>1. Subsequence(p, keep) \in Seq(Transactions)
  BY SubsequenceType
<1> QED BY <1>1 DEF RemovePending, keep

LEMMA AddKeepsNodes == Preserved(SoundNodes, Transactions)
<1> SUFFICES ASSUME NEW led \in SoundNodes, NEW t \in Transactions
             PROVE  AddTransaction(led, t) \in SoundNodes
  BY DEF Preserved
<1>1. SoundLedger(led) /\ led \in LedgerState /\ led.pendingTransactions \in Seq(Transactions)
  BY DEF SoundNodes
<1>2. SoundLedger(AddTransaction(led, t))
  BY <1>1, TransactionsSigned, AddTransactionKeepsSound
<1>3. AddTransaction(led, t).pendingTransactions \in Seq(Transactions)
  BY <1>1, AddKeepsTransactions
<1> QED BY <1>2, <1>3 DEF SoundNodes, SoundLedger

(* The last ledger of a readmission, for any set that addTransaction keeps. *)
LEMMA ReadmissionStays ==
    ASSUME NEW L, Preserved(L, Transactions), NEW base \in L, NEW txs \in Seq(Transactions)
    PROVE  Readmission(base, txs)[Len(txs)] \in L
<1>1. Readmits(Readmission(base, txs), base, txs, L)
  BY ReadmissionRuns
<1>2. Len(txs) \in 0 .. Len(txs)
  OBVIOUS
<1> QED BY <1>1, <1>2 DEF Readmits

(* replaceChain and loadState readmit over a ledger with an empty mempool. *)
LEMMA ReplaceChainStays ==
    ASSUME NEW L, Preserved(L, Transactions), NEW led,
           led.pendingTransactions \in Seq(Transactions), NEW chain,
           [chain |-> chain, pendingTransactions |-> <<>>, difficulty |-> Given(chain)] \in L
    PROVE  ReplaceChain(led, chain) \in L
<1> DEFINE p == led.pendingTransactions
           keep == {t \in Range(p) : ~HasTransactionInChain(chain, t)}
           old == Subsequence(p, keep)
           base == [chain |-> chain, pendingTransactions |-> <<>>, difficulty |-> Given(chain)]
<1>1. old \in Seq(Transactions)
  <2> HIDE DEF keep
  <2> QED BY SubsequenceType
<1>2. ReplaceChain(led, chain) = Readmission(base, old)[Len(old)]
  BY DEF ReplaceChain, Given
<1>3. base \in L
  OBVIOUS
<1> HIDE DEF base, old
<1> QED BY <1>1, <1>2, <1>3, ReadmissionStays

LEMMA LoadStays ==
    ASSUME NEW L, Preserved(L, Transactions), FreshLedger \in L, NEW file,
           file.pendingTransactions \in Seq(Transactions), LoadBase(file) \in L
    PROVE  LoadState(file) \in L
<1> DEFINE base == LoadBase(file)
           p == file.pendingTransactions
<1>1. base \in L /\ p \in Seq(Transactions)
  OBVIOUS
<1> HIDE DEF base, p
<1>2. Readmission(base, p)[Len(p)] \in L
  BY <1>1, ReadmissionStays
<1> QED BY <1>2 DEF LoadState, base, p

(* Neither admission nor readmission touches the chain. *)
On(L, c) == {led \in L : led.chain = c}

LEMMA AddKeepsChain ==
    ASSUME NEW led \in LedgerState, NEW t
    PROVE  AddTransaction(led, t).chain = led.chain
BY DEF AddTransaction, LedgerState

LEMMA AddStaysOn ==
    ASSUME NEW L, L \subseteq LedgerState, Preserved(L, Transactions), NEW c
    PROVE  Preserved(On(L, c), Transactions)
BY AddKeepsChain DEF Preserved, On

LEMMA ReadmissionOn ==
    ASSUME NEW L, L \subseteq LedgerState, Preserved(L, Transactions), NEW led \in L,
           NEW txs \in Seq(Transactions)
    PROVE  Readmission(led, txs)[Len(txs)].chain = led.chain
<1>1. led \in On(L, led.chain)
  BY DEF On
<1>2. Readmission(led, txs)[Len(txs)] \in On(L, led.chain)
  BY <1>1, AddStaysOn, ReadmissionStays
<1> QED BY <1>2 DEF On

LEMMA ReplaceChainOn ==
    ASSUME NEW L, L \subseteq LedgerState, Preserved(L, Transactions), NEW led,
           led.pendingTransactions \in Seq(Transactions), NEW c,
           [chain |-> c, pendingTransactions |-> <<>>, difficulty |-> Given(c)] \in L
    PROVE  ReplaceChain(led, c).chain = c
<1> DEFINE base == [chain |-> c, pendingTransactions |-> <<>>, difficulty |-> Given(c)]
<1>1. base \in On(L, c)
  BY DEF On
<1>2. ReplaceChain(led, c) \in On(L, c)
  BY <1>1, AddStaysOn, ReplaceChainStays
<1> QED BY <1>2 DEF On

LEMMA EmptyOnMade ==
    ASSUME NEW c \in MadeChains
    PROVE  [chain |-> c, pendingTransactions |-> <<>>, difficulty |-> Given(c)] \in SoundNodes
<1> DEFINE base == [chain |-> c, pendingTransactions |-> <<>>, difficulty |-> Given(c)]
<1>1. <<>> \in Seq(Acceptable) /\ <<>> \in Seq(Transactions) /\ ProperChain(c)
  BY DEF MadeChains
<1>2. SoundLedger(base)
  BY <1>1, SoundOn
<1>3. base.pendingTransactions \in Seq(Transactions)
  BY <1>1
<1> HIDE DEF base
<1>4. base \in SoundNodes
  BY <1>2, <1>3 DEF SoundNodes, SoundLedger
<1> QED BY <1>4 DEF base

LEMMA SoundNodesKept == Kept(SoundNodes, MadeChains)
<1>1. Preserved(SoundNodes, Transactions)
  BY AddKeepsNodes
<1>2. FreshLedger \in SoundNodes
  <2>1. FreshLedger.pendingTransactions \in Seq(Transactions)
    BY DEF FreshLedger
  <2> QED BY <2>1, FreshLedgerIsSound DEF SoundNodes, SoundLedger
<1>3. ASSUME NEW led \in SoundNodes
      PROVE  /\ SoundLedger(led) /\ led.chain \in MadeChains
             /\ led.pendingTransactions \in Seq(Transactions)
  BY DEF SoundNodes, SoundLedger, ProperChain, MadeChains
<1>4. ASSUME NEW led \in SoundNodes PROVE LoadState(led) \in SoundNodes
  <2>1. SoundLedger(LoadBase(led))
    BY <1>3, LoadBaseIsSound
  <2>2. LoadBase(led).pendingTransactions \in Seq(Transactions)
    BY DEF LoadBase
  <2>3. LoadBase(led) \in SoundNodes
    BY <2>1, <2>2 DEF SoundNodes, SoundLedger
  <2> QED BY <1>1, <1>2, <1>3, <2>3, LoadStays
<1>5. ASSUME NEW led \in SoundNodes, NEW miner \in Miner, NEW now \in Clock
      PROVE  MinePendingTransactions(led, miner, now) \in SoundNodes
  <2> DEFINE new == MinePendingTransactions(led, miner, now)
  <2>1. SoundLedger(new)
    BY <1>3, MineKeepsSound, NetworkAssumption
  <2>2. new.pendingTransactions
          = RemovePending(led.pendingTransactions, NextBlock(led, miner, now).transactions)
    BY DEF MinePendingTransactions
  <2>3. new.pendingTransactions \in Seq(Transactions)
    BY <1>3, <2>2, RemoveKeepsTransactions
  <2> HIDE DEF new
  <2>4. new \in SoundNodes
    BY <2>1, <2>3 DEF SoundNodes, SoundLedger
  <2> QED BY <2>4 DEF new
<1>6. ASSUME NEW led \in SoundNodes, NEW c \in MadeChains, AcceptsBlock(led, c)
      PROVE  AddBlock(led, c) \in SoundNodes
  <2> DEFINE new == AddBlock(led, c)
  <2>1. SoundLedger(new)
    BY <1>3, <1>6, AddBlockKeepsSound DEF MadeChains
  <2>2. new.pendingTransactions
          = RemovePending(led.pendingTransactions, LastBlock(c).transactions)
    BY DEF AddBlock
  <2>3. new.pendingTransactions \in Seq(Transactions)
    BY <1>3, <2>2, RemoveKeepsTransactions
  <2> HIDE DEF new
  <2>4. new \in SoundNodes
    BY <2>1, <2>3 DEF SoundNodes, SoundLedger
  <2> QED BY <2>4 DEF new
<1>7. ASSUME NEW led \in SoundNodes, NEW c \in MadeChains
      PROVE  ReplaceChain(led, c) \in SoundNodes
  BY <1>1, <1>3, EmptyOnMade, ReplaceChainStays
<1> QED BY <1>1, <1>2, <1>3, <1>4, <1>5, <1>6, <1>7 DEF Kept

-----------------------------------------------------------------------------
LEMMA InitSound == Init => Keeps(SoundNodes, MadeChains)
BY SoundNodesKept, InitKeeps

LEMMA StepSound ==
    Keeps(SoundNodes, MadeChains) /\ [Next]_vars => Keeps(SoundNodes, MadeChains)'
BY SoundNodesKept, StepKeeps

(* The inductive invariant: every node has a sound ledger, and every chain *)
(* under way was made by nodes, block by block.  Of the ledgers alone none *)
(* of the properties below is inductive: a block or a chain is taken as it *)
(* comes.                                                                  *)
THEOREM Invariance == Spec => []Keeps(SoundNodes, MadeChains)
<1> QED BY InitSound, StepSound, PTL DEF Spec

LEMMA MailIsMessages == Mail(MadeChains) \subseteq Message
BY TransactionsSigned, TransactionsSeq DEF Mail, Message, MadeChains

LEMMA SoundIsTyped == Keeps(SoundNodes, MadeChains) => TypeOK
<1> SUFFICES ASSUME Keeps(SoundNodes, MadeChains) PROVE TypeOK
  OBVIOUS
<1> DEFINE M == Mail(MadeChains)
<1>1. ledger \in [Node -> LedgerState] /\ open \subseteq Dial
  BY DEF Keeps, SoundNodes
<1>2. /\ inbox \in [Dial -> [Node -> Seq(M)]]
      /\ \A d \in Dial, n \in Node : inbox[d][n] # <<>> => d \in open /\ n \in Ends(d)
  BY DEF Keeps, Boxes
<1>3. M \subseteq Message
  BY MailIsMessages
<1> HIDE DEF M
<1>4. inbox \in [Dial -> [Node -> Seq(Message)]]
  <2>1. Seq(M) \subseteq Seq(Message)
    BY <1>3
  <2> QED BY <1>2, <2>1
<1> QED BY <1>1, <1>2, <1>4 DEF TypeOK

(* The ledgers and the messages keep their types, and nothing waits but on *)
(* an open socket, for one of its ends.                                    *)
THEOREM TypeCorrect == Spec => []TypeOK
<1> QED BY Invariance, SoundIsTyped, PTL

LEMMA SoundDifficulty == Keeps(SoundNodes, MadeChains) => DifficultyFromChain
BY DEF Keeps, SoundNodes, SoundLedger, Given, DifficultyFromChain

(* All nodes with a chain agree on the difficulty of the next block,       *)
(* however each of them came to the chain.                                 *)
THEOREM DifficultyAgreed == Spec => []DifficultyFromChain
<1> QED BY Invariance, SoundDifficulty, PTL

LEMMA SoundIsValid ==
    ASSUME Keeps(SoundNodes, MadeChains), NEW n \in Node, ReceiversKnown(ledger[n].chain)
    PROVE  IsValidChain(ledger[n].chain)
<1>1. ProperChain(ledger[n].chain)
  BY DEF Keeps, SoundNodes, SoundLedger
<1> QED BY <1>1, ProperIsValid

(* addBlock asks less than isValidChain: still a node whose chain rewards  *)
(* addresses only has a valid chain, since nodes make no other blocks.     *)
THEOREM RewardingAddressesIsValid ==
    Spec => [](\A n \in Node : ReceiversKnown(ledger[n].chain) => IsValidChain(ledger[n].chain))
<1>1. Keeps(SoundNodes, MadeChains)
        => \A n \in Node : ReceiversKnown(ledger[n].chain) => IsValidChain(ledger[n].chain)
  BY SoundIsValid
<1> QED BY <1>1, Invariance, PTL

(* Where only addresses mine, every chain of every node is valid.          *)
THEOREM AllChainsValid ==
    ASSUME Miner \subseteq Address
    PROVE  Spec => []ChainsValid
<1>1. Keeps(SoundNodes, MadeChains) => ChainsValid
  <2> SUFFICES ASSUME Keeps(SoundNodes, MadeChains), NEW n \in Node
               PROVE  IsValidChain(ledger[n].chain)
    BY DEF ChainsValid
  <2>1. ledger[n].chain \in Seq(Block)
    BY DEF Keeps, SoundNodes, SoundLedger, ProperChain
  <2> QED BY <2>1, KnownReceivers, SoundIsValid
<1> QED BY <1>1, Invariance, PTL

-----------------------------------------------------------------------------
(* Where no two signed transactions share sender and nonce: of a block or  *)
(* a chain of another node, what concerns a sender is what is pending of   *)
(* it, or comes after.  With two signatures under one nonce a block may    *)
(* confirm the one and leave the other pending.                            *)
UniqueNonces == \A t, u \in Transactions : t.from = u.from /\ t.nonce = u.nonce => t = u

(* What addresses have in the chain, wallets have signed. *)
Submitted(chain) ==
    \A i \in 1 .. Len(chain) : \A j \in 1 .. Len(chain[i].transactions) :
        chain[i].transactions[j].from \in Address => chain[i].transactions[j] \in Transactions

(* Nobody has taken more out of the chain than it gives. *)
Covered(chain) == \A a \in Address : 0 <= Balance(chain, a)

PaidChains == {c \in MadeChains : Submitted(c) /\ Covered(c)}

FitNodes ==
    {led \in LedgerState :
        /\ TidyLedger(led)
        /\ GoodLedger(led)
        /\ led.pendingTransactions \in Seq(Transactions)
        /\ DataCapped(led.pendingTransactions)
        /\ led.chain \in PaidChains}

LEMMA FitFields ==
    ASSUME NEW led \in FitNodes
    PROVE  /\ TidyLedger(led) /\ SoundLedger(led) /\ GoodLedger(led)
           /\ Tidy(led.chain, led.pendingTransactions)
           /\ led.pendingTransactions \in Seq(Transactions)
           /\ led.pendingTransactions \in Seq(Signed)
           /\ led.pendingTransactions \in Seq(Transaction)
           /\ DataCapped(led.pendingTransactions)
           /\ led.chain \in PaidChains /\ led.chain \in Seq(Block) /\ ProperChain(led.chain)
<1>1. TidyLedger(led) /\ GoodLedger(led) /\ led.pendingTransactions \in Seq(Transactions)
      /\ led.chain \in PaidChains /\ DataCapped(led.pendingTransactions)
  BY DEF FitNodes
<1>2. led.chain \in Seq(Block) /\ ProperChain(led.chain)
  BY <1>1 DEF PaidChains, MadeChains
<1> QED BY <1>1, <1>2, TransactionsSeq DEF TidyLedger

LEMMA GoodIsPaid ==
    ASSUME NEW led, GoodLedger(led)
    PROVE  Covered(led.chain)
<1> DEFINE p == led.pendingTransactions
           c == led.chain
<1>1. c \in Seq(Block) /\ p \in Seq(Transaction)
  BY LedgerFields DEF GoodLedger
<1>2. \A a \in Address : Spent(p, a) <= Balance(c, a)
  BY DEF GoodLedger, Funded
<1> HIDE DEF c, p
<1>3. ASSUME NEW a \in Address PROVE 0 <= Balance(c, a)
  <2>1. Spent(p, a) \in Nat /\ Balance(c, a) \in Int
    BY <1>1, SpentNat, BalanceType
  <2> QED BY <2>1, <1>2
<1> QED BY <1>3 DEF Covered, c

LEMMA SubmittedAppend ==
    ASSUME NEW chain \in Seq(Block), Submitted(chain), NEW block \in Block,
           NEW sel \in Seq(Transactions), NEW reward, reward.from = Coinbase,
           block.transactions = Append(sel, reward)
    PROVE  Submitted(Append(chain, block))
<1> DEFINE u == Append(chain, block)
           n == Len(chain)
           txs == block.transactions
<1>1. /\ n \in Nat /\ Len(u) = n + 1 /\ u[n + 1] = block
      /\ \A i \in 1 .. n : u[i] = chain[i]
  OBVIOUS
<1>2. ASSUME NEW j \in 1 .. Len(txs), txs[j].from \in Address PROVE txs[j] \in Transactions
  <2>1. txs[j].from # Coinbase
    BY <1>2, LedgerAssumption
  <2>2. txs = Append(sel, reward)
    OBVIOUS
  <2> HIDE DEF txs
  <2>3. j \in 1 .. Len(sel) \/ txs[j] = reward
    BY <2>2
  <2>4. j \in 1 .. Len(sel) => txs[j] = sel[j]
    BY <2>2
  <2> QED BY <2>1, <2>3, <2>4
<1> HIDE DEF u
<1>3. ASSUME NEW i \in 1 .. Len(u), NEW j \in 1 .. Len(u[i].transactions),
             u[i].transactions[j].from \in Address
      PROVE  u[i].transactions[j] \in Transactions
  <2>1. CASE i = n + 1
    BY <1>1, <1>2, <1>3, <2>1
  <2>2. CASE i # n + 1
    <3>1. i \in 1 .. n
      BY <1>1, <2>2
    <3>2. u[i] = chain[i]
      BY <1>1, <3>1
    <3> QED BY <1>3, <3>1, <3>2 DEF Submitted, n
  <2> QED BY <2>1, <2>2
<1> QED BY <1>3 DEF Submitted, u

(* What is admitted comes last: it is of a nonce that nothing pending has. *)
LEMMA AddsAtTheEnd ==
    ASSUME UniqueNonces, NEW led \in LedgerState,
           led.pendingTransactions \in Seq(Transactions),
           NEW t \in Transactions, Admissible(led, t)
    PROVE  /\ FitsAtTheEnd(led, t)
           /\ AddTransaction(led, t) = [led EXCEPT !.pendingTransactions = Append(@, t)]
           /\ AddTransaction(led, t).pendingTransactions = Append(led.pendingTransactions, t)
<1> DEFINE p == led.pendingTransactions
<1>1. Replaced(p, t) = {}
  <2> SUFFICES ASSUME NEW j \in Replaced(p, t) PROVE FALSE
    OBVIOUS
  <2>1. j \in DOMAIN p /\ p[j].from = t.from /\ p[j].nonce = t.nonce
    BY DEF Replaced, IndicesFrom
  <2>2. p[j] \in Transactions /\ p[j] # t
    BY <2>1 DEF Admissible
  <2> QED BY <2>1, <2>2 DEF UniqueNonces
<1>2. FitsAtTheEnd(led, t)
  BY <1>1 DEF Admissible
<1>3. AddTransaction(led, t) = [led EXCEPT !.pendingTransactions = Append(@, t)]
  BY <1>1 DEF AddTransaction
<1>4. [led EXCEPT !.pendingTransactions = Append(@, t)].pendingTransactions = Append(p, t)
  BY DEF LedgerState
<1> QED BY <1>2, <1>3, <1>4

LEMMA AddKeepsFit ==
    ASSUME UniqueNonces
    PROVE  Preserved(FitNodes, Transactions)
<1> SUFFICES ASSUME NEW led \in FitNodes, NEW t \in Transactions
             PROVE  AddTransaction(led, t) \in FitNodes
  BY DEF Preserved
<1> DEFINE new == AddTransaction(led, t)
<1>1. TidyLedger(led) /\ GoodLedger(led) /\ led.pendingTransactions \in Seq(Transactions)
      /\ led.chain \in PaidChains /\ led \in LedgerState /\ t \in Signed
  BY FitFields, TransactionsSigned DEF GoodLedger
<1>2. TidyLedger(new) /\ GoodLedger(new)
  BY <1>1, AddTransactionKeepsTidy, AddTransactionKeepsGood
<1>3. new.pendingTransactions \in Seq(Transactions)
  BY <1>1, AddKeepsTransactions
<1>4. new.chain \in PaidChains
  BY <1>1, AddKeepsChain
<1>5. DataCapped(new.pendingTransactions)
  <2>1. led.pendingTransactions \in Seq(Transaction) /\ DataCapped(led.pendingTransactions)
        /\ t \in Transaction
    BY FitFields, TransactionsSigned
  <2>2. CASE Admissible(led, t)
    <3>1. FitsAtTheEnd(led, t) /\ new.pendingTransactions = Append(led.pendingTransactions, t)
      BY <1>1, <2>2, AddsAtTheEnd
    <3> QED BY <2>1, <3>1, AppendIsCapped
  <2>3. CASE ~Admissible(led, t)
    BY <2>1, <2>3 DEF AddTransaction
  <2> QED BY <2>2, <2>3
<1> HIDE DEF new
<1>6. new \in FitNodes
  BY <1>2, <1>3, <1>4, <1>5 DEF FitNodes, GoodLedger
<1> QED BY <1>6 DEF new

LEMMA FreshIsFit == FreshLedger \in FitNodes
<1>1. FreshLedger.pendingTransactions = <<>> /\ FreshLedger.chain = <<Genesis>>
  BY DEF FreshLedger
<1>2. <<Genesis>> \in Seq(Block) /\ Genesis.transactions = <<>>
  BY GenesisBlock
<1>3. Submitted(<<Genesis>>)
  BY <1>2 DEF Submitted
<1>4. FreshLedger.chain \in PaidChains
  BY <1>1, <1>2, <1>3, FreshChainIsProper, FreshLedgerIsGood, GoodIsPaid
     DEF PaidChains, MadeChains
<1>5. FreshLedger.pendingTransactions \in Seq(Transactions)
  BY <1>1
<1>6. DataCapped(FreshLedger.pendingTransactions)
  BY <1>1, EmptyIsCapped
<1> QED BY <1>4, <1>5, <1>6, FreshLedgerIsTidy, FreshLedgerIsGood DEF FitNodes, GoodLedger

LEMMA EmptyIsFit ==
    ASSUME NEW c \in PaidChains
    PROVE  [chain |-> c, pendingTransactions |-> <<>>, difficulty |-> Given(c)] \in FitNodes
<1> DEFINE base == [chain |-> c, pendingTransactions |-> <<>>, difficulty |-> Given(c)]
<1>1. c \in MadeChains /\ ProperChain(c) /\ Covered(c)
  BY DEF PaidChains, MadeChains
<1>2. base \in SoundNodes
  BY <1>1, EmptyOnMade
<1>3. base.chain = c /\ base.pendingTransactions = <<>>
  OBVIOUS
<1> HIDE DEF base
<1>4. SoundLedger(base) /\ base \in LedgerState
  BY <1>2 DEF SoundNodes
<1>5. TidyLedger(base)
  BY <1>3, <1>4, EmptyIsTidy DEF TidyLedger
<1>6. GoodLedger(base)
  <2>1. base.chain # <<>> /\ \A a \in Address : Balance(base.chain, a) >= 0
    <3>1. \A a \in Address : Balance(c, a) >= 0
      <4> TAKE a \in Address
      <4>1. c \in Seq(Block)
        BY <1>1 DEF ProperChain
      <4>2. Balance(c, a) \in Int /\ 0 <= Balance(c, a)
        BY <1>1, <4>1, BalanceType DEF Covered
      <4> QED BY <4>2
    <3> QED BY <1>1, <1>3, <3>1 DEF ProperChain
  <2> QED BY <1>3, <1>4, <2>1, NothingIsGood
<1>7. base.pendingTransactions \in Seq(Transactions) /\ DataCapped(base.pendingTransactions)
  BY <1>3, EmptyIsCapped
<1>8. base \in FitNodes
  BY <1>3, <1>4, <1>5, <1>6, <1>7 DEF FitNodes
<1> QED BY <1>8 DEF base

LEMMA MineKeepsFit ==
    ASSUME NEW led \in FitNodes, NEW miner \in Miner, NEW now \in Clock
    PROVE  MinePendingTransactions(led, miner, now) \in FitNodes
<1> DEFINE new == MinePendingTransactions(led, miner, now)
           p == led.pendingTransactions
           c == led.chain
           block == NextBlock(led, miner, now)
<1>1. now \in Nat /\ now \in Nat \ {0}
  BY NetworkAssumption
<1>2. TidyLedger(new) /\ GoodLedger(new)
  BY <1>1, FitFields, MineKeepsTidy, MineKeepsGood
<1>3. new.chain = Append(c, block) /\ new.pendingTransactions = RemovePending(p, block.transactions)
  BY DEF MinePendingTransactions
<1> HIDE DEF new
<1>4. new.pendingTransactions \in Seq(Transactions)
  BY <1>3, FitFields, RemoveKeepsTransactions
<1>5. block \in Block /\ \E sel, reward : sel \in Orders(led) /\ MadeOf(c, block, sel, reward)
  BY <1>1, FitFields, NextBlockMade
<1> HIDE DEF block
<1>6. PICK sel, reward : sel \in Orders(led) /\ MadeOf(c, block, sel, reward)
  BY <1>5
<1>7. sel \in Seq(Transactions)
  <2>1. sel \in Seq(Signed) /\ \A k \in 1 .. Len(sel) : \E j \in 1 .. Len(p) : sel[k] = p[j]
    BY <1>6 DEF Orders, Selections, MadeOf
  <2>2. p \in Seq(Transactions)
    BY FitFields
  <2> HIDE DEF p
  <2>3. \A k \in 1 .. Len(sel) : sel[k] \in Transactions
    BY <2>1, <2>2
  <2> QED BY <2>1, <2>3
<1>8. Submitted(Append(c, block))
  <2>1. c \in Seq(Block) /\ Submitted(c)
    BY FitFields DEF PaidChains
  <2>2. reward.from = Coinbase /\ block.transactions = Append(sel, reward)
    BY <1>6 DEF MadeOf
  <2> HIDE DEF c
  <2> QED BY <1>5, <1>7, <2>1, <2>2, SubmittedAppend
<1>9. new.chain \in PaidChains
  <2>1. ProperChain(new.chain) /\ new.chain \in Seq(Block)
    BY <1>2 DEF TidyLedger, SoundLedger, ProperChain
  <2>2. Covered(new.chain)
    BY <1>2, GoodIsPaid
  <2> QED BY <1>3, <1>8, <2>1, <2>2 DEF PaidChains, MadeChains
<1>10. DataCapped(new.pendingTransactions)
  BY <1>3, FitFields, RemoveIsCapped DEF GoodLedger
<1>11. new \in FitNodes
  BY <1>2, <1>4, <1>9, <1>10 DEF FitNodes, GoodLedger
<1> QED BY <1>11 DEF new

(* A block that is accepted comes after the chain of the ledger. *)
LEMMA LastOfAccepted ==
    ASSUME NEW led, NEW c \in Seq(Block), AcceptsBlock(led, c)
    PROVE  c[Len(c)] \in Block /\ c = Append(led.chain, c[Len(c)])
<1> DEFINE n == Len(c)
<1>1. n \in Nat /\ n > 1 /\ SubSeq(c, 1, n - 1) = led.chain
  BY DEF AcceptsBlock
<1>2. n \in 1 .. n /\ c[n] \in Block
  BY <1>1
<1>3. SubSeq(c, 1, n) = Append(SubSeq(c, 1, n - 1), c[n])
  BY <1>2, PrefixAppend
<1>4. SubSeq(c, 1, n) = c
  BY PrefixWhole
<1> QED BY <1>1, <1>2, <1>3, <1>4

(* addBlock of another node's block. *)
LEMMA AddBlockKeepsFit ==
    ASSUME UniqueNonces, NEW led \in FitNodes, NEW c \in PaidChains, AcceptsBlock(led, c)
    PROVE  AddBlock(led, c) \in FitNodes
<1> DEFINE new == AddBlock(led, c)
           p == led.pendingTransactions
           chain == led.chain
           n == Len(c)
           block == c[n]
           left == RemovePending(p, block.transactions)
<1>1. c \in Seq(Block) /\ ProperChain(c) /\ Submitted(c) /\ Covered(c) /\ n \in Nat /\ n > 1
      /\ SubSeq(c, 1, n - 1) = chain
  BY DEF PaidChains, MadeChains, AcceptsBlock
<1>2. n \in 2 .. n /\ n \in 1 .. n /\ block \in Block
  BY <1>1
<1>3. c = Append(chain, block)
  BY <1>1, LastOfAccepted
<1>4. PICK sel, reward : MadeOf(chain, block, sel, reward)
  BY <1>1, <1>2 DEF ProperChain, Follows
<1>5. new.chain = c /\ new.pendingTransactions = left
  BY DEF AddBlock, LastBlock
<1>6. SoundLedger(new)
  BY <1>1, FitFields, AddBlockKeepsSound
<1> HIDE DEF new
<1>7. /\ p \in Seq(Signed) /\ p \in Seq(Transactions) /\ chain \in Seq(Block) /\ Tidy(chain, p)
      /\ \A a \in Address : Spent(p, a) <= Balance(chain, a)
  BY FitFields DEF GoodLedger, Funded
<1>8. /\ sel \in Seq(Signed) /\ InOrder(chain, sel) /\ reward \in Transaction
      /\ reward.from = Coinbase /\ block.transactions = Append(sel, reward)
  BY <1>4 DEF MadeOf
<1>9. Submitted(c) => \A k \in 1 .. Len(sel) : sel[k] \in Transactions
  <2> DEFINE txs == block.transactions
  <2>1. \A j \in 1 .. Len(txs) : Submitted(c) /\ txs[j].from \in Address => txs[j] \in Transactions
    BY <1>2 DEF Submitted
  <2>2. txs = Append(sel, reward)
    BY <1>8
  <2> HIDE DEF txs
  <2>3. \A k \in 1 .. Len(sel) : k \in 1 .. Len(txs) /\ txs[k] = sel[k] /\ sel[k] \in Signed
    BY <1>8, <2>2
  <2> QED BY <2>1, <2>3 DEF Signed
<1> HIDE DEF block, p, chain
<1>10. Agree(p, sel)
  <2>1. \A i \in 1 .. Len(p) : p[i] \in Transactions
    BY <1>7
  <2> QED BY <1>1, <1>9, <2>1 DEF Agree, UniqueNonces
<1>11. Tidy(c, left)
  BY <1>2, <1>3, <1>7, <1>8, <1>10, BlockKeepsTidy
<1>12. \A a \in Address : Spent(left, a) <= Balance(c, a)
  <2> TAKE a \in Address
  <2>1. 0 <= Balance(Append(chain, block), a) /\ Spent(p, a) <= Balance(chain, a)
    BY <1>1, <1>3, <1>7 DEF Covered
  <2>2. InOrder(chain, p)
    BY <1>7 DEF Tidy
  <2>3. Spent(left, a) <= Balance(Append(chain, block), a)
    BY <1>2, <1>7, <1>8, <1>10, <2>1, <2>2, BlockLeavesPayable
  <2> QED BY <1>3, <2>3
<1>13. left \in Seq(Transactions) /\ left \in Seq(Signed) /\ left \in Seq(Transaction)
  BY <1>7, RemoveKeepsTransactions, TransactionsSeq
<1>14. DataCapped(left)
  BY FitFields, RemoveIsCapped DEF GoodLedger, left, p
<1>15. Distinct(left)
  <2> HIDE DEF left
  <2> QED BY <1>1, <1>11, <1>13, InOrderDistinct DEF Tidy
<1> HIDE DEF left, n
<1>16. TidyLedger(new)
  BY <1>5, <1>6, <1>11 DEF TidyLedger
<1>17. GoodLedger(new)
  BY <1>1, <1>5, <1>6, <1>12, <1>13, <1>15 DEF GoodLedger, Funded, SoundLedger, ProperChain
<1>18. new \in FitNodes
  BY <1>1, <1>5, <1>13, <1>14, <1>16, <1>17 DEF FitNodes, GoodLedger
<1> QED BY <1>18 DEF new

LEMMA FitNodesKept ==
    ASSUME UniqueNonces
    PROVE  Kept(FitNodes, PaidChains)
<1>1. ASSUME NEW led \in FitNodes PROVE LoadState(led) \in FitNodes
  <2> DEFINE base == LoadBase(led)
  <2>1. SoundLedger(base) /\ GoodLedger(base)
    BY <1>1, FitFields, LoadBaseIsSound, LoadBaseIsGood
  <2>2. base.chain = led.chain /\ base.pendingTransactions = <<>>
    BY DEF LoadBase
  <2> HIDE DEF base
  <2>3. TidyLedger(base)
    BY <2>1, <2>2, EmptyIsTidy DEF TidyLedger
  <2>4. base.pendingTransactions \in Seq(Transactions) /\ DataCapped(base.pendingTransactions)
    BY <2>2, EmptyIsCapped
  <2>5. base \in FitNodes
    BY <1>1, <2>1, <2>2, <2>3, <2>4, FitFields DEF FitNodes, SoundLedger
  <2> QED BY <1>1, <2>5, AddKeepsFit, FreshIsFit, FitFields, LoadStays DEF base
<1>2. ASSUME NEW led \in FitNodes, NEW c \in PaidChains PROVE ReplaceChain(led, c) \in FitNodes
  BY AddKeepsFit, EmptyIsFit, FitFields, ReplaceChainStays
<1> QED BY <1>1, <1>2, AddKeepsFit, FreshIsFit, FitFields, MineKeepsFit, AddBlockKeepsFit DEF Kept

LEMMA FitIsMempoolsFit == Keeps(FitNodes, PaidChains) => MempoolsFit
<1> SUFFICES ASSUME Keeps(FitNodes, PaidChains), NEW n \in Node, NEW a \in Address
             PROVE  LET pending == ledger[n].pendingTransactions
                        chain   == ledger[n].chain
                    IN  /\ Spent(pending, a) <= Balance(chain, a)
                        /\ {pending[j].nonce : j \in IndicesFrom(pending, a)}
                             = ConfirmedNonce(chain, a) .. NextNonce(ledger[n], a) - 1
  BY DEF MempoolsFit
<1>1. ledger[n] \in FitNodes
  BY DEF Keeps
<1>2. GoodLedger(ledger[n]) /\ InOrder(ledger[n].chain, ledger[n].pendingTransactions)
      /\ ledger[n] \in LedgerState
  BY <1>1, FitFields DEF Tidy, GoodLedger
<1> QED BY <1>2, InOrderNonces DEF GoodLedger, Funded

(* Every node's mempool is payable and gapless over its chain, also after  *)
(* a block or a chain that other nodes have made.                          *)
THEOREM MempoolsPayable ==
    ASSUME UniqueNonces
    PROVE  Spec => []MempoolsFit
<1>1. Init => Keeps(FitNodes, PaidChains)
  BY FitNodesKept, InitKeeps
<1>2. Keeps(FitNodes, PaidChains) /\ [Next]_vars => Keeps(FitNodes, PaidChains)'
  BY FitNodesKept, StepKeeps
<1> QED BY <1>1, <1>2, FitIsMempoolsFit, PTL DEF Spec

(* No chain takes more from an address than it gives it, though no chain   *)
(* is asked for its balances: only the nonces keep an address from         *)
(* spending twice what it has.                                             *)
THEOREM OverdraftNeedsSharedNonce ==
    ASSUME UniqueNonces
    PROVE  Spec => []NoOverdraft
<1>1. Init => Keeps(FitNodes, PaidChains)
  BY FitNodesKept, InitKeeps
<1>2. Keeps(FitNodes, PaidChains) /\ [Next]_vars => Keeps(FitNodes, PaidChains)'
  BY FitNodesKept, StepKeeps
<1>3. Keeps(FitNodes, PaidChains) => NoOverdraft
  <2> SUFFICES ASSUME Keeps(FitNodes, PaidChains), NEW n \in Node, NEW a \in Address
               PROVE  Balance(ledger[n].chain, a) >= 0
    BY DEF NoOverdraft
  <2>1. ledger[n] \in FitNodes
    BY DEF Keeps
  <2>2. ledger[n].chain \in PaidChains /\ ledger[n].chain \in Seq(Block)
    BY <2>1, FitFields
  <2>3. 0 <= Balance(ledger[n].chain, a) /\ Balance(ledger[n].chain, a) \in Int
    BY <2>2, BalanceType DEF PaidChains, Covered
  <2> QED BY <2>3
<1> QED BY <1>1, <1>2, <1>3, PTL DEF Spec

-----------------------------------------------------------------------------
(* What a step may do to such a ledger. *)

LEMMA FitReloads ==
    ASSUME Miner \subseteq Address, NEW led \in FitNodes
    PROVE  LoadState(led) = led
<1>1. ReceiversKnown(led.chain)
  BY FitFields, KnownReceivers
<1>2. Reloadable(led)
  BY <1>1, FitFields DEF Reloadable, DataCapped
<1> QED BY <1>2, FitFields, LoadKeepsLedger

LEMMA WorkStep ==
    ASSUME UniqueNonces, Miner \subseteq Address, NEW led \in FitNodes, NEW new,
           LedgerStep(PaidChains, led, new)
    PROVE  new.chain = led.chain \/ ChainWork(new.chain) > ChainWork(led.chain)
<1>1. led.chain \in Seq(Block) /\ led \in LedgerState /\ FitNodes \subseteq LedgerState
  BY FitFields DEF FitNodes
<1>2. ASSUME NEW t \in Transactions, new = AddTransaction(led, t) PROVE new.chain = led.chain
  BY <1>1, <1>2, AddKeepsChain
<1>3. ASSUME NEW txs \in Seq(Transactions), new = Readmission(led, txs)[Len(txs)]
      PROVE  new.chain = led.chain
  BY <1>1, <1>3, AddKeepsFit, ReadmissionOn
<1>4. ASSUME NEW miner \in Miner, NEW now \in Clock,
             new = MinePendingTransactions(led, miner, now)
      PROVE  ChainWork(new.chain) > ChainWork(led.chain)
  <2>1. new.chain = Append(led.chain, NextBlock(led, miner, now))
    BY <1>4 DEF MinePendingTransactions
  <2>2. NextBlock(led, miner, now) \in Block
    BY FitFields, NextBlockMade, NetworkAssumption
  <2> QED BY <1>1, <2>1, <2>2, WorkAppend
<1>5. ASSUME NEW c \in PaidChains, AcceptsBlock(led, c), new = AddBlock(led, c)
      PROVE  ChainWork(new.chain) > ChainWork(led.chain)
  <2>1. new.chain = c
    BY <1>5 DEF AddBlock
  <2>2. c \in Seq(Block) /\ Len(c) \in Nat /\ Len(c) > 1
    BY <1>5 DEF PaidChains, MadeChains, AcceptsBlock
  <2>3. c = Append(led.chain, c[Len(c)]) /\ c[Len(c)] \in Block
    BY <1>5, <2>2, LastOfAccepted
  <2> QED BY <1>1, <2>1, <2>3, WorkAppend
<1>6. ASSUME NEW c \in PaidChains, AcceptsChain(led, c), new = ReplaceChain(led, c)
      PROVE  ChainWork(new.chain) > ChainWork(led.chain)
  <2>1. new.chain = c
    BY <1>1, <1>6, AddKeepsFit, EmptyIsFit, FitFields, ReplaceChainOn
  <2> QED BY <1>6, <2>1 DEF AcceptsChain
<1>7. CASE new = LoadState(led)
  BY <1>7, FitReloads
<1> QED BY <1>2, <1>3, <1>4, <1>5, <1>6, <1>7 DEF LedgerStep

(* With one signature to a nonce, a node's work never falls, whatever      *)
(* reaches it and however often it is stopped.  Run two_signatures shows a *)
(* node that loses all of it to a restart, with two.                       *)
THEOREM WorkNeverFalls ==
    ASSUME UniqueNonces, Miner \subseteq Address
    PROVE  Spec => WorkGrows
<1>1. Init => Keeps(FitNodes, PaidChains)
  BY FitNodesKept, InitKeeps
<1>2. Keeps(FitNodes, PaidChains) /\ [Next]_vars => Keeps(FitNodes, PaidChains)'
  BY FitNodesKept, StepKeeps
<1>3. Keeps(FitNodes, PaidChains) /\ [Next]_vars
        => [\A n \in Node :
              \/ ledger'[n].chain = ledger[n].chain
              \/ ChainWork(ledger'[n].chain) > Work(n)]_vars
  <2> SUFFICES ASSUME Keeps(FitNodes, PaidChains), [Next]_vars, NEW n \in Node
               PROVE  \/ ledger'[n].chain = ledger[n].chain
                      \/ ChainWork(ledger'[n].chain) > Work(n)
    OBVIOUS
  <2>1. LedgerStep(PaidChains, ledger[n], ledger'[n])
    BY StepsOfLedgers
  <2>2. ledger[n] \in FitNodes
    BY DEF Keeps
  <2> QED BY <2>1, <2>2, WorkStep DEF Work
<1> QED BY <1>1, <1>2, <1>3, PTL DEF Spec, WorkGrows

-----------------------------------------------------------------------------
(* What becomes of a pending transaction. *)

Pending(t) == {led \in FitNodes : t \in Range(led.pendingTransactions)}

LEMMA AddKeepsPending ==
    ASSUME UniqueNonces, NEW x
    PROVE  Preserved(Pending(x), Transactions)
<1> SUFFICES ASSUME NEW led \in Pending(x), NEW t \in Transactions
             PROVE  AddTransaction(led, t) \in Pending(x)
  BY DEF Preserved
<1>1. led \in FitNodes /\ x \in Range(led.pendingTransactions) /\ led \in LedgerState
      /\ led.pendingTransactions \in Seq(Transactions)
  BY DEF Pending, FitNodes
<1>2. AddTransaction(led, t) \in FitNodes
  BY <1>1, AddKeepsFit DEF Preserved
<1>3. CASE Admissible(led, t)
  <2>1. AddTransaction(led, t).pendingTransactions = Append(led.pendingTransactions, t)
    BY <1>1, <1>3, AddsAtTheEnd
  <2>2. x \in Range(Append(led.pendingTransactions, t))
    BY <1>1, AppendRange
  <2> QED BY <1>2, <2>1, <2>2 DEF Pending
<1>4. CASE ~Admissible(led, t)
  BY <1>4 DEF AddTransaction
<1> QED BY <1>3, <1>4

(* A block takes out of the mempool only what it confirms. *)
LEMMA BlockDropsConfirmed ==
    ASSUME NEW chain \in Seq(Block), NEW block \in Block, NEW p \in Seq(Transactions),
           NEW t \in Range(p)
    PROVE  \/ t \in Range(RemovePending(p, block.transactions))
           \/ HasTransactionInChain(Append(chain, block), t)
<1> DEFINE txs == block.transactions
           u == Append(chain, block)
           n == Len(chain)
<1>1. CASE t \in Range(txs)
  <2>1. PICK j \in DOMAIN txs : txs[j] = t
    BY <1>1 DEF Range
  <2>2. n + 1 \in DOMAIN u /\ u[n + 1] = block
    OBVIOUS
  <2> HIDE DEF u
  <2>3. HasTransactionInChain(u, t)
    BY <2>1, <2>2 DEF HasTransactionInChain
  <2> QED BY <2>3 DEF u
<1>2. CASE t \notin Range(txs)
  BY <1>2, RemoveLeaves
<1> QED BY <1>1, <1>2

(* A transaction that is refused stays refused, whatever is admitted after *)
(* it, if what its sender adds has later nonces.                           *)
LEMMA RefusalStays ==
    ASSUME UniqueNonces, NEW led \in FitNodes, NEW t \in Transactions, NEW u \in Transactions,
           t \notin Range(led.pendingTransactions), ~Admissible(led, t),
           u.from = t.from => t.nonce < u.nonce
    PROVE  ~Admissible(AddTransaction(led, u), t)
<1> DEFINE new == AddTransaction(led, u)
           p == led.pendingTransactions
           q == Append(p, u)
           c == led.chain
           a == t.from
<1> SUFFICES ASSUME Admissible(led, u), Admissible(new, t) PROVE FALSE
  BY DEF AddTransaction
<1>1. /\ led \in LedgerState /\ p \in Seq(Transactions) /\ p \in Seq(Transaction)
      /\ c \in Seq(Block) /\ t \in Transaction /\ u \in Transaction
  BY FitFields, TransactionsSigned DEF GoodLedger
<1>2. /\ FitsAtTheEnd(led, u) /\ new.pendingTransactions = q /\ new.chain = c
      /\ new \in FitNodes
  BY <1>1, AddsAtTheEnd, AddKeepsChain, AddKeepsFit DEF Preserved
<1> HIDE DEF new
<1>3. new \in LedgerState /\ new.pendingTransactions \in Seq(Transactions)
  BY <1>2 DEF FitNodes
<1>4. FitsAtTheEnd(new, t)
  BY <1>3, AddsAtTheEnd
<1>5. Replaced(q, t) = {}
  <2> SUFFICES ASSUME NEW j \in Replaced(q, t) PROVE FALSE
    OBVIOUS
  <2>1. j \in DOMAIN q /\ q[j].from = t.from /\ q[j].nonce = t.nonce
    BY DEF Replaced, IndicesFrom
  <2>2. q[j] # t /\ q \in Seq(Transactions)
    BY <1>2, <1>3, <2>1 DEF Admissible
  <2> HIDE DEF q
  <2>3. q[j] \in Transactions
    BY <2>1, <2>2
  <2> QED BY <2>1, <2>2, <2>3 DEF UniqueNonces
<1>6. \A j \in DOMAIN p : p[j] # t
  BY DEF Range
<1>7. Replaced(p, t) = {}
  <2> SUFFICES ASSUME NEW j \in Replaced(p, t) PROVE FALSE
    OBVIOUS
  <2>1. j \in DOMAIN p /\ p[j].from = t.from /\ p[j].nonce = t.nonce
    BY DEF Replaced, IndicesFrom
  <2> HIDE DEF p
  <2>2. p[j] \in Transactions
    BY <1>1, <2>1
  <2> QED BY <1>6, <2>1, <2>2 DEF UniqueNonces
<1>8. /\ q \in Seq(Transaction) /\ Len(q) = Len(p) + 1 /\ Len(p) \in Nat
  BY <1>1
<1> HIDE DEF p, q, c
<1>9. CASE u.from = a
  <2> DEFINE x == Cardinality(IndicesFrom(p, a))
             y == Cardinality(IndicesFrom(q, a))
             m == ConfirmedNonce(c, a)
  <2>1. y = x + 1 /\ x \in Nat /\ m \in Nat
    <3>1. y = x + (IF u.from = a THEN 1 ELSE 0)
      BY <1>1, CountAppend DEF q
    <3>2. x \in Nat
      BY <1>1, CountSum
    <3> QED BY <1>1, <1>9, <3>1, <3>2, NonceType
  <2>2. u.nonce = m + x
    BY <1>2, <1>9 DEF FitsAtTheEnd, NextNonce, p, c
  <2>3. t.nonce = m + y
    BY <1>2, <1>4 DEF FitsAtTheEnd, NextNonce
  <2>4. t.nonce < u.nonce
    BY <1>9
  <2> HIDE DEF x, y, m
  <2> QED BY <2>1, <2>2, <2>3, <2>4
<1>10. CASE u.from # a
  <2>1. Cardinality(IndicesFrom(q, a)) = Cardinality(IndicesFrom(p, a))
    <3>1. Cardinality(IndicesFrom(q, a))
            = Cardinality(IndicesFrom(p, a)) + (IF u.from = a THEN 1 ELSE 0)
      BY <1>1, CountAppend DEF q
    <3>2. Cardinality(IndicesFrom(p, a)) \in Nat
      BY <1>1, CountSum
    <3> QED BY <1>10, <3>1, <3>2
  <2>2. DataIndicesFrom(q, a) = DataIndicesFrom(p, a)
    BY <1>1, <1>10, DataAppend DEF q
  <2>3. ReservedBy(q, t) = ReservedBy(p, t)
    <3>1. ReservedBy(q, t) = Spent(q, a) /\ ReservedBy(p, t) = Spent(p, a)
      BY <1>1, <1>5, <1>7, <1>8, ReservedIsSpent
    <3>2. Spent(q, a) = Spent(p, a) + (IF u.from = a THEN Cost(u) ELSE 0)
      BY <1>1, SpentAppend DEF q
    <3>3. Spent(p, a) \in Nat
      BY <1>1, SpentNat
    <3> QED BY <1>10, <3>1, <3>2, <3>3
  <2>4. FitsAtTheEnd(led, t)
    <3>1. t.nonce = NextNonce(led, a)
      BY <1>2, <1>4, <2>1 DEF FitsAtTheEnd, NextNonce, p, c
    <3>2. Cardinality(IndicesFrom(p, a)) < MaxPendingTransactionsPerSender
      BY <1>2, <1>4, <2>1 DEF FitsAtTheEnd
    <3>3. t.type = "data" =>
            Cardinality(DataIndicesFrom(p, a)) < MaxPendingDataTransactionsPerSender
      BY <1>2, <1>4, <2>2 DEF FitsAtTheEnd
    <3>4. Len(p) < MaxPendingTransactions
      <4>1. Len(q) < MaxPendingTransactions
        BY <1>2, <1>4 DEF FitsAtTheEnd
      <4> QED BY <1>8, <4>1, LedgerAssumption
    <3> QED BY <3>1, <3>2, <3>3, <3>4 DEF FitsAtTheEnd, p
  <2>5. /\ IsValidTransaction(t) /\ t.from \in Address /\ ~HasTransactionInChain(c, t)
        /\ t.fee >= MinimumFee(t) /\ Balance(c, t.from) - ReservedBy(q, t) >= Cost(t)
    BY <1>2 DEF Admissible
  <2>6. Admissible(led, t)
    BY <1>6, <1>7, <2>3, <2>4, <2>5 DEF Admissible, p, c
  <2> QED BY <2>6
<1> QED BY <1>9, <1>10

(* t is pending, or it is refused. *)
Settled(led, t) == t \in Range(led.pendingTransactions) \/ ~Admissible(led, t)

LEMMA AddSettles ==
    ASSUME UniqueNonces, NEW led \in FitNodes, NEW u \in Transactions
    PROVE  /\ Settled(AddTransaction(led, u), u)
           /\ \A t \in Transactions :
                 Settled(led, t) /\ (u.from = t.from => t.nonce < u.nonce)
                    => Settled(AddTransaction(led, u), t)
<1> DEFINE new == AddTransaction(led, u)
<1>1. led \in LedgerState /\ led.pendingTransactions \in Seq(Transactions)
  BY DEF FitNodes
<1>2. Settled(new, u)
  <2>1. CASE Admissible(led, u)
    <3>1. new.pendingTransactions = Append(led.pendingTransactions, u)
      BY <1>1, <2>1, AddsAtTheEnd
    <3>2. u \in Range(Append(led.pendingTransactions, u))
      BY <1>1, AppendRange
    <3> QED BY <3>1, <3>2 DEF Settled
  <2>2. CASE ~Admissible(led, u)
    BY <2>2 DEF AddTransaction, Settled
  <2> QED BY <2>1, <2>2
<1>3. ASSUME NEW t \in Transactions, Settled(led, t), u.from = t.from => t.nonce < u.nonce
      PROVE  Settled(new, t)
  <2>1. CASE t \in Range(led.pendingTransactions)
    <3>1. led \in Pending(t)
      BY <2>1 DEF Pending
    <3>2. new \in Pending(t)
      BY <3>1, AddKeepsPending DEF Preserved
    <3> QED BY <3>2 DEF Pending, Settled
  <2>2. CASE t \notin Range(led.pendingTransactions)
    BY <1>3, <2>2, RefusalStays DEF Settled
  <2> QED BY <2>1, <2>2
<1> HIDE DEF new
<1> QED BY <1>2, <1>3 DEF new

(* Of each sender the later nonces come later. *)
Later ==
    {pair \in Transactions \X Transactions :
        pair[1].from = pair[2].from => pair[1].nonce < pair[2].nonce}

LEMMA FitIsOrdered ==
    ASSUME NEW led \in FitNodes
    PROVE  Ordered(led.pendingTransactions, Later)
<1> DEFINE p == led.pendingTransactions
           c == led.chain
<1>1. c \in Seq(Block) /\ p \in Seq(Transaction) /\ InOrder(c, p) /\ p \in Seq(Transactions)
  BY FitFields DEF Tidy
<1> HIDE DEF p, c
<1> SUFFICES ASSUME NEW h \in 1 .. Len(p), NEW k \in 1 .. Len(p), h < k
             PROVE  <<p[h], p[k]>> \in Later
  BY DEF Ordered, p
<1>2. p[h] \in Transactions /\ p[k] \in Transactions
  BY <1>1
<1>3. p[h].from = p[k].from => p[h].nonce < p[k].nonce
  BY <1>1, InOrderRises
<1> QED BY <1>2, <1>3 DEF Later

(* Each of the transactions that are put through admission one by one is   *)
(* pending afterwards, or refused by the ledger they leave.                *)
LEMMA ReadmissionSettles ==
    ASSUME UniqueNonces, NEW base \in FitNodes, NEW txs \in Seq(Transactions),
           Ordered(txs, Later), NEW j \in 1 .. Len(txs)
    PROVE  Settled(Readmission(base, txs)[Len(txs)], txs[j])
<1> DEFINE n == Len(txs)
           run == Readmission(base, txs)
           S == {i \in 0 .. n : j <= i => Settled(run[i], txs[j])}
<1>1. n \in Nat /\ \A i \in 1 .. n : txs[i] \in Transactions
  OBVIOUS
<1>2. Readmits(run, base, txs, FitNodes)
  BY AddKeepsFit, ReadmissionRuns
<1>3. /\ \A i \in 0 .. n : run[i] \in FitNodes
      /\ \A i \in 1 .. n : run[i] = AddTransaction(run[i - 1], txs[i])
  BY <1>2 DEF Readmits
<1> HIDE DEF run
<1>4. \A i \in 1 .. n : j < i => <<txs[j], txs[i]>> \in Later
  BY DEF Ordered
<1>5. j \in 1 .. n /\ j \in Nat /\ 0 < j
  BY <1>1
<1> HIDE DEF n
<1>6. 0 \in S
  BY <1>1, <1>5
<1>7. ASSUME NEW i \in 1 .. n, i - 1 \in S PROVE i \in S
  <2> DEFINE led == run[i - 1]
             u == txs[i]
             t == txs[j]
  <2>1. i - 1 \in 0 .. n /\ i \in 0 .. n
    BY <1>1
  <2>2. led \in FitNodes /\ run[i] = AddTransaction(led, u) /\ u \in Transactions
        /\ t \in Transactions
    BY <1>1, <1>3, <1>5, <2>1
  <2>3. j <= i - 1 => Settled(led, t)
    BY <1>7
  <2>4. CASE j = i
    <3>1. Settled(AddTransaction(led, u), u)
      BY <2>2, AddSettles
    <3> QED BY <2>1, <2>2, <2>4, <3>1
  <2>5. CASE j < i
    <3>1. Settled(led, t)
      BY <1>1, <1>5, <2>3, <2>5
    <3>2. u.from = t.from => t.nonce < u.nonce
      BY <1>4, <2>5 DEF Later
    <3>3. Settled(AddTransaction(led, u), t)
      BY <2>2, <3>1, <3>2, AddSettles
    <3> QED BY <2>1, <2>2, <3>3
  <2>6. CASE i < j
    BY <1>5, <2>1, <2>6
  <2> QED BY <1>1, <1>5, <2>4, <2>5, <2>6
<1>8. \A i \in 0 .. n : i \in S
  <2> HIDE DEF S
  <2> QED BY <1>1, <1>6, <1>7, IntervalInduction
<1>9. n \in 0 .. n /\ j <= n
  BY <1>1, <1>5
<1> QED BY <1>8, <1>9 DEF n, run

LEMMA ReplaceChainSettles ==
    ASSUME UniqueNonces, NEW led \in FitNodes, NEW c \in PaidChains,
           NEW t \in Range(led.pendingTransactions)
    PROVE  Settled(ReplaceChain(led, c), t) \/ HasTransactionInChain(c, t)
<1> DEFINE p == led.pendingTransactions
           keep == {x \in Range(p) : ~HasTransactionInChain(c, x)}
           old == Subsequence(p, keep)
           base == [chain |-> c, pendingTransactions |-> <<>>, difficulty |-> Given(c)]
<1>1. ReplaceChain(led, c) = Readmission(base, old)[Len(old)]
  BY DEF ReplaceChain, Given
<1>2. base \in FitNodes
  BY EmptyIsFit
<1>3. p \in Seq(Transactions) /\ Ordered(p, Later)
  BY FitFields, FitIsOrdered
<1>4. PICK i \in 1 .. Len(p) : p[i] = t
  BY <1>3 DEF Range
<1>5. SUFFICES ASSUME ~HasTransactionInChain(c, t) PROVE Settled(ReplaceChain(led, c), t)
  OBVIOUS
<1>6. t \in keep
  BY <1>5
<1> HIDE DEF keep, p
<1>7. old \in Seq(Transactions) /\ Ordered(old, Later)
  BY <1>3, SubsequenceType, SubsequenceOrdered
<1>8. PICK j \in 1 .. Len(old) : old[j] = t
  BY <1>3, <1>4, <1>6, SubsequenceCovers
<1> HIDE DEF old, base
<1>9. Settled(Readmission(base, old)[Len(old)], old[j])
  BY <1>2, <1>7, ReadmissionSettles
<1> QED BY <1>1, <1>8, <1>9

LEMMA DropStep ==
    ASSUME UniqueNonces, Miner \subseteq Address, NEW led \in FitNodes, NEW new,
           LedgerStep(PaidChains, led, new), NEW t \in Range(led.pendingTransactions)
    PROVE  Settled(new, t) \/ HasTransactionInChain(new.chain, t)
<1>1. /\ led \in Pending(t) /\ led.chain \in Seq(Block)
      /\ led.pendingTransactions \in Seq(Transactions)
  BY FitFields DEF Pending
<1>2. \A x \in Pending(t) : Settled(x, t)
  BY DEF Pending, Settled
<1>3. ASSUME NEW x \in Transactions, new = AddTransaction(led, x) PROVE Settled(new, t)
  <2>1. new \in Pending(t)
    BY <1>1, <1>3, AddKeepsPending DEF Preserved
  <2> QED BY <1>2, <2>1
<1>4. ASSUME NEW txs \in Seq(Transactions), new = Readmission(led, txs)[Len(txs)]
      PROVE  Settled(new, t)
  <2>1. new \in Pending(t)
    BY <1>1, <1>4, AddKeepsPending, ReadmissionStays
  <2> QED BY <1>2, <2>1
<1>5. ASSUME NEW block \in Block, new.chain = Append(led.chain, block),
             new.pendingTransactions = RemovePending(led.pendingTransactions, block.transactions)
      PROVE  Settled(new, t) \/ HasTransactionInChain(new.chain, t)
  BY <1>1, <1>5, BlockDropsConfirmed DEF Settled
<1>6. ASSUME NEW miner \in Miner, NEW now \in Clock,
             new = MinePendingTransactions(led, miner, now)
      PROVE  Settled(new, t) \/ HasTransactionInChain(new.chain, t)
  <2> DEFINE block == NextBlock(led, miner, now)
  <2>1. /\ new.chain = Append(led.chain, block)
        /\ new.pendingTransactions
              = RemovePending(led.pendingTransactions, block.transactions)
    BY <1>6 DEF MinePendingTransactions
  <2>2. block \in Block
    BY FitFields, NextBlockMade, NetworkAssumption
  <2> HIDE DEF block
  <2> QED BY <1>5, <2>1, <2>2
<1>7. ASSUME NEW c \in PaidChains, AcceptsBlock(led, c), new = AddBlock(led, c)
      PROVE  Settled(new, t) \/ HasTransactionInChain(new.chain, t)
  <2>1. /\ new.chain = c
        /\ new.pendingTransactions
              = RemovePending(led.pendingTransactions, c[Len(c)].transactions)
    BY <1>7 DEF AddBlock, LastBlock
  <2>2. c[Len(c)] \in Block /\ c = Append(led.chain, c[Len(c)])
    BY <1>7, LastOfAccepted DEF PaidChains, MadeChains
  <2> QED BY <1>5, <2>1, <2>2
<1>8. ASSUME NEW c \in PaidChains, new = ReplaceChain(led, c)
      PROVE  Settled(new, t) \/ HasTransactionInChain(new.chain, t)
  <2>1. new.chain = c
    BY <1>1, <1>8, AddKeepsFit, EmptyIsFit, FitFields, ReplaceChainOn DEF FitNodes
  <2> QED BY <1>8, <2>1, ReplaceChainSettles
<1>9. new = led \/ new = LoadState(led) => Settled(new, t)
  BY <1>1, <1>2, FitReloads
<1> QED BY <1>3, <1>4, <1>6, <1>7, <1>8, <1>9 DEF LedgerStep

(* With one signature to a nonce, no step of any node loses a pending      *)
(* transaction that its chain would still let in: after a reorganisation   *)
(* one is refused only for what came before it, and stays refused.         *)
THEOREM NoneLost ==
    ASSUME UniqueNonces, Miner \subseteq Address
    PROVE  Spec => DroppedOnlyIfInvalid
<1>1. Init => Keeps(FitNodes, PaidChains)
  BY FitNodesKept, InitKeeps
<1>2. Keeps(FitNodes, PaidChains) /\ [Next]_vars => Keeps(FitNodes, PaidChains)'
  BY FitNodesKept, StepKeeps
<1> DEFINE Dropped(n) ==
               ledger'[n] = ledger[n]
                 \/ \A t \in Range(ledger[n].pendingTransactions) :
                       \/ t \in Range(ledger'[n].pendingTransactions)
                       \/ HasTransactionInChain(ledger'[n].chain, t)
                       \/ ~Admissible(ledger'[n], t)
<1>3. Keeps(FitNodes, PaidChains) /\ [Next]_vars => [\A n \in Node : Dropped(n)]_vars
  <2> SUFFICES ASSUME Keeps(FitNodes, PaidChains), [Next]_vars, NEW n \in Node,
                      NEW t \in Range(ledger[n].pendingTransactions)
               PROVE  \/ t \in Range(ledger'[n].pendingTransactions)
                      \/ HasTransactionInChain(ledger'[n].chain, t)
                      \/ ~Admissible(ledger'[n], t)
    OBVIOUS
  <2>1. LedgerStep(PaidChains, ledger[n], ledger'[n])
    BY StepsOfLedgers
  <2>2. ledger[n] \in FitNodes
    BY DEF Keeps
  <2> QED BY <2>1, <2>2, DropStep DEF Settled
<1> QED BY <1>1, <1>2, <1>3, PTL DEF Spec, DroppedOnlyIfInvalid

-----------------------------------------------------------------------------
(* What the two ends of a socket know of each other's chains: cx is the    *)
(* chain of x, and Bx is the set of messages that wait for x.              *)

Brings(m, c) == m.type \in {"CHAIN", "NEW_BLOCK"} /\ m.data = c

Asks(B) == \E m \in B : m.type = "REQUEST_CHAIN"

(* y has a chain of that work, or has been sent the chain of x, or has     *)
(* asked for it, or could not take it in one message.                      *)
Hears(cx, cy, Bx, By) ==
    \/ ChainWork(cx) <= ChainWork(cy)
    \/ Len(cx) > MaxChainMessage
    \/ Asks(Bx)
    \/ \E m \in By : Brings(m, cx)

(* No chain on the way to y is of more work than the one x has.            *)
Honest(cx, By) ==
    \A m \in By : m.type \in {"CHAIN", "NEW_BLOCK"} => ChainWork(m.data) <= ChainWork(cx)

Linked(cx, cy, Bx, By) ==
    /\ Hears(cx, cy, Bx, By) /\ Honest(cx, By)
    /\ Hears(cy, cx, By, Bx) /\ Honest(cy, Bx)

(* What x may do to a link: from cx to c, from Bx to Bx2, from By to By2.  *)
LinkMoves(cx, cy, c, Bx, By, Bx2, By2) ==
    /\ \/ c = cx
       \/ /\ ChainWork(cx) <= ChainWork(c)
          /\ ChainWork(c) <= ChainWork(cy) \/ \E m \in By2 : Brings(m, c)
    /\ Bx2 \subseteq Bx
    /\ By \subseteq By2
    /\ \A m \in By2 \ By : m.type \in {"CHAIN", "NEW_BLOCK"} => m.data = c
    /\ \A m \in Bx \ Bx2 :
          /\ m.type = "REQUEST_CHAIN" => \E r \in By2 : Brings(r, c)
          /\ Brings(m, cy) => \/ ChainWork(cy) <= ChainWork(c)
                              \/ Len(cy) > MaxChainMessage
                              \/ Asks(By2)

LEMMA WorkType == ASSUME NEW c \in Seq(Block) PROVE ChainWork(c) \in Int
<1>1. Works(c) \in Seq(Int)
  BY WorksType
<1>2. SumSeq(Works(c)) \in Int
  BY <1>1, SumSeqType
<1> QED BY <1>2 DEF ChainWork, Works

LEMMA LinkStep ==
    ASSUME NEW cx \in Seq(Block), NEW cy \in Seq(Block), NEW c \in Seq(Block),
           NEW Bx, NEW By, NEW Bx2, NEW By2, Linked(cx, cy, Bx, By),
           LinkMoves(cx, cy, c, Bx, By, Bx2, By2),
           \A m \in By : m.type \in {"CHAIN", "NEW_BLOCK"} => m.data \in Seq(Block)
    PROVE  Linked(c, cy, Bx2, By2)
<1> DEFINE W(x) == ChainWork(x)
<1>1. W(cx) \in Int /\ W(cy) \in Int /\ W(c) \in Int
  BY WorkType
<1>2. W(cx) <= W(c)
  BY <1>1 DEF LinkMoves
<1>3. Hears(c, cy, Bx2, By2)
  <2>1. CASE c = cx
    <3>1. CASE Asks(Bx)
      <4>1. PICK m \in Bx : m.type = "REQUEST_CHAIN"
        BY <3>1 DEF Asks
      <4> QED BY <2>1, <4>1 DEF LinkMoves, Hears, Asks
    <3>2. CASE ~Asks(Bx)
      BY <2>1, <3>2 DEF LinkMoves, Linked, Hears
    <3> QED BY <3>1, <3>2
  <2>2. CASE c # cx
    BY <2>2 DEF LinkMoves, Hears
  <2> QED BY <2>1, <2>2
<1>4. Hears(cy, c, By2, Bx2)
  <2>1. CASE W(cy) <= W(cx)
    <3>1. W(cy) <= W(c)
      <4> HIDE DEF W
      <4> QED BY <1>1, <1>2, <2>1
    <3> QED BY <3>1 DEF Hears
  <2>2. CASE Len(cy) > MaxChainMessage
    BY <2>2 DEF Hears
  <2>3. CASE Asks(By)
    BY <2>3 DEF LinkMoves, Hears, Asks
  <2>4. CASE \E m \in Bx : Brings(m, cy)
    BY <2>4 DEF LinkMoves, Hears
  <2> QED BY <2>1, <2>2, <2>3, <2>4 DEF Linked, Hears
<1>5. Honest(c, By2)
  <2> SUFFICES ASSUME NEW m \in By2, m.type \in {"CHAIN", "NEW_BLOCK"} PROVE W(m.data) <= W(c)
    BY DEF Honest
  <2>1. CASE m \in By
    <3>1. W(m.data) <= W(cx) /\ W(m.data) \in Int
      BY <2>1, WorkType DEF Linked, Honest
    <3> HIDE DEF W
    <3> QED BY <1>1, <1>2, <3>1
  <2>2. CASE m \notin By
    <3>1. m.data = c
      BY <2>2 DEF LinkMoves
    <3> HIDE DEF W
    <3> QED BY <1>1, <3>1
  <2> QED BY <2>1, <2>2
<1>6. Honest(cy, Bx2)
  BY DEF LinkMoves, Linked, Honest
<1> QED BY <1>3, <1>4, <1>5, <1>6 DEF Linked

LEMMA LinkedBack ==
    ASSUME NEW cx, NEW cy, NEW Bx, NEW By, Linked(cx, cy, Bx, By)
    PROVE  Linked(cy, cx, By, Bx)
BY DEF Linked

(* Nothing waits yet, but both have been asked. *)
LEMMA LinkOpens ==
    ASSUME NEW cx, NEW cy, NEW B, Asks(B),
           \A m \in B : m.type \notin {"CHAIN", "NEW_BLOCK"}
    PROVE  Linked(cx, cy, B, B)
BY DEF Linked, Hears, Honest

LinkOf(d, x, y) ==
    Linked(ledger[x].chain, ledger[y].chain, Range(inbox[d][x]), Range(inbox[d][y]))

(* No end of an open socket is left behind. *)
Heard == \A d \in open : \A x \in Ends(d) : \A y \in Ends(d) \ {x} : LinkOf(d, x, y)

HeardInv == Keeps(SoundNodes, MadeChains) /\ Heard

LEMMA DialEnds ==
    ASSUME NEW d \in Dial
    PROVE  /\ Ends(d) \subseteq Node
           /\ d[1] \in Ends(d) /\ d[2] \in Ends(d) \ {d[1]}
           /\ \A x, y, n \in Ends(d) : x # y /\ n # x => n = y
BY NetworkAssumption DEF Ends

LEMMA ConcatRange ==
    ASSUME NEW T, NEW p \in Seq(T), NEW q \in Seq(T)
    PROVE  Range(p \o q) = Range(p) \cup Range(q)
<1> DEFINE u == p \o q
           n == Len(p)
           m == Len(q)
<1>1. /\ n \in Nat /\ m \in Nat /\ DOMAIN u = 1 .. n + m /\ DOMAIN p = 1 .. n
      /\ DOMAIN q = 1 .. m
      /\ \A i \in 1 .. n : u[i] = p[i]
      /\ \A i \in 1 .. m : u[n + i] = q[i]
  OBVIOUS
<1> HIDE DEF u, n, m
<1>2. /\ \A i \in 1 .. n : i \in 1 .. n + m
      /\ \A i \in 1 .. m : n + i \in 1 .. n + m
      /\ \A i \in 1 .. n + m : i \in 1 .. n \/ (i - n \in 1 .. m /\ i = n + (i - n))
  BY <1>1
<1>3. ASSUME NEW x \in Range(u) PROVE x \in Range(p) \cup Range(q)
  <2>1. PICK i \in 1 .. n + m : u[i] = x
    BY <1>1, <1>3 DEF Range
  <2>2. CASE i \in 1 .. n
    BY <1>1, <2>1, <2>2 DEF Range
  <2>3. CASE i - n \in 1 .. m /\ i = n + (i - n)
    <3> DEFINE j == i - n
    <3>1. j \in 1 .. m /\ u[n + j] = x
      BY <2>1, <2>3
    <3> HIDE DEF j
    <3> QED BY <1>1, <3>1 DEF Range
  <2> QED BY <1>2, <2>2, <2>3
<1>4. ASSUME NEW x \in Range(p) PROVE x \in Range(u)
  BY <1>1, <1>2 DEF Range
<1>5. ASSUME NEW x \in Range(q) PROVE x \in Range(u)
  BY <1>1, <1>2 DEF Range
<1> QED BY <1>3, <1>4, <1>5 DEF u

LEMMA TailRange ==
    ASSUME NEW T, NEW p \in Seq(T), p # <<>>
    PROVE  Range(p) = Range(Tail(p)) \cup {Head(p)}
<1> DEFINE q == Tail(p)
           n == Len(p)
<1>1. /\ n \in Nat /\ n >= 1 /\ DOMAIN p = 1 .. n /\ DOMAIN q = 1 .. n - 1
      /\ \A i \in 1 .. n - 1 : q[i] = p[i + 1]
      /\ Head(p) = p[1]
  OBVIOUS
<1> HIDE DEF q, n
<1>2. /\ 1 \in 1 .. n
      /\ \A i \in 1 .. n - 1 : i + 1 \in 1 .. n
      /\ \A i \in 1 .. n : i = 1 \/ (i - 1 \in 1 .. n - 1 /\ i = (i - 1) + 1)
  BY <1>1
<1>3. ASSUME NEW x \in Range(p) PROVE x \in Range(q) \cup {Head(p)}
  <2>1. PICK i \in 1 .. n : p[i] = x
    BY <1>1, <1>3 DEF Range
  <2>2. CASE i = 1
    BY <1>1, <2>1, <2>2
  <2>3. CASE i - 1 \in 1 .. n - 1 /\ i = (i - 1) + 1
    <3> DEFINE j == i - 1
    <3>1. j \in 1 .. n - 1 /\ p[j + 1] = x
      BY <2>1, <2>3
    <3> HIDE DEF j
    <3> QED BY <1>1, <3>1 DEF Range
  <2> QED BY <1>2, <2>2, <2>3
<1>4. ASSUME NEW x \in Range(q) PROVE x \in Range(p)
  BY <1>1, <1>2 DEF Range
<1>5. Head(p) \in Range(p)
  BY <1>1, <1>2 DEF Range
<1> QED BY <1>3, <1>4, <1>5 DEF q

(* n comes to chain c, takes what is not in `left`, and sends `messages`.  *)
Acts(n, c, left, over, messages) ==
    /\ open' = open
    /\ over \subseteq Sockets(n)
    /\ left \in Boxes(MadeChains, open)
    /\ inbox' = Sent(left, n, over, messages)
    /\ \A k \in Node : ledger'[k].chain = IF k = n THEN c ELSE ledger[k].chain
    /\ \A d \in Dial, k \in Node \ {n} : left[d][k] = inbox[d][k]
    /\ \A d \in Dial : Range(left[d][n]) \subseteq Range(inbox[d][n])
    /\ \A m \in Range(messages) : m.type \in {"CHAIN", "NEW_BLOCK"} => m.data = c

(* What a peer o over d may then expect of n. *)
Answers(n, c, d, o, left, over, messages) ==
    /\ \/ c = ledger[n].chain
       \/ /\ ChainWork(ledger[n].chain) <= ChainWork(c)
          /\ \/ ChainWork(c) <= ChainWork(ledger[o].chain)
             \/ d \in over /\ \E m \in Range(messages) : Brings(m, c)
    /\ \A m \in Range(inbox[d][n]) \ Range(left[d][n]) :
          /\ m.type = "REQUEST_CHAIN" => d \in over /\ \E r \in Range(messages) : Brings(r, c)
          /\ Brings(m, ledger[o].chain) =>
                \/ ChainWork(ledger[o].chain) <= ChainWork(c)
                \/ Len(ledger[o].chain) > MaxChainMessage
                \/ d \in over /\ Asks(Range(messages))

LEMMA ActMoves ==
    ASSUME inbox \in Boxes(MadeChains, open), NEW n \in Node, NEW c, NEW left, NEW over,
           NEW messages \in Seq(Mail(MadeChains)), Acts(n, c, left, over, messages),
           NEW d \in Dial, n \in Ends(d), NEW o \in Ends(d) \ {n},
           Answers(n, c, d, o, left, over, messages)
    PROVE  LinkMoves(ledger[n].chain, ledger[o].chain, c,
                     Range(inbox[d][n]), Range(inbox[d][o]),
                     Range(inbox'[d][n]), Range(inbox'[d][o]))
<1> DEFINE Bx == Range(inbox[d][n])
           By == Range(inbox[d][o])
           Bx2 == Range(inbox'[d][n])
           By2 == Range(inbox'[d][o])
           S == Range(messages)
<1>1. o \in Node /\ o # n
  BY DialEnds
<1>2. left[d][o] = inbox[d][o] /\ left[d][o] \in Seq(Mail(MadeChains))
  BY <1>1, BoxType DEF Acts
<1>3. inbox'[d][n] = left[d][n]
  BY <1>1 DEF Acts, Sent
<1>4. d \in over => By2 = By \cup S
  <2> SUFFICES ASSUME d \in over PROVE By2 = By \cup S
    OBVIOUS
  <2>1. inbox'[d][o] = left[d][o] \o messages
    BY <1>1 DEF Acts, Sent
  <2> QED BY <1>2, <2>1, ConcatRange
<1>5. d \notin over => By2 = By
  <2> SUFFICES ASSUME d \notin over PROVE By2 = By
    OBVIOUS
  <2>1. inbox'[d][o] = left[d][o]
    BY <1>1 DEF Acts, Sent
  <2> QED BY <1>2, <2>1
<1>6. Bx2 = Range(left[d][n]) /\ Bx2 \subseteq Bx
  BY <1>3 DEF Acts
<1> HIDE DEF Bx, By, Bx2, By2, S
<1>7. By \subseteq By2 /\ \A m \in By2 \ By : d \in over /\ m \in S
  BY <1>4, <1>5
<1>8. d \in over => S \subseteq By2
  BY <1>4
<1>9. \A m \in By2 \ By : m.type \in {"CHAIN", "NEW_BLOCK"} => m.data = c
  BY <1>7 DEF Acts, S
<1>10. \/ c = ledger[n].chain
       \/ /\ ChainWork(ledger[n].chain) <= ChainWork(c)
          /\ ChainWork(c) <= ChainWork(ledger[o].chain) \/ \E m \in By2 : Brings(m, c)
  BY <1>8 DEF Answers, S
<1>11. ASSUME NEW m \in Bx \ Bx2
       PROVE  /\ m.type = "REQUEST_CHAIN" => \E r \in By2 : Brings(r, c)
              /\ Brings(m, ledger[o].chain) =>
                    \/ ChainWork(ledger[o].chain) <= ChainWork(c)
                    \/ Len(ledger[o].chain) > MaxChainMessage
                    \/ Asks(By2)
  <2>1. m \in Range(inbox[d][n]) \ Range(left[d][n])
    BY <1>6 DEF Bx
  <2>2. m.type = "REQUEST_CHAIN" => d \in over /\ \E r \in S : Brings(r, c)
    BY <2>1 DEF Answers, S
  <2>3. Brings(m, ledger[o].chain) =>
           \/ ChainWork(ledger[o].chain) <= ChainWork(c)
           \/ Len(ledger[o].chain) > MaxChainMessage
           \/ d \in over /\ Asks(S)
    BY <2>1 DEF Answers, S
  <2>4. d \in over /\ Asks(S) => Asks(By2)
    BY <1>8 DEF Asks
  <2> QED BY <1>8, <2>2, <2>3, <2>4
<1>12. LinkMoves(ledger[n].chain, ledger[o].chain, c, Bx, By, Bx2, By2)
  BY <1>6, <1>7, <1>9, <1>10, <1>11 DEF LinkMoves
<1> QED BY <1>12 DEF Bx, By, Bx2, By2

LEMMA ActHeard ==
    ASSUME HeardInv, NEW n \in Node, NEW c \in MadeChains, NEW left, NEW over,
           NEW messages \in Seq(Mail(MadeChains)), Acts(n, c, left, over, messages),
           \A d \in Sockets(n) : \A o \in Ends(d) \ {n} :
               Answers(n, c, d, o, left, over, messages)
    PROVE  Heard'
<1>1. ledger \in [Node -> SoundNodes] /\ open \subseteq Dial /\ inbox \in Boxes(MadeChains, open)
  BY DEF HeardInv, Keeps
<1>2. \A k \in Node : ledger[k].chain \in Seq(Block)
  BY <1>1 DEF SoundNodes, SoundLedger, ProperChain
<1>3. open' = open /\ c \in Seq(Block)
  BY DEF Acts, MadeChains
<1>4. ASSUME NEW d \in open, n \in Ends(d), NEW o \in Ends(d) \ {n}
      PROVE  LinkOf(d, n, o)' /\ LinkOf(d, o, n)'
  <2>1. d \in Dial /\ d \in Sockets(n) /\ o \in Node
    BY <1>1, <1>4, DialEnds DEF Sockets
  <2>2. LinkMoves(ledger[n].chain, ledger[o].chain, c,
                  Range(inbox[d][n]), Range(inbox[d][o]),
                  Range(inbox'[d][n]), Range(inbox'[d][o]))
    BY <1>1, <1>4, <2>1, ActMoves
  <2>3. LinkOf(d, n, o)
    BY <1>4 DEF HeardInv, Heard
  <2>4. \A m \in Range(inbox[d][o]) : m.type \in {"CHAIN", "NEW_BLOCK"} => m.data \in Seq(Block)
    <3> TAKE m \in Range(inbox[d][o])
    <3>1. inbox[d][o] \in Seq(Mail(MadeChains))
      BY <1>1, <2>1, BoxType
    <3>2. m \in Mail(MadeChains)
      BY <3>1 DEF Range
    <3> QED BY <3>2, MailData DEF MadeChains
  <2>5. Linked(c, ledger[o].chain, Range(inbox'[d][n]), Range(inbox'[d][o]))
    BY <1>2, <1>3, <2>1, <2>2, <2>3, <2>4, LinkStep DEF LinkOf
  <2>6. ledger'[n].chain = c /\ ledger'[o].chain = ledger[o].chain
    BY <2>1 DEF Acts
  <2> QED BY <2>5, <2>6, LinkedBack DEF LinkOf
<1>5. ASSUME NEW d \in open, n \notin Ends(d), NEW x \in Ends(d), NEW y \in Ends(d) \ {x}
      PROVE  LinkOf(d, x, y)'
  <2>1. d \in Dial /\ d \notin over /\ x \in Node \ {n} /\ y \in Node \ {n}
    BY <1>1, <1>5, DialEnds DEF Sockets, Acts
  <2>2. /\ inbox'[d][x] = inbox[d][x] /\ inbox'[d][y] = inbox[d][y]
        /\ ledger'[x].chain = ledger[x].chain /\ ledger'[y].chain = ledger[y].chain
    BY <2>1 DEF Acts, Sent
  <2>3. LinkOf(d, x, y)
    BY <1>5 DEF HeardInv, Heard
  <2> QED BY <2>2, <2>3 DEF LinkOf
<1>6. ASSUME NEW d \in open, NEW x \in Ends(d), NEW y \in Ends(d) \ {x}
      PROVE  LinkOf(d, x, y)'
  <2>1. n \in Ends(d) => n = x \/ n = y
    BY <1>1, <1>6, DialEnds
  <2> QED BY <1>4, <1>5, <1>6, <2>1
<1> QED BY <1>3, <1>6 DEF Heard

LEMMA SoundChains ==
    ASSUME Keeps(SoundNodes, MadeChains)
    PROVE  /\ ledger \in [Node -> SoundNodes] /\ SoundNodes \subseteq LedgerState
           /\ open \subseteq Dial /\ inbox \in Boxes(MadeChains, open)
           /\ \A k \in Node : /\ ledger[k] \in SoundNodes
                             /\ ledger[k].chain \in MadeChains /\ ledger[k].chain \in Seq(Block)
BY DEF Keeps, SoundNodes, SoundLedger, ProperChain, MadeChains

(* n only talks: its chain is the same, and it takes nothing. *)
LEMMA TalkHeard ==
    ASSUME HeardInv, NEW n \in Node, NEW m \in Mail(MadeChains),
           m.type \notin {"CHAIN", "NEW_BLOCK"}, NEW led, SetLedger(n, led),
           led.chain = ledger[n].chain, inbox' = Broadcast(inbox, n, <<m>>), UNCHANGED open
    PROVE  Heard'
<1> DEFINE c == ledger[n].chain
           over == Sockets(n)
<1>1. ledger \in [Node -> SoundNodes] /\ inbox \in Boxes(MadeChains, open) /\ c \in MadeChains
  BY SoundChains DEF HeardInv
<1>2. Range(<<m>>) = {m} /\ <<m>> \in Seq(Mail(MadeChains))
  BY DEF Range
<1>3. Acts(n, c, inbox, over, <<m>>)
  BY <1>1, <1>2 DEF Acts, Broadcast, SetLedger
<1>4. ASSUME NEW d, NEW o PROVE Answers(n, c, d, o, inbox, over, <<m>>)
  BY DEF Answers
<1> QED BY <1>1, <1>2, <1>3, <1>4, ActHeard

LEMMA MineHeard ==
    ASSUME HeardInv, NEW n \in Node, NEW miner \in Miner, NEW now \in Clock, Mine(n, miner, now)
    PROVE  Heard'
<1> DEFINE new == MinePendingTransactions(ledger[n], miner, now)
           block == NextBlock(ledger[n], miner, now)
           c == new.chain
           m == NewBlock(c)
           over == Sockets(n)
<1>1. /\ ledger \in [Node -> SoundNodes] /\ inbox \in Boxes(MadeChains, open)
      /\ ledger[n] \in SoundNodes /\ ledger[n].chain \in Seq(Block)
  BY SoundChains DEF HeardInv
<1>2. new \in SoundNodes
  BY <1>1, SoundNodesKept DEF Kept
<1>3. c \in MadeChains
  BY <1>2, SoundNodesKept DEF Kept
<1>4. ChainWork(ledger[n].chain) <= ChainWork(c)
  <2>1. block \in Block
    BY <1>1, NextBlockMade, NetworkAssumption DEF SoundNodes
  <2>2. c = Append(ledger[n].chain, block)
    BY DEF MinePendingTransactions
  <2>3. ChainWork(Append(ledger[n].chain, block)) > ChainWork(ledger[n].chain)
    BY <1>1, <2>1, WorkAppend
  <2>4. ChainWork(ledger[n].chain) \in Int /\ ChainWork(c) \in Int
    BY <1>1, <1>3, WorkType DEF MadeChains
  <2> HIDE DEF block, c
  <2> QED BY <2>2, <2>3, <2>4
<1>5. SetLedger(n, new) /\ inbox' = Broadcast(inbox, n, <<NewBlock(ledger'[n].chain)>>)
      /\ UNCHANGED open
  BY DEF Mine
<1> HIDE DEF new
<1>6. ledger' = [ledger EXCEPT ![n] = new]
  BY <1>5 DEF SetLedger
<1>7. ledger'[n].chain = c /\ m \in Mail(MadeChains)
  BY <1>1, <1>3, <1>6, MailSent
<1>8. \A k \in Node : ledger'[k].chain = IF k = n THEN c ELSE ledger[k].chain
  BY <1>1, <1>6
<1>9. m.type = "NEW_BLOCK" /\ m.data = c /\ Brings(m, c)
  BY DEF NewBlock, Brings
<1> HIDE DEF c, m
<1>10. Range(<<m>>) = {m} /\ <<m>> \in Seq(Mail(MadeChains))
  BY <1>7 DEF Range
<1>11. inbox' = Sent(inbox, n, over, <<m>>)
  BY <1>5, <1>7 DEF Broadcast, m
<1>12. Acts(n, c, inbox, over, <<m>>)
  BY <1>1, <1>5, <1>8, <1>9, <1>10, <1>11 DEF Acts
<1>13. ASSUME NEW d \in over, NEW o PROVE Answers(n, c, d, o, inbox, over, <<m>>)
  BY <1>4, <1>9, <1>10 DEF Answers
<1> QED BY <1>3, <1>10, <1>12, <1>13, ActHeard

(* What taking a message leaves. *)
LEMMA TakenLeaves ==
    ASSUME inbox \in Boxes(MadeChains, open), NEW e \in Dial, NEW n \in Node, inbox[e][n] # <<>>
    PROVE  /\ Taken(e, n) \in Boxes(MadeChains, open)
           /\ \A d \in Dial, k \in Node \ {n} : Taken(e, n)[d][k] = inbox[d][k]
           /\ \A d \in Dial : Range(Taken(e, n)[d][n]) \subseteq Range(inbox[d][n])
           /\ \A d \in Dial : \A m \in Range(inbox[d][n]) \ Range(Taken(e, n)[d][n]) :
                  d = e /\ m = Head(inbox[e][n])
           /\ e \in open /\ n \in Ends(e)
<1>1. inbox \in [Dial -> [Node -> Seq(Mail(MadeChains))]] /\ e \in open /\ n \in Ends(e)
  BY DEF Boxes
<1>2. inbox[e][n] \in Seq(Mail(MadeChains))
  BY BoxType
<1>3. Range(inbox[e][n]) = Range(Tail(inbox[e][n])) \cup {Head(inbox[e][n])}
  BY <1>2, TailRange
<1>4. \A d \in Dial, k \in Node :
         Taken(e, n)[d][k] = IF d = e /\ k = n THEN Tail(inbox[e][n]) ELSE inbox[d][k]
  BY <1>1 DEF Taken
<1> QED BY <1>1, <1>3, <1>4, TakenKeepsBoxes

(* n takes the first message from e, keeps its chain and sends on `over`.  *)
Handles(e, n, over, messages) ==
    LET m == Head(inbox[e][n])
        c == ledger[n].chain
    IN  /\ over \subseteq Sockets(n)
        /\ inbox' = Sent(Taken(e, n), n, over, messages)
        /\ open' = open
        /\ \A k \in Node : ledger'[k].chain = ledger[k].chain
        /\ \A r \in Range(messages) : r.type \in {"CHAIN", "NEW_BLOCK"} => r.data = c
        /\ m.type = "REQUEST_CHAIN" => e \in over /\ \E r \in Range(messages) : Brings(r, c)
        /\ \A o \in Ends(e) \ {n} :
              Brings(m, ledger[o].chain) =>
                  \/ ChainWork(ledger[o].chain) <= ChainWork(c)
                  \/ Len(ledger[o].chain) > MaxChainMessage
                  \/ e \in over /\ Asks(Range(messages))

LEMMA HandledHeard ==
    ASSUME HeardInv, NEW e \in Dial, NEW n \in Node, inbox[e][n] # <<>>,
           NEW over, NEW messages \in Seq(Mail(MadeChains)), Handles(e, n, over, messages)
    PROVE  Heard'
<1> DEFINE c == ledger[n].chain
           left == Taken(e, n)
           m == Head(inbox[e][n])
<1>1. inbox \in Boxes(MadeChains, open) /\ c \in MadeChains /\ open \subseteq Dial
  BY SoundChains DEF HeardInv
<1>2. /\ left \in Boxes(MadeChains, open)
      /\ \A d \in Dial, k \in Node \ {n} : left[d][k] = inbox[d][k]
      /\ \A d \in Dial : Range(left[d][n]) \subseteq Range(inbox[d][n])
      /\ \A d \in Dial : \A x \in Range(inbox[d][n]) \ Range(left[d][n]) : d = e /\ x = m
  BY <1>1, TakenLeaves
<1> HIDE DEF left
<1>3. inbox' = Sent(left, n, over, messages)
  BY DEF left, Handles
<1>4. Acts(n, c, left, over, messages)
  BY <1>2, <1>3 DEF Acts, Handles
<1>5. ASSUME NEW d \in Sockets(n), NEW o \in Ends(d) \ {n}
      PROVE  Answers(n, c, d, o, left, over, messages)
  <2>1. d \in Dial
    BY <1>1 DEF Sockets
  <2> QED BY <1>2, <2>1 DEF Answers, Handles
<1> QED BY <1>1, <1>4, <1>5, ActHeard

(* Sending nothing. *)
LEMMA NothingSent ==
    ASSUME NEW C, NEW boxes \in Boxes(C, open), NEW n
    PROVE  boxes = Sent(boxes, n, {}, <<>>)
<1>1. boxes \in [Dial -> [Node -> Seq(Mail(C))]]
  BY DEF Boxes
<1>2. \A d \in Dial : boxes[d] = [k \in Node |-> boxes[d][k]]
  BY <1>1
<1>3. boxes = [d \in Dial |-> [k \in Node |-> boxes[d][k]]]
  BY <1>1, <1>2
<1> QED BY <1>3 DEF Sent

(* n comes to the chain of a message of its only peer. *)
OnePeer == \A d, e \in Dial : Ends(d) = Ends(e) \/ Ends(d) \cap Ends(e) = {}

LEMMA AdoptedHeard ==
    ASSUME OnePeer, HeardInv, NEW e \in Dial, NEW n \in Node, inbox[e][n] # <<>>,
           NEW m, m = Head(inbox[e][n]), m.type \in {"CHAIN", "NEW_BLOCK"},
           NEW led, led.chain = m.data, SetLedger(n, led),
           ChainWork(ledger[n].chain) <= ChainWork(m.data),
           inbox' = Taken(e, n), UNCHANGED open
    PROVE  Heard'
<1> DEFINE c == m.data
           left == Taken(e, n)
<1>1. /\ ledger \in [Node -> SoundNodes] /\ inbox \in Boxes(MadeChains, open)
      /\ open \subseteq Dial
  BY SoundChains DEF HeardInv
<1>2. /\ left \in Boxes(MadeChains, open)
      /\ \A d \in Dial, k \in Node \ {n} : left[d][k] = inbox[d][k]
      /\ \A d \in Dial : Range(left[d][n]) \subseteq Range(inbox[d][n])
      /\ \A d \in Dial : \A x \in Range(inbox[d][n]) \ Range(left[d][n]) : d = e /\ x = m
      /\ e \in open /\ n \in Ends(e)
  BY <1>1, TakenLeaves
<1>3. m \in Mail(MadeChains) /\ m \in Range(inbox[e][n])
  <2>1. inbox[e][n] \in Seq(Mail(MadeChains))
    BY <1>1, BoxType
  <2>2. m \in Range(inbox[e][n])
    BY <2>1, TailRange
  <2> QED BY <1>1, <2>2, TakenKeepsBoxes
<1>4. c \in MadeChains /\ c \in Seq(Block) /\ ChainWork(c) \in Int
  BY <1>3, MailData, WorkType DEF MadeChains
<1>5. left = Sent(left, n, {}, <<>>)
  BY <1>2, NothingSent
<1> HIDE DEF left
<1>6. \A k \in Node : ledger'[k].chain = IF k = n THEN c ELSE ledger[k].chain
  BY <1>1 DEF SetLedger
<1>7. Range(<<>>) = {} /\ <<>> \in Seq(Mail(MadeChains))
  BY DEF Range
<1>8. inbox' = Sent(left, n, {}, <<>>)
  BY <1>5 DEF left
<1>9. Acts(n, c, left, {}, <<>>)
  BY <1>2, <1>6, <1>7, <1>8 DEF Acts
<1>10. ASSUME NEW d \in Sockets(n), NEW o \in Ends(d) \ {n}
       PROVE  Answers(n, c, d, o, left, {}, <<>>)
  <2>1. d \in Dial /\ n \in Ends(d)
    BY <1>1 DEF Sockets
  <2>2. o \in Ends(e) \ {n}
    BY <1>2, <2>1 DEF OnePeer
  <2>3. LinkOf(e, o, n)
    BY <1>2, <2>2 DEF HeardInv, Heard
  <2>4. ChainWork(c) <= ChainWork(ledger[o].chain)
    BY <1>3, <2>3 DEF LinkOf, Linked, Honest
  <2>5. Brings(m, ledger[o].chain) => ChainWork(ledger[o].chain) <= ChainWork(c)
    BY <1>4 DEF Brings
  <2>6. m.type # "REQUEST_CHAIN"
    OBVIOUS
  <2> QED BY <1>2, <2>1, <2>4, <2>5, <2>6 DEF Answers
<1> QED BY <1>4, <1>7, <1>9, <1>10, ActHeard

(* What opens is asked for, and what closes is no longer listened to.      *)
LEMMA OpenHeard ==
    ASSUME HeardInv, NEW d \in Dial, Open(d)
    PROVE  Heard'
<1> DEFINE asked == [n \in Node |-> IF n \in Ends(d) THEN <<RequestChain, RequestPending>> ELSE <<>>]
           B == Range(<<RequestChain, RequestPending>>)
<1>1. open \subseteq Dial /\ inbox \in [Dial -> [Node -> Seq(Mail(MadeChains))]]
  BY SoundChains DEF HeardInv, Boxes
<1>2. /\ inbox' = [inbox EXCEPT ![d] = asked] /\ open' = open \cup {d} /\ ledger' = ledger
      /\ d \notin open
  BY DEF Open
<1>3. inbox'[d] = asked /\ \A e \in open : inbox'[e] = inbox[e]
  BY <1>1, <1>2
<1>4. Asks(B) /\ \A m \in B : m.type \notin {"CHAIN", "NEW_BLOCK"}
  <2>1. B = {RequestChain, RequestPending}
    BY DEF Range
  <2> HIDE DEF B
  <2> QED BY <2>1 DEF Asks, RequestChain, RequestPending
<1>5. ASSUME NEW x \in Ends(d), NEW y \in Ends(d) PROVE LinkOf(d, x, y)'
  <2>1. x \in Node /\ y \in Node
    BY DialEnds
  <2>2. Range(inbox'[d][x]) = B /\ Range(inbox'[d][y]) = B
    BY <1>3, <2>1
  <2> HIDE DEF B
  <2> QED BY <1>4, <2>2, LinkOpens DEF LinkOf
<1>6. ASSUME NEW e \in open, NEW x \in Ends(e), NEW y \in Ends(e) \ {x} PROVE LinkOf(e, x, y)'
  <2>1. LinkOf(e, x, y)
    BY DEF HeardInv, Heard
  <2> QED BY <1>2, <1>3, <2>1 DEF LinkOf
<1> QED BY <1>2, <1>5, <1>6 DEF Heard

LEMMA ClosedHeard ==
    ASSUME HeardInv, NEW dials, Closed(dials),
           \A d \in open \ dials : \A k \in Ends(d) : ledger'[k] = ledger[k]
    PROVE  Heard'
<1>1. open \subseteq Dial
  BY SoundChains DEF HeardInv
<1>2. open' = open \ dials /\ \A d \in open \ dials : inbox'[d] = inbox[d]
  BY <1>1 DEF Closed
<1>3. ASSUME NEW d \in open', NEW x \in Ends(d), NEW y \in Ends(d) \ {x} PROVE LinkOf(d, x, y)'
  <2>1. LinkOf(d, x, y)
    BY <1>2 DEF HeardInv, Heard
  <2>2. ledger'[x] = ledger[x] /\ ledger'[y] = ledger[y] /\ inbox'[d] = inbox[d]
    BY <1>2
  <2> QED BY <2>1, <2>2 DEF LinkOf
<1> QED BY <1>3 DEF Heard

(* handleIncomingTransaction leaves the chain, and sends transactions.     *)
LEMMA IncomingHeard ==
    ASSUME HeardInv, NEW e \in Dial, NEW n \in Node, inbox[e][n] # <<>>,
           Head(inbox[e][n]).type \notin {"CHAIN", "NEW_BLOCK", "REQUEST_CHAIN"},
           NEW txs \in Seq(Transactions), Incoming(e, n, txs)
    PROVE  Heard'
<1> DEFINE run == Readmission(ledger[n], txs)
           admitted == {t \in Range(txs) :
                           \E i \in DOMAIN txs : txs[i] = t /\ Admissible(run[i - 1], t)}
           news == Subsequence(txs, admitted)
           sent == [i \in DOMAIN news |-> NewTransaction(news[i])]
           new == run[Len(txs)]
           over == Sockets(n)
           m == Head(inbox[e][n])
<1>1. ledger \in [Node -> SoundNodes] /\ SoundNodes \subseteq LedgerState /\ ledger[n] \in SoundNodes
  BY SoundChains DEF HeardInv
<1>2. new.chain = ledger[n].chain
  BY <1>1, AddKeepsNodes, ReadmissionOn
<1>3. sent \in Seq(Mail(MadeChains)) /\ \A r \in Range(sent) : r.type = "NEW_TRANSACTION"
  <2> HIDE DEF admitted
  <2> QED BY NewsAreMail
<1>4. SetLedger(n, new) /\ inbox' = Broadcast(Taken(e, n), n, sent) /\ UNCHANGED open
  BY DEF Incoming
<1> HIDE DEF new, sent
<1>5. \A k \in Node : ledger'[k].chain = ledger[k].chain
  BY <1>1, <1>2, <1>4 DEF SetLedger
<1>6. inbox' = Sent(Taken(e, n), n, over, sent)
  BY <1>4 DEF Broadcast
<1>7. \A r \in Range(sent) : r.type \in {"CHAIN", "NEW_BLOCK"} => r.data = ledger[n].chain
  BY <1>3
<1>8. m.type # "REQUEST_CHAIN" /\ \A c : ~Brings(m, c)
  BY DEF Brings
<1>9. Handles(e, n, over, sent)
  BY <1>4, <1>5, <1>6, <1>7, <1>8 DEF Handles
<1> QED BY <1>3, <1>9, HandledHeard

(* What is not adopted is of no more work, or is asked for again, or is    *)
(* too long for a message.                                                 *)
LEMMA RefusedHeard ==
    ASSUME Miner \subseteq Address, HeardInv, NEW e \in Dial, NEW n \in Node,
           inbox[e][n] # <<>>,
           \/ /\ Head(inbox[e][n]).type = "CHAIN"
              /\ \/ Len(Head(inbox[e][n]).data) > MaxChainMessage
                 \/ ~AcceptsChain(ledger[n], Head(inbox[e][n]).data)
              /\ inbox' = Taken(e, n)
           \/ /\ Head(inbox[e][n]).type = "NEW_BLOCK"
              /\ inbox' = Broadcast(Taken(e, n), n, <<RequestChain>>),
           UNCHANGED <<ledger, open>>
    PROVE  Heard'
<1> DEFINE m == Head(inbox[e][n])
           c == ledger[n].chain
<1>1. /\ ledger \in [Node -> SoundNodes] /\ inbox \in Boxes(MadeChains, open)
      /\ c \in Seq(Block)
  BY SoundChains DEF HeardInv
<1>2. Taken(e, n) \in Boxes(MadeChains, open) /\ m \in Mail(MadeChains) /\ e \in open /\ n \in Ends(e)
  BY <1>1, TakenKeepsBoxes, TakenLeaves
<1>3. ledger' = ledger /\ open' = open
  OBVIOUS
<1>4. CASE /\ m.type = "CHAIN"
           /\ Len(m.data) > MaxChainMessage \/ ~AcceptsChain(ledger[n], m.data)
           /\ inbox' = Taken(e, n)
  <2>1. inbox' = Sent(Taken(e, n), n, {}, <<>>)
    BY <1>2, <1>4, NothingSent
  <2>2. Range(<<>>) = {} /\ <<>> \in Seq(Mail(MadeChains))
    BY DEF Range
  <2>3. m.data \in MadeChains /\ m.data \in Seq(Block)
    BY <1>2, <1>4, MailData DEF MadeChains
  <2>4. IsValidChain(m.data)
    BY <2>3, KnownReceivers, ProperIsValid DEF MadeChains
  <2>5. Len(m.data) > MaxChainMessage \/ ChainWork(m.data) <= ChainWork(c)
    <3>1. ChainWork(m.data) \in Int /\ ChainWork(c) \in Int
      BY <1>1, <2>3, WorkType
    <3>2. Len(m.data) > MaxChainMessage \/ ~(ChainWork(m.data) > ChainWork(c))
      BY <1>4, <2>4 DEF AcceptsChain
    <3> QED BY <3>1, <3>2
  <2>6. Handles(e, n, {}, <<>>)
    BY <1>3, <1>4, <2>1, <2>2, <2>5 DEF Handles, Brings
  <2> QED BY <2>2, <2>6, HandledHeard
<1>5. CASE m.type = "NEW_BLOCK" /\ inbox' = Broadcast(Taken(e, n), n, <<RequestChain>>)
  <2> DEFINE asked == <<RequestChain>>
  <2>1. asked \in Seq(Mail(MadeChains))
    BY MailSent
  <2>2. Range(asked) = {RequestChain} /\ RequestChain.type = "REQUEST_CHAIN"
    BY DEF Range, RequestChain
  <2>3. e \in Sockets(n)
    BY <1>2 DEF Sockets
  <2>4. inbox' = Sent(Taken(e, n), n, Sockets(n), asked)
    BY <1>5 DEF Broadcast
  <2> HIDE DEF asked
  <2>5. Asks(Range(asked)) /\ \A r \in Range(asked) : r.type \notin {"CHAIN", "NEW_BLOCK"}
    BY <2>2 DEF Asks
  <2>6. Handles(e, n, Sockets(n), asked)
    BY <1>3, <1>5, <2>3, <2>4, <2>5 DEF Handles
  <2> QED BY <2>1, <2>6, HandledHeard
<1> QED BY <1>4, <1>5

LEMMA ReceiveHeard ==
    ASSUME OnePeer, Miner \subseteq Address, HeardInv, NEW e \in Dial, NEW n \in Node,
           Receive(e, n)
    PROVE  Heard'
<1> DEFINE m == Head(inbox[e][n])
           led == ledger[n]
<1>1. /\ ledger \in [Node -> SoundNodes] /\ SoundNodes \subseteq LedgerState
      /\ inbox \in Boxes(MadeChains, open)
      /\ led \in SoundNodes /\ led.chain \in MadeChains /\ led.chain \in Seq(Block)
  BY SoundChains DEF HeardInv
<1>2. inbox[e][n] # <<>>
  BY DEF Receive, Receives, OnRequestChain, OnChain, OnNewBlock, OnNewTransaction,
         OnRequestPending, OnPending
<1>3. m \in Mail(MadeChains) /\ e \in open /\ n \in Ends(e)
  BY <1>1, <1>2, TakenKeepsBoxes, TakenLeaves
<1>4. {e} \subseteq Sockets(n)
  BY <1>3 DEF Sockets
<1>5. CASE OnRequestChain(e, n)
  <2> DEFINE sent == <<ChainMessage(led.chain)>>
  <2>1. sent \in Seq(Mail(MadeChains))
    BY <1>1, MailSent
  <2>2. /\ \A r \in Range(sent) : r.data = led.chain
        /\ \E r \in Range(sent) : Brings(r, led.chain)
    <3>1. Range(sent) = {ChainMessage(led.chain)}
      BY DEF Range
    <3> HIDE DEF sent
    <3> QED BY <3>1 DEF ChainMessage, Brings
  <2>3. /\ m.type = "REQUEST_CHAIN" /\ inbox' = Sent(Taken(e, n), n, {e}, sent)
        /\ ledger' = ledger /\ open' = open
    BY <1>5 DEF OnRequestChain, Receives
  <2> HIDE DEF sent
  <2>4. Handles(e, n, {e}, sent)
    BY <1>4, <2>2, <2>3 DEF Handles, Brings
  <2> QED BY <1>2, <2>1, <2>4, HandledHeard
<1>6. CASE OnRequestPending(e, n)
  <2> DEFINE sent == <<PendingMessage(led.pendingTransactions)>>
  <2>1. sent \in Seq(Mail(MadeChains))
    BY <1>1, MailSent DEF SoundNodes
  <2>2. \A r \in Range(sent) : r.type \notin {"CHAIN", "NEW_BLOCK"}
    <3>1. Range(sent) = {PendingMessage(led.pendingTransactions)}
      BY DEF Range
    <3> HIDE DEF sent
    <3> QED BY <3>1 DEF PendingMessage
  <2>3. /\ m.type = "REQUEST_PENDING_TRANSACTIONS" /\ inbox' = Sent(Taken(e, n), n, {e}, sent)
        /\ ledger' = ledger /\ open' = open
    BY <1>6 DEF OnRequestPending, Receives
  <2> HIDE DEF sent
  <2>4. Handles(e, n, {e}, sent)
    BY <1>4, <2>2, <2>3 DEF Handles, Brings
  <2> QED BY <1>2, <2>1, <2>4, HandledHeard
<1>7. CASE OnChain(e, n)
  <2>1. m.type = "CHAIN" /\ inbox' = Taken(e, n) /\ open' = open
    BY <1>7 DEF OnChain, Receives
  <2>2. CASE Len(m.data) <= MaxChainMessage /\ AcceptsChain(led, m.data)
    <3> DEFINE c == m.data
               new == ReplaceChain(led, c)
    <3>1. SetLedger(n, new)
      BY <1>7, <2>2 DEF OnChain, Data
    <3>2. c \in MadeChains /\ c \in Seq(Block)
      BY <1>3, <2>1, MailData DEF MadeChains
    <3>3. new.chain = c
      BY <1>1, <3>2, AddKeepsNodes, EmptyOnMade, ReplaceChainOn DEF SoundNodes
    <3>4. ChainWork(led.chain) <= ChainWork(c)
      <4>1. ChainWork(led.chain) \in Int /\ ChainWork(c) \in Int
        BY <1>1, <3>2, WorkType
      <4>2. ChainWork(c) > ChainWork(led.chain)
        BY <2>2 DEF AcceptsChain
      <4> QED BY <4>1, <4>2
    <3> HIDE DEF new
    <3> QED BY <1>2, <2>1, <3>1, <3>3, <3>4, AdoptedHeard
  <2>3. CASE ~(Len(m.data) <= MaxChainMessage /\ AcceptsChain(led, m.data))
    <3>1. ledger' = ledger
      BY <1>7, <2>3 DEF OnChain, Data
    <3>2. Len(m.data) > MaxChainMessage \/ ~AcceptsChain(led, m.data)
      <4>1. m.data \in Seq(Block)
        BY <1>3, <2>1, MailData DEF MadeChains
      <4>2. Len(m.data) \in Nat /\ MaxChainMessage \in Nat
        BY <4>1, NetworkAssumption
      <4> QED BY <2>3, <4>2
    <3> QED BY <1>2, <2>1, <3>1, <3>2, RefusedHeard
  <2> QED BY <2>2, <2>3
<1>8. CASE OnNewBlock(e, n)
  <2>1. m.type = "NEW_BLOCK" /\ open' = open
    BY <1>8 DEF OnNewBlock, Receives
  <2>2. CASE AcceptsBlock(led, m.data)
    <3> DEFINE c == m.data
               new == AddBlock(led, c)
    <3>1. SetLedger(n, new) /\ inbox' = Taken(e, n)
      BY <1>8, <2>2 DEF OnNewBlock, Data
    <3>2. c \in Seq(Block)
      BY <1>3, <2>1, MailData DEF MadeChains
    <3>3. new.chain = c
      BY DEF AddBlock
    <3>4. c[Len(c)] \in Block /\ c = Append(led.chain, c[Len(c)])
      BY <2>2, <3>2, LastOfAccepted
    <3>5. ChainWork(led.chain) <= ChainWork(c)
      <4>1. ChainWork(led.chain) \in Int /\ ChainWork(c) \in Int
        BY <1>1, <3>2, WorkType
      <4>2. ChainWork(c) > ChainWork(led.chain)
        BY <1>1, <3>4, WorkAppend
      <4> QED BY <4>1, <4>2
    <3> HIDE DEF new
    <3> QED BY <1>2, <2>1, <3>1, <3>3, <3>5, AdoptedHeard
  <2>3. CASE ~AcceptsBlock(led, m.data)
    <3>1. inbox' = Broadcast(Taken(e, n), n, <<RequestChain>>) /\ ledger' = ledger
      BY <1>8, <2>3 DEF OnNewBlock, Data
    <3> QED BY <1>2, <2>1, <3>1, RefusedHeard
  <2> QED BY <2>2, <2>3
<1>9. CASE OnNewTransaction(e, n)
  <2> DEFINE t == m.data
  <2>1. m.type = "NEW_TRANSACTION" /\ Incoming(e, n, <<t>>)
    BY <1>9 DEF OnNewTransaction, Receives, Data
  <2>2. t \in Transactions
    BY <1>3, <2>1, MailData
  <2> HIDE DEF t
  <2>3. <<t>> \in Seq(Transactions)
    BY <2>2
  <2> QED BY <1>2, <2>1, <2>3, IncomingHeard
<1>10. CASE OnPending(e, n)
  <2>1. m.type = "PENDING_TRANSACTIONS" /\ Incoming(e, n, m.data)
    BY <1>10 DEF OnPending, Receives, Data
  <2>2. m.data \in Seq(Transactions)
    BY <1>3, <2>1, MailData
  <2> QED BY <1>2, <2>1, <2>2, IncomingHeard
<1> QED BY <1>5, <1>6, <1>7, <1>8, <1>9, <1>10 DEF Receive

LEMMA HeardStep ==
    ASSUME OnePeer, Miner \subseteq Address, HeardInv, [Next]_vars
    PROVE  Heard'
<1>1. /\ ledger \in [Node -> SoundNodes] /\ SoundNodes \subseteq LedgerState
      /\ open \subseteq Dial
  BY SoundChains DEF HeardInv
<1>2. ASSUME NEW n \in Node, NEW t \in Transactions, SubmitTransaction(n, t) PROVE Heard'
  <2> DEFINE led == AddTransaction(ledger[n], t)
             m == NewTransaction(t)
  <2>1. led.chain = ledger[n].chain
    BY <1>1, AddKeepsChain
  <2>2. m \in Mail(MadeChains) /\ m.type \notin {"CHAIN", "NEW_BLOCK"}
    BY MailSent DEF NewTransaction
  <2>3. SetLedger(n, led) /\ inbox' = Broadcast(inbox, n, <<m>>) /\ UNCHANGED open
    BY <1>2 DEF SubmitTransaction
  <2> HIDE DEF led, m
  <2> QED BY <2>1, <2>2, <2>3, TalkHeard
<1>3. ASSUME NEW n \in Node, NEW miner \in Miner, NEW now \in Clock, Mine(n, miner, now)
      PROVE  Heard'
  BY <1>3, MineHeard
<1>4. ASSUME NEW d \in Dial, Open(d) PROVE Heard'
  BY <1>4, OpenHeard
<1>5. ASSUME NEW d \in Dial, NEW n \in Node, Receive(d, n) PROVE Heard'
  BY <1>5, ReceiveHeard
<1>6. ASSUME NEW d \in Dial, Close(d) PROVE Heard'
  <2>1. Closed({d}) /\ ledger' = ledger
    BY <1>6 DEF Close
  <2> QED BY <2>1, ClosedHeard
<1>7. ASSUME NEW n \in Node, Restart(n) PROVE Heard'
  <2> DEFINE led == LoadState(ledger[n])
  <2>1. Closed(Sockets(n)) /\ SetLedger(n, led)
    BY <1>7 DEF Restart
  <2> HIDE DEF led
  <2>2. ASSUME NEW d \in open \ Sockets(n), NEW k \in Ends(d) PROVE ledger'[k] = ledger[k]
    <3>1. k \in Node /\ k # n
      BY <1>1, <2>2, DialEnds DEF Sockets
    <3> QED BY <1>1, <2>1, <3>1 DEF SetLedger
  <2> QED BY <2>1, <2>2, ClosedHeard
<1>8. CASE UNCHANGED vars
  <2>1. ledger' = ledger /\ open' = open /\ inbox' = inbox
    BY <1>8 DEF vars
  <2>2. Heard
    BY DEF HeardInv
  <2> QED BY <2>1, <2>2 DEF Heard, LinkOf
<1> QED BY <1>2, <1>3, <1>4, <1>5, <1>6, <1>7, <1>8
    DEF Next, Request, Communication, Failure

LEMMA HeardAgrees == HeardInv => QuietPeersAgree
<1> SUFFICES ASSUME HeardInv, NEW d \in open, \A n \in Ends(d) : Quiet(n),
                    ~BeyondMessage(d)
             PROVE  Work(d[1]) = Work(d[2])
  BY DEF QuietPeersAgree
<1> DEFINE x == d[1]
           y == d[2]
<1>1. d \in Dial /\ \A k \in Node : ledger[k].chain \in Seq(Block)
  BY SoundChains DEF HeardInv
<1>2. x \in Ends(d) /\ y \in Ends(d) \ {x} /\ x \in Node /\ y \in Node
  BY <1>1, DialEnds
<1>3. Work(x) \in Int /\ Work(y) \in Int
  BY <1>1, <1>2, WorkType DEF Work
<1>4. inbox[d][x] = <<>> /\ inbox[d][y] = <<>>
  BY <1>1, <1>2 DEF Quiet
<1>5. Range(<<>>) = {}
  BY DEF Range
<1>6. LinkOf(d, x, y)
  BY <1>2 DEF HeardInv, Heard
<1> HIDE DEF x, y
<1>7. /\ Work(x) <= Work(y) \/ Len(ledger[x].chain) > MaxChainMessage
      /\ Work(y) <= Work(x) \/ Len(ledger[y].chain) > MaxChainMessage
  BY <1>4, <1>5, <1>6 DEF LinkOf, Linked, Hears, Asks, Work
<1>8. Work(x) <= Work(y) /\ Work(y) <= Work(x)
  BY <1>2, <1>3, <1>7 DEF BeyondMessage
<1>9. Work(x) = Work(y)
  BY <1>3, <1>8
<1> QED BY <1>9 DEF x, y

(* Where a node has one peer, two connected nodes that wait for nothing    *)
(* have chains of the same work, whatever was announced, refused, asked    *)
(* for, answered and lost before.  With several peers they need not: run   *)
(* star shows a block that is taken and not sent on.                       *)
THEOREM QuietPeersHaveHeard ==
    ASSUME OnePeer, Miner \subseteq Address
    PROVE  Spec => []QuietPeersAgree
<1>1. Init => HeardInv
  <2>1. Init => Heard
    BY DEF Init, Heard
  <2> QED BY <2>1, InitSound DEF HeardInv
<1>2. HeardInv /\ [Next]_vars => HeardInv'
  <2>1. HeardInv /\ [Next]_vars => Heard'
    BY HeardStep
  <2> QED BY <2>1, StepSound DEF HeardInv
<1> QED BY <1>1, <1>2, HeardAgrees, PTL DEF Spec
=============================================================================
