-------------------------- MODULE BlockchainProofs --------------------------
(***************************************************************************)
(* What holds of every node, for all values of the constants: its state    *)
(* keeps its types, and its chain always pays for its mempool.             *)
(***************************************************************************)
EXTENDS Blockchain, LedgerTheorems, TLAPS

(* The inductive invariant.  Solvent alone is not inductive: what a block  *)
(* takes from a sender and what is left add up to what was pending only if *)
(* nothing is pending twice, and a reward is nobody's spending only if no  *)
(* address is the coinbase (GoodLedger).  NoncesContiguous alone is not    *)
(* either: a block confirms the first nonces of a sender only if they are  *)
(* pending in their order (Tidy), and ChainValid needs of the chain that   *)
(* its blocks are made, not only valid, so that the nonces in it are used  *)
(* up (ProperChain, in SoundLedger).  While the process is down the ledger *)
(* is the one the file had before a write was cut short, so that startup   *)
(* loads a good one.                                                       *)
IInv ==
    /\ GoodLedger(ledger)
    /\ TidyLedger(ledger)
    /\ disk \in {ledger, Torn}
    /\ up \in BOOLEAN
    /\ up => disk = ledger

LEMMA InitIInv == Init => IInv
BY FreshLedgerIsGood, FreshLedgerIsTidy DEF Init, IInv

(* A handler that leaves a good ledger, its mempool in order. *)
LEMMA HandleKeepsIInv ==
    ASSUME NEW led, GoodLedger(led), TidyLedger(led), Handle(led)
    PROVE  IInv'
<1>1. ledger' = led /\ disk' = led /\ up' = TRUE
  BY DEF Handle
<1>2. GoodLedger(ledger') /\ TidyLedger(ledger')
  BY <1>1
<1>3. GoodLedger(ledger)' /\ TidyLedger(ledger)'
  BY <1>2 DEF GoodLedger, Funded, TidyLedger, SoundLedger, Tidy
<1> QED BY <1>1, <1>3 DEF IInv

LEMMA StepKeepsIInv == IInv /\ [Next]_vars => IInv'
<1> SUFFICES ASSUME IInv, [Next]_vars PROVE IInv'
  OBVIOUS
<1>1. GoodLedger(ledger) /\ TidyLedger(ledger)
  BY DEF IInv
<1>2. \A t \in Transactions : t \in Signed
  BY BlockchainAssumption DEF Signed
<1>3. ASSUME NEW t \in Transactions, SubmitTransaction(t) PROVE IInv'
  <2>1. GoodLedger(AddTransaction(ledger, t)) /\ TidyLedger(AddTransaction(ledger, t))
    BY <1>1, <1>2, AddTransactionKeepsGood, AddTransactionKeepsTidy
  <2> QED BY <2>1, <1>3, HandleKeepsIInv DEF SubmitTransaction
<1>4. ASSUME NEW t \in Transactions, HandleIncomingTransaction(t) PROVE IInv'
  <2>1. GoodLedger(AddTransaction(ledger, t)) /\ TidyLedger(AddTransaction(ledger, t))
    BY <1>1, <1>2, AddTransactionKeepsGood, AddTransactionKeepsTidy
  <2> QED BY <2>1, <1>4, HandleKeepsIInv DEF HandleIncomingTransaction
<1>5. ASSUME NEW miner \in Miner, NEW now \in Clock, Mine(miner, now) PROVE IInv'
  <2>1. now \in Nat /\ now \in Nat \ {0}
    BY BlockchainAssumption
  <2> DEFINE new == MinePendingTransactions(ledger, miner, now)
  <2>2. GoodLedger(new) /\ TidyLedger(new)
    BY <1>1, <2>1, MineKeepsGood, MineKeepsTidy
  <2> QED BY <2>2, <1>5, HandleKeepsIInv DEF Mine
<1>6. CASE Crash
  <2>1. ledger' = ledger /\ up' = FALSE /\ disk' \in {disk, Torn}
    BY <1>6 DEF Crash
  <2>2. disk' \in {ledger', Torn}
    BY <2>1 DEF IInv
  <2>3. GoodLedger(ledger)' /\ TidyLedger(ledger)'
    BY <1>1, <2>1 DEF GoodLedger, Funded, TidyLedger, SoundLedger, Tidy
  <2> QED BY <2>1, <2>2, <2>3 DEF IInv
<1>7. CASE Start
  <2>1. disk = ledger /\ disk' = ledger' /\ up' = TRUE
    BY <1>7 DEF Start, IInv
  <2>2. SoundLedger(ledger) /\ ledger' = LoadState(ledger)
    BY <1>1, <1>7, <2>1 DEF Start, TidyLedger
  <2>3. GoodLedger(ledger') /\ TidyLedger(ledger')
    BY <1>1, <2>2, LoadKeepsGood, LoadKeepsTidy
  <2>4. GoodLedger(ledger)' /\ TidyLedger(ledger)'
    BY <2>3 DEF GoodLedger, Funded, TidyLedger, SoundLedger, Tidy
  <2> QED BY <2>1, <2>4 DEF IInv
<1>8. CASE UNCHANGED vars
  <2>1. GoodLedger(ledger)' /\ TidyLedger(ledger)'
    BY <1>1, <1>8 DEF GoodLedger, Funded, TidyLedger, SoundLedger, Tidy, vars
  <2> QED BY <1>8, <2>1 DEF IInv, vars
<1> QED BY <1>3, <1>4, <1>5, <1>6, <1>7, <1>8 DEF Next

(* IInv holds of every reachable state. *)
THEOREM Invariance == Spec => []IInv
<1> QED BY InitIInv, StepKeepsIInv, PTL DEF Spec

-----------------------------------------------------------------------------
LEMMA IInvImplies == IInv => TypeOK /\ Solvent
BY DEF IInv, GoodLedger, Funded, TypeOK, Solvent, pendingTransactions, chain

(* The state keeps its types: what the file holds is the ledger that the   *)
(* last handler left, unless its writing was cut short.                    *)
THEOREM TypeCorrect == Spec => []TypeOK
<1> QED BY Invariance, IInvImplies, PTL

(* The chain pays for the mempool: whatever was admitted, replaced, mined  *)
(* or reloaded, no sender has promised more than it has.                   *)
THEOREM Solvency == Spec => []Solvent
<1> QED BY Invariance, IInvImplies, PTL

LEMMA IInvOrders == IInv => NoncesContiguous /\ MempoolBounded
<1> SUFFICES ASSUME IInv PROVE NoncesContiguous /\ MempoolBounded
  OBVIOUS
<1>1. /\ ledger \in LedgerState /\ Tidy(ledger.chain, ledger.pendingTransactions)
  BY DEF IInv, TidyLedger, SoundLedger
<1>2. InOrder(ledger.chain, ledger.pendingTransactions)
  BY <1>1 DEF Tidy
<1>3. NoncesContiguous
  BY <1>1, <1>2, InOrderNonces DEF NoncesContiguous, pendingTransactions, chain
<1>4. MempoolBounded
  BY <1>1 DEF Tidy, MempoolBounded, pendingTransactions
<1> QED BY <1>3, <1>4

(* Whatever was submitted, relayed, replaced, mined or reloaded, the       *)
(* pending nonces of each sender are those that follow its confirmed ones. *)
THEOREM NoncesFollow == Spec => []NoncesContiguous
<1> QED BY Invariance, IInvOrders, PTL

(* No handler and no restart takes the mempool past addTransaction's       *)
(* limits, though a replacement is not held to them.                       *)
THEOREM MempoolFits == Spec => []MempoolBounded
<1> QED BY Invariance, IInvOrders, PTL

LEMMA IInvValid == IInv => (ReceiversKnown(chain) => ChainValid)
BY ProperIsValid DEF IInv, TidyLedger, SoundLedger, ChainValid, chain

(* What minePendingTransactions makes, isValidChain takes, as long as no   *)
(* reward goes to a miner that is not an address: POST /mine does not ask. *)
THEOREM MinedIsValid == Spec => [](ReceiversKnown(chain) => ChainValid)
<1> QED BY Invariance, IInvValid, PTL

(* A node that is only asked to mine for addresses has a valid chain.      *)
THEOREM ValidForAddresses ==
    ASSUME Miner \subseteq Address
    PROVE  Spec => []ChainValid
<1>1. IInv => ChainValid
  <2> SUFFICES ASSUME IInv PROVE ChainValid
    OBVIOUS
  <2>1. ledger.chain \in Seq(Block)
    BY DEF IInv, TidyLedger, SoundLedger, ProperChain
  <2> QED BY <2>1, KnownReceivers, IInvValid DEF chain
<1> QED BY <1>1, Invariance, PTL

LEMMA StartReloads == IInv /\ [Next]_vars => (Start /\ Reloadable(ledger) => UNCHANGED ledger)
<1> SUFFICES ASSUME IInv, Start, Reloadable(ledger) PROVE ledger' = ledger
  OBVIOUS
<1>1. GoodLedger(ledger) /\ TidyLedger(ledger) /\ disk = ledger
  BY DEF IInv, Start
<1> QED BY <1>1, LoadKeepsLedger DEF Start

(* A restart gives back the chain, the mempool and the difficulty of any   *)
(* ledger whose rewards went to addresses and that has no more data        *)
(* transactions of a sender than a new one is allowed to make: what        *)
(* isValidChain and the admission of the pending ones ask a second time is *)
(* still so.                                                               *)
THEOREM RestartReloads == Spec => [][Start /\ Reloadable(ledger) => UNCHANGED ledger]_vars
<1> QED BY Invariance, StartReloads, PTL DEF Spec

(* A node that never goes past the two restarts into what it saved, however *)
(* often it is stopped and wherever.                                        *)
THEOREM RestartKeepsLedger == Spec /\ []Reloadable(ledger) => StartKeepsLedger
<1> QED BY RestartReloads, PTL DEF StartKeepsLedger

-----------------------------------------------------------------------------
(* What a handler does to what is pending and to what the chain gives. *)

LEMMA OwedWeights ==
    ASSUME NEW a, NEW s \in Seq(Transaction)
    PROVE  /\ Weights(Owed(a), s) \in Seq(Int)
           /\ Len(Weights(Owed(a), s)) = Len(s)
           /\ \A i \in 1 .. Len(s) : Weights(Owed(a), s)[i] = Owed(a)[s[i]]
<1> DEFINE w == Owed(a)
<1>1. w \in [Transaction -> Int]
  BY OwedType
<1> HIDE DEF w
<1>2. /\ Weights(w, s) \in Seq(Int)
      /\ Len(Weights(w, s)) = Len(s)
      /\ \A i \in 1 .. Len(s) : Weights(w, s)[i] = w[s[i]]
  BY <1>1, WeightsType
<1> QED BY <1>2 DEF w

(* addTransaction where it replaces another of the same sender. *)
LEMMA ReplaceSpends ==
    ASSUME NEW p \in Seq(Transaction), NEW t \in Transaction, NEW c \in 1 .. Len(p),
           p[c].from = t.from, NEW q, q = [j \in 1 .. Len(p) |-> IF j = c THEN t ELSE p[j]],
           NEW a
    PROVE  Spent(q, a) <= Spent(p, a) + (IF t.from = a THEN Cost(t) ELSE 0)
           /\ (a # t.from => Spent(q, a) = Spent(p, a))
<1> DEFINE n == Len(p)
           w == Owed(a)
           m == Weights(w, q)
           r == Weights(w, p)
<1>1. q \in Seq(Transaction) /\ Len(q) = n /\ q[c] = t
      /\ \A j \in 1 .. n : j # c => q[j] = p[j]
  OBVIOUS
<1>2. w \in [Transaction -> Int] /\ \A u \in Transaction : w[u] \in Nat
  BY OwedType
<1>3. p[c] \in Transaction
  OBVIOUS
<1>4. w[t] = (IF t.from = a THEN Cost(t) ELSE 0)
      /\ w[p[c]] = (IF p[c].from = a THEN Cost(p[c]) ELSE 0)
  BY <1>3 DEF Owed
<1>5. Spent(q, a) = SumSeq(m) /\ Spent(p, a) = SumSeq(r)
  BY <1>1, SpentSum
<1> HIDE DEF w
<1>6. /\ m \in Seq(Int) /\ Len(m) = n /\ \A i \in 1 .. n : m[i] = w[q[i]]
      /\ r \in Seq(Int) /\ Len(r) = n /\ \A i \in 1 .. n : r[i] = w[p[i]]
  <2>1. \A s \in Seq(Transaction) :
           /\ Weights(w, s) \in Seq(Int) /\ Len(Weights(w, s)) = Len(s)
           /\ \A i \in 1 .. Len(s) : Weights(w, s)[i] = w[s[i]]
    BY OwedWeights DEF w
  <2> QED BY <2>1, <1>1
<1> HIDE DEF m, r
<1>7. SumSeq(m) = SumSeq(r) + (m[c] - r[c])
  <2>1. c \in 1 .. Len(m) /\ Len(r) = Len(m) /\ \A i \in 1 .. Len(m) : i # c => m[i] = r[i]
    BY <1>1, <1>6
  <2> QED BY <2>1, <1>6, SumSeqChange
<1>8. SumSeq(r) \in Int
  BY <1>6, SumSeqType
<1>9. m[c] = w[t] /\ r[c] = w[p[c]] /\ w[t] \in Nat /\ w[p[c]] \in Nat
  BY <1>1, <1>2, <1>3, <1>6
<1>10. a # t.from => w[t] = 0 /\ w[p[c]] = 0
  BY <1>4
<1>11. SumSeq(m) <= SumSeq(r) + w[t] /\ (a # t.from => SumSeq(m) = SumSeq(r))
  BY <1>7, <1>8, <1>9, <1>10
<1> QED BY <1>4, <1>5, <1>11

(* addTransaction leaves the chain, and what the other senders have        *)
(* pending.                                                                *)
LEMMA AddTransactionSpends ==
    ASSUME NEW led, GoodLedger(led), NEW t \in Signed, NEW new, new = AddTransaction(led, t),
           NEW a
    PROVE  /\ new.chain = led.chain
           /\ Spent(new.pendingTransactions, a)
                <= Spent(led.pendingTransactions, a) + (IF t.from = a THEN Cost(t) ELSE 0)
           /\ a # t.from =>
                Spent(new.pendingTransactions, a) = Spent(led.pendingTransactions, a)
<1> DEFINE p == led.pendingTransactions
           x == IF t.from = a THEN Cost(t) ELSE 0
<1>1. led \in LedgerState /\ p \in Seq(Transaction) /\ t \in Transaction
  BY SignedSeq DEF GoodLedger, Signed
<1>2. Spent(p, a) \in Nat /\ x \in Nat
  <2>1. Cost(t) \in Nat
    BY <1>1, TransactionFields DEF Cost
  <2>2. Spent(p, a) \in Nat
    <3> HIDE DEF p
    <3> QED BY <1>1, SpentNat
  <2> QED BY <2>1, <2>2
<1>3. CASE new = led
  <2> DEFINE s == Spent(p, a)
  <2>1. Spent(new.pendingTransactions, a) = s /\ new.chain = led.chain
    BY <1>3
  <2>2. s <= s + x
    <3> HIDE DEF s, x
    <3> QED BY <1>2 DEF s
  <2> QED BY <2>1, <2>2
<1>4. CASE Admissible(led, t) /\ Replaced(p, t) = {}
  <2>1. new = [led EXCEPT !.pendingTransactions = Append(@, t)]
    BY <1>4 DEF AddTransaction
  <2>2. new.pendingTransactions = Append(p, t) /\ new.chain = led.chain
    BY <1>1, <2>1 DEF LedgerState
  <2> HIDE DEF p
  <2>3. Spent(Append(p, t), a) = Spent(p, a) + x
    BY <1>1, SpentAppend
  <2>4. a # t.from => x = 0
    OBVIOUS
  <2> HIDE DEF x
  <2>5. Spent(Append(p, t), a) <= Spent(p, a) + x
        /\ (a # t.from => Spent(Append(p, t), a) = Spent(p, a))
    BY <1>2, <2>3, <2>4
  <2> QED BY <2>2, <2>5 DEF x, p
<1>5. CASE Admissible(led, t) /\ Replaced(p, t) # {}
  <2> DEFINE q == [j \in DOMAIN p |-> IF j \in Replaced(p, t) THEN t ELSE p[j]]
  <2>1. new = [led EXCEPT !.pendingTransactions = q]
    BY <1>5 DEF AddTransaction
  <2>2. new.pendingTransactions = q /\ new.chain = led.chain
    <3> HIDE DEF q
    <3> QED BY <1>1, <2>1 DEF LedgerState
  <2> HIDE DEF p
  <2>3. PICK c \in 1 .. Len(p) : Replaced(p, t) = {c} /\ p[c].from = t.from
    <3>1. PICK c \in Replaced(p, t) : TRUE
      BY <1>5
    <3>2. \A i, j \in Replaced(p, t) : i <= j
      BY DEF Replaced
    <3>3. Replaced(p, t) \subseteq 1 .. Len(p) /\ \A i \in Replaced(p, t) : p[i].from = t.from
      BY <1>1 DEF Replaced, IndicesFrom
    <3>4. \A i \in Replaced(p, t) : i = c
      BY <3>1, <3>2, <3>3, <1>1
    <3> QED BY <3>1, <3>3, <3>4
  <2>4. q = [j \in 1 .. Len(p) |-> IF j = c THEN t ELSE p[j]]
    BY <2>3, <1>1
  <2> HIDE DEF q
  <2>5. Spent(q, a) <= Spent(p, a) + (IF t.from = a THEN Cost(t) ELSE 0)
        /\ (a # t.from => Spent(q, a) = Spent(p, a))
    BY <1>1, <2>3, <2>4, ReplaceSpends
  <2> QED BY <2>2, <2>5 DEF p
<1> QED BY <1>3, <1>4, <1>5 DEF AddTransaction

(* minePendingTransactions. *)
LEMMA MineSettles ==
    ASSUME NEW led, GoodLedger(led), NEW miner \in Miner, NEW now \in Nat,
           NEW new, new = MinePendingTransactions(led, miner, now), NEW a \in Address
    PROVE  /\ Spent(new.pendingTransactions, a) <= Spent(led.pendingTransactions, a)
           /\ Balance(new.chain, a) - Spent(new.pendingTransactions, a)
                >= Balance(led.chain, a) - Spent(led.pendingTransactions, a)
<1> DEFINE p == led.pendingTransactions
           c == led.chain
           block == NextBlock(led, miner, now)
           left == RemovePending(p, block.transactions)
<1>1. PICK sel, reward :
         /\ sel \in Selections(p)
         /\ reward \in Transaction
         /\ reward.from = Coinbase
         /\ block \in Block
         /\ block.transactions = Append(sel, reward)
  BY NextBlockType DEF GoodLedger
<1>2. p \in Seq(Signed) /\ Distinct(p) /\ c \in Seq(Block)
  BY LedgerFields DEF GoodLedger
<1>3. new.chain = Append(c, block) /\ new.pendingTransactions = left
  BY DEF MinePendingTransactions
<1> HIDE DEF p, c, block, left
<1>4. left = RemovePending(p, block.transactions)
  BY DEF left
<1>5. Spent(left, a) <= Spent(p, a)
      /\ Balance(Append(c, block), a) - Spent(left, a) >= Balance(c, a) - Spent(p, a)
  BY <1>1, <1>2, <1>4, BlockSettles
<1> QED BY <1>3, <1>5 DEF p, c

(* loadState of a file it takes: the saved chain, and no more pending than *)
(* was saved.                                                              *)
LEMMA LoadSettles ==
    ASSUME NEW file, GoodLedger(file), Loads(file), NEW new, new = LoadState(file),
           NEW a \in Address
    PROVE  /\ new.chain = file.chain
           /\ Spent(new.pendingTransactions, a) <= Spent(file.pendingTransactions, a)
<1> DEFINE base == LoadBase(file)
           c == file.chain
           p == file.pendingTransactions
           n == Len(p)
           run == Readmission(base, p)
           w == Owed(a)
           m == Weights(w, p)
<1>1. c \in Seq(Block) /\ p \in Seq(Signed) /\ p \in Seq(Transaction)
      /\ n \in Nat /\ \A i \in 1 .. n : p[i] \in Signed /\ p[i] \in Transaction
  BY LedgerFields, SignedSeq DEF GoodLedger, Signed
<1>2. base.chain = c /\ base.pendingTransactions = <<>> /\ GoodLedger(base)
  BY LoadBaseIsGood DEF LoadBase
<1>3. new = run[n]
  BY DEF LoadState
<1>4. run = Readmission(base, p)
  OBVIOUS
<1> HIDE DEF run, base, c, p
<1>5. /\ run[0] = base
      /\ \A i \in 0 .. n : GoodLedger(run[i])
      /\ \A i \in 1 .. n : run[i] = AddTransaction(run[i - 1], p[i])
  BY <1>1, <1>2, <1>4, ReadmissionSteps
<1>6. m \in Seq(Int) /\ Len(m) = n /\ (\A i \in 1 .. n : m[i] = w[p[i]])
      /\ Spent(p, a) = SumSeq(m)
  BY <1>1, OwedWeights, SpentSum
<1> HIDE DEF n, m
<1>7. PICK g \in [0 .. n -> Int] :
         g[0] = 0 /\ (\A i \in 1 .. n : g[i] = g[i - 1] + m[i]) /\ SumSeq(m) = g[n]
  BY <1>6, SumSeqDef
<1> DEFINE S == {i \in 0 .. n : run[i].chain = c /\ Spent(run[i].pendingTransactions, a) <= g[i]}
<1>8. 0 \in S
  BY <1>1, <1>2, <1>5, <1>7, SpentNothing
<1>9. ASSUME NEW i \in 1 .. n, i - 1 \in S PROVE i \in S
  <2> DEFINE before == run[i - 1]
             after == run[i]
             x == IF p[i].from = a THEN Cost(p[i]) ELSE 0
             b == Spent(before.pendingTransactions, a)
             d == Spent(after.pendingTransactions, a)
  <2>1. GoodLedger(before) /\ GoodLedger(after) /\ after = AddTransaction(before, p[i])
        /\ p[i] \in Signed /\ p[i] \in Transaction
    BY <1>1, <1>5
  <2>2. before.chain = c /\ b <= g[i - 1]
    BY <1>9
  <2> HIDE DEF before, after
  <2>3. after.chain = before.chain /\ d <= b + x
    BY <2>1, AddTransactionSpends
  <2>4. b \in Nat /\ d \in Nat
    <3>1. before.pendingTransactions \in Seq(Transaction)
          /\ after.pendingTransactions \in Seq(Transaction)
      BY <2>1, LedgerFields DEF GoodLedger
    <3> QED BY <3>1, SpentNat
  <2>5. x = m[i] /\ x \in Nat
    <3>1. x = w[p[i]]
      BY <2>1 DEF Owed
    <3>2. Cost(p[i]) \in Nat
      BY <2>1, TransactionFields DEF Cost
    <3> QED BY <3>1, <3>2, <1>6
  <2>6. g[i] = g[i - 1] + m[i] /\ g[i] \in Int /\ g[i - 1] \in Int
    BY <1>1, <1>7 DEF n
  <2> HIDE DEF x, b, d
  <2>7. d <= g[i]
    BY <2>2, <2>3, <2>4, <2>5, <2>6
  <2> QED BY <2>2, <2>3, <2>7 DEF after, d
<1>10. n \in S
  <2>1. \A i \in 0 .. n : i \in S
    <3> HIDE DEF S
    <3> QED BY <1>1, <1>8, <1>9, IntervalInduction DEF n
  <2> QED BY <2>1, <1>1 DEF n
<1> QED BY <1>3, <1>6, <1>7, <1>10 DEF c, p

(* The constructor's ledger gives nobody anything. *)
LEMMA FreshLedgerIsEmpty ==
    ASSUME NEW a \in Address
    PROVE  Balance(FreshLedger.chain, a) = 0 /\ Spent(FreshLedger.pendingTransactions, a) = 0
<1>1. FreshLedger.chain = <<Genesis>> /\ FreshLedger.pendingTransactions = <<>>
  BY DEF FreshLedger
<1> QED BY <1>1, GenesisBalance, SpentNothing

-----------------------------------------------------------------------------
(* Each handler is a step of the accounts. *)

LEMMA AccountsTyped ==
    ASSUME NEW led, GoodLedger(led), NEW a \in Address
    PROVE  /\ Balance(led.chain, a) \in Int
           /\ Spent(led.pendingTransactions, a) \in Nat
           /\ Spent(led.pendingTransactions, a) <= Balance(led.chain, a)
<1> DEFINE c == led.chain
           p == led.pendingTransactions
<1>1. c \in Seq(Block) /\ p \in Seq(Transaction) /\ Spent(p, a) <= Balance(c, a)
  BY LedgerFields DEF GoodLedger, Funded
<1> HIDE DEF c, p
<1>2. Balance(c, a) \in Int /\ Spent(p, a) \in Nat
  BY <1>1, BalanceType, SpentNat
<1> QED BY <1>1, <1>2 DEF c, p

LEMMA SettleStep ==
    ASSUME GoodLedger(ledger), GoodLedger(ledger'),
           \A a \in Address :
              /\ Spent(ledger'.pendingTransactions, a) <= Spent(ledger.pendingTransactions, a)
              /\ Balance(ledger'.chain, a) - Spent(ledger'.pendingTransactions, a)
                   >= Balance(ledger.chain, a) - Spent(ledger.pendingTransactions, a)
    PROVE  AccountsOf!Settle
<1>1. \A a \in Address : /\ Balance(ledger'.chain, a) \in Int
                         /\ Spent(ledger'.pendingTransactions, a) \in Nat
  BY AccountsTyped
<1> QED BY <1>1 DEF AccountsOf!Settle, chain, pendingTransactions

LEMMA ReserveStep ==
    ASSUME GoodLedger(ledger), GoodLedger(ledger'), NEW s \in Address,
           ledger'.chain = ledger.chain,
           \A a \in Address : a # s =>
              Spent(ledger'.pendingTransactions, a) = Spent(ledger.pendingTransactions, a)
    PROVE  AccountsOf!Reserve(s)
<1> DEFINE r == Spent(ledger'.pendingTransactions, s)
<1>1. r \in 0 .. Balance(ledger.chain, s)
  <2>1. r \in Nat /\ Balance(ledger'.chain, s) \in Int /\ r <= Balance(ledger'.chain, s)
    BY AccountsTyped
  <2> HIDE DEF r
  <2> QED BY <2>1
<1> QED BY <1>1 DEF AccountsOf!Reserve, chain, pendingTransactions

LEMMA ResetStep ==
    ASSUME ledger' = FreshLedger
    PROVE  AccountsOf!Reset
BY FreshLedgerIsEmpty DEF AccountsOf!Reset, AccountsOf!Nothing, chain, pendingTransactions

LEMMA AddTransactionStep ==
    ASSUME GoodLedger(ledger), NEW t \in Signed, ledger' = AddTransaction(ledger, t)
    PROVE  AccountsOf!Next
<1>1. GoodLedger(ledger')
  BY AddTransactionKeepsGood
<1>2. ledger'.chain = ledger.chain
      /\ \A a \in Address : a # t.from =>
            Spent(ledger'.pendingTransactions, a) = Spent(ledger.pendingTransactions, a)
  BY AddTransactionSpends
<1>3. t.from \in Address
  BY DEF Signed
<1>4. AccountsOf!Reserve(t.from)
  BY <1>1, <1>2, <1>3, ReserveStep
<1> QED BY <1>3, <1>4 DEF AccountsOf!Next

LEMMA MineStep ==
    ASSUME GoodLedger(ledger), NEW miner \in Miner, NEW now \in Nat,
           ledger' = MinePendingTransactions(ledger, miner, now)
    PROVE  AccountsOf!Next
<1>1. GoodLedger(ledger')
  BY MineKeepsGood
<1>2. \A a \in Address :
         /\ Spent(ledger'.pendingTransactions, a) <= Spent(ledger.pendingTransactions, a)
         /\ Balance(ledger'.chain, a) - Spent(ledger'.pendingTransactions, a)
              >= Balance(ledger.chain, a) - Spent(ledger.pendingTransactions, a)
  BY MineSettles
<1>3. AccountsOf!Settle
  BY <1>1, <1>2, SettleStep
<1> QED BY <1>3 DEF AccountsOf!Next

LEMMA LoadStep ==
    ASSUME GoodLedger(ledger), ledger' = LoadState(ledger)
    PROVE  AccountsOf!Next
<1>1. CASE ~Loads(ledger)
  <2>1. ledger' = FreshLedger
    BY <1>1 DEF LoadState
  <2>2. AccountsOf!Reset
    BY <2>1, ResetStep
  <2> QED BY <2>2 DEF AccountsOf!Next
<1>2. CASE Loads(ledger)
  <2>1. GoodLedger(ledger')
    BY LoadKeepsGood
  <2>2. ASSUME NEW a \in Address
        PROVE  /\ Spent(ledger'.pendingTransactions, a) <= Spent(ledger.pendingTransactions, a)
               /\ Balance(ledger'.chain, a) - Spent(ledger'.pendingTransactions, a)
                    >= Balance(ledger.chain, a) - Spent(ledger.pendingTransactions, a)
    <3> DEFINE x == Spent(ledger'.pendingTransactions, a)
               y == Spent(ledger.pendingTransactions, a)
               z == Balance(ledger.chain, a)
    <3>1. ledger'.chain = ledger.chain /\ x <= y
      BY <1>2, LoadSettles
    <3>2. x \in Nat /\ y \in Nat /\ z \in Int
      BY <2>1, AccountsTyped
    <3>3. Balance(ledger'.chain, a) = z
      BY <3>1
    <3> HIDE DEF x, y, z
    <3>4. z - x >= z - y
      BY <3>1, <3>2
    <3> QED BY <3>1, <3>3, <3>4 DEF x, y, z
  <2>3. AccountsOf!Settle
    BY <2>1, <2>2, SettleStep
  <2> QED BY <2>3 DEF AccountsOf!Next
<1> QED BY <1>1, <1>2

LEMMA SameLedgerStep ==
    ASSUME ledger' = ledger
    PROVE  UNCHANGED AccountsOf!vars
BY DEF AccountsOf!vars, chain, pendingTransactions

LEMMA InitImplements == Init => AccountsOf!Init
BY FreshLedgerIsEmpty
   DEF Init, AccountsOf!Init, AccountsOf!Nothing, chain, pendingTransactions

LEMMA StepImplements == IInv /\ [Next]_vars => [AccountsOf!Next]_AccountsOf!vars
<1> SUFFICES ASSUME IInv, [Next]_vars PROVE [AccountsOf!Next]_AccountsOf!vars
  OBVIOUS
<1>1. GoodLedger(ledger)
  BY DEF IInv
<1>2. \A t \in Transactions : t \in Signed
  BY BlockchainAssumption DEF Signed
<1>3. ASSUME NEW t \in Transactions, SubmitTransaction(t) \/ HandleIncomingTransaction(t)
      PROVE  AccountsOf!Next
  BY <1>1, <1>2, <1>3, AddTransactionStep DEF SubmitTransaction, HandleIncomingTransaction, Handle
<1>4. ASSUME NEW miner \in Miner, NEW now \in Clock, Mine(miner, now) PROVE AccountsOf!Next
  <2>1. now \in Nat
    BY BlockchainAssumption
  <2> QED BY <1>1, <1>4, <2>1, MineStep DEF Mine, Handle
<1>5. CASE Crash
  BY <1>5, SameLedgerStep DEF Crash
<1>6. CASE Start
  <2>1. ledger' = LoadState(ledger)
    BY <1>6 DEF Start, IInv
  <2> QED BY <1>1, <2>1, LoadStep
<1>7. CASE UNCHANGED vars
  BY <1>7, SameLedgerStep DEF vars
<1> QED BY <1>3, <1>4, <1>5, <1>6, <1>7 DEF Next

(* A node implements the accounts of Accounts.tla: a transaction is        *)
(* admitted only against money that is there, and neither a block nor a    *)
(* restart leaves anybody with less than was promised.                     *)
THEOREM Refinement == Spec => ImplementsAccounts
<1>1. Init /\ [][Next]_vars /\ []IInv => AccountsOf!Init /\ [][AccountsOf!Next]_AccountsOf!vars
  BY InitImplements, StepImplements, PTL
<1> QED BY <1>1, Invariance, PTL DEF Spec, ImplementsAccounts, AccountsOf!Spec

(* What is promised to the holders: every step of the accounts keeps each  *)
(* of them covered.                                                        *)
THEOREM NeverOverdrawn ==
    AccountsOf!Spec => [](AccountsOf!TypeOK /\ AccountsOf!Covered)
<1>1. AccountsOf!Init => AccountsOf!TypeOK /\ AccountsOf!Covered
  BY DEF AccountsOf!Init, AccountsOf!Nothing, AccountsOf!TypeOK, AccountsOf!Covered
<1>2. /\ AccountsOf!TypeOK /\ AccountsOf!Covered
      /\ [AccountsOf!Next]_AccountsOf!vars
      => (AccountsOf!TypeOK /\ AccountsOf!Covered)'
  <2> SUFFICES ASSUME AccountsOf!TypeOK, AccountsOf!Covered,
                      [AccountsOf!Next]_AccountsOf!vars
               PROVE  AccountsOf!TypeOK' /\ AccountsOf!Covered'
    OBVIOUS
  <2>1. CASE \E a \in Address : AccountsOf!Reserve(a)
    <3> DEFINE b == [a \in Address |-> Balance(chain, a)]
               r == [a \in Address |-> Spent(pendingTransactions, a)]
    <3>1. \E a \in Address : \E n \in 0 .. b[a] : r' = [r EXCEPT ![a] = n] /\ b' = b
      BY <2>1 DEF AccountsOf!Reserve
    <3>2. b \in [Address -> Int] /\ r \in [Address -> Nat] /\ \A c \in Address : r[c] <= b[c]
      BY DEF AccountsOf!TypeOK, AccountsOf!Covered
    <3> HIDE DEF b, r
    <3>3. b' \in [Address -> Int] /\ r' \in [Address -> Nat] /\ \A c \in Address : r'[c] <= b'[c]
      BY <3>1, <3>2
    <3> QED BY <3>3 DEF b, r, AccountsOf!TypeOK, AccountsOf!Covered
  <2>2. CASE AccountsOf!Settle
    BY <2>2 DEF AccountsOf!Settle, AccountsOf!TypeOK, AccountsOf!Covered
  <2>3. CASE AccountsOf!Reset
    BY <2>3 DEF AccountsOf!Reset, AccountsOf!Nothing, AccountsOf!TypeOK, AccountsOf!Covered
  <2>4. CASE UNCHANGED AccountsOf!vars
    BY <2>4 DEF AccountsOf!vars, AccountsOf!TypeOK, AccountsOf!Covered
  <2> QED BY <2>1, <2>2, <2>3, <2>4 DEF AccountsOf!Next
<1> QED BY <1>1, <1>2, PTL DEF AccountsOf!Spec

-----------------------------------------------------------------------------
(* Receipts. *)

(* A receipt of `old` and the one that `new` gives of the same transaction *)
(* (the action of NeverDropped).                                           *)
Forward(old, new, t) ==
    LET before == Receipt(old, t)
        after  == Receipt(new, t)
    IN  CASE after.status = "confirmed" ->
               /\ after.confirmations = before.confirmations + Len(new.chain) - Len(old.chain)
               /\ before.status = "confirmed" => after.blockHeight = before.blockHeight
          [] after.status = "pending" -> before.status = "pending"
          [] after.status = "not_found" ->
               /\ before.status = "pending"
               /\ \E u \in Range(new.pendingTransactions) :
                     /\ u.from = t.from /\ u.nonce = t.nonce
                     /\ u.fee >= t.fee + MinReplacementFeeBump

(* The transactions a ledger knows. *)
Known(led) ==
    Range(led.pendingTransactions) \cup UNION {Range(b.transactions) : b \in Range(led.chain)}

LEMMA ReceiptCases ==
    ASSUME NEW led, NEW t
    PROVE  LET B == BlocksWith(led.chain, t)
               r == Receipt(led, t)
           IN  /\ B # {} => /\ r.status = "confirmed" /\ r.blockHeight = Min(B) - 1
                            /\ r.confirmations = Len(led.chain) - Min(B) + 1
               /\ B = {} /\ t \in Range(led.pendingTransactions)
                    => r.status = "pending" /\ r.confirmations = 0
               /\ B = {} /\ t \notin Range(led.pendingTransactions) => r.status = "not_found"
BY DEF Receipt

LEMMA KnownSomewhere ==
    ASSUME NEW led \in LedgerState, NEW t \in Known(led), t \notin Range(led.pendingTransactions)
    PROVE  BlocksWith(led.chain, t) # {}
<1>1. PICK b \in Range(led.chain) : t \in Range(b.transactions)
  BY DEF Known
<1>2. PICK i \in DOMAIN led.chain : led.chain[i] = b
  BY DEF Range
<1> QED BY <1>1, <1>2 DEF BlocksWith

LEMMA MinIsLeast ==
    ASSUME NEW S, S \subseteq Nat, S # {}
    PROVE  Min(S) \in S /\ \A y \in S : Min(S) <= y
<1>1. \E x \in S : \A y \in S : x <= y
  BY LeastNat
<1> QED BY <1>1 DEF Min

(* What a block confirms stands in it, what was confirmed stays there.     *)
LEMMA BlockConfirms ==
    ASSUME NEW chain1 \in Seq(Block), NEW block \in Block, NEW t
    PROVE  LET new == Append(chain1, block)
               B   == BlocksWith(chain1, t)
               C   == BlocksWith(new, t)
           IN  /\ B # {} => C # {} /\ Min(C) = Min(B)
               /\ B = {} /\ t \in Range(block.transactions) => C # {} /\ Min(C) = Len(new)
               /\ B = {} /\ t \notin Range(block.transactions) => C = {}
               /\ C \subseteq 1 .. Len(new)
<1> DEFINE new == Append(chain1, block)
           B == BlocksWith(chain1, t)
           C == BlocksWith(new, t)
           n == Len(chain1)
           here == t \in Range(block.transactions)
<1>1. /\ n \in Nat /\ DOMAIN chain1 = 1 .. n /\ DOMAIN new = 1 .. n + 1 /\ new[n + 1] = block
      /\ \A i \in 1 .. n : new[i] = chain1[i]
      /\ Len(new) = n + 1
  OBVIOUS
<1> HIDE DEF n, new
<1>2. \A i : i \in 1 .. n + 1 <=> (i \in 1 .. n \/ i = n + 1)
  BY <1>1
<1>3. B \subseteq 1 .. n /\ C \subseteq 1 .. n + 1
  BY <1>1 DEF BlocksWith
<1>4. \A i : i \in C <=> (i \in B \/ (i = n + 1 /\ here))
  BY <1>1, <1>2 DEF BlocksWith
<1> HIDE DEF B, C, here
<1>5. B \subseteq Nat /\ C \subseteq Nat
  BY <1>1, <1>3
<1>6. C # {} => Min(C) \in C /\ \A y \in C : Min(C) <= y
  BY <1>5, MinIsLeast
<1>7. ASSUME B # {} PROVE C # {} /\ Min(C) = Min(B)
  <2>1. Min(B) \in B /\ \A y \in B : Min(B) <= y
    BY <1>5, <1>7, MinIsLeast
  <2>2. Min(B) \in C /\ Min(C) \in C /\ Min(C) <= Min(B)
    BY <1>4, <1>6, <2>1
  <2>3. Min(C) \in B => Min(B) <= Min(C)
    BY <2>1
  <2> DEFINE x == Min(B)
             y == Min(C)
  <2>4. x \in 1 .. n /\ y \in Nat /\ y <= x /\ (y \in B => x <= y) /\ (y \in B \/ y = n + 1)
    BY <1>3, <1>4, <1>5, <2>1, <2>2, <2>3
  <2> HIDE DEF x, y
  <2>5. x = y
    BY <1>1, <2>4
  <2> QED BY <2>2, <2>5 DEF x, y
<1>8. ASSUME B = {}, here PROVE C # {} /\ Min(C) = n + 1
  <2>1. C = {n + 1}
    BY <1>4, <1>8
  <2> QED BY <1>6, <2>1
<1>9. B = {} /\ ~here => C = {}
  BY <1>4
<1> QED BY <1>1, <1>3, <1>7, <1>8, <1>9 DEF B, C, here, new

LEMMA SameForward ==
    ASSUME NEW led \in LedgerState, NEW t \in Known(led)
    PROVE  Forward(led, led, t)
<1> DEFINE r == Receipt(led, t)
           n == Len(led.chain)
           B == BlocksWith(led.chain, t)
<1>1. n \in Nat /\ B \subseteq 1 .. n /\ B \subseteq Nat
  BY DEF LedgerState, BlocksWith
<1>2. B # {} => r.status = "confirmed" /\ r.confirmations = n - Min(B) + 1
  BY ReceiptCases
<1>3. B = {} => r.status = "pending"
  BY KnownSomewhere, ReceiptCases
<1> HIDE DEF B, n
<1>4. B # {} => Min(B) \in Nat
  BY <1>1, MinIsLeast
<1>5. r.status = "confirmed" => r.confirmations = r.confirmations + n - n
  BY <1>1, <1>2, <1>3, <1>4
<1>6. r.status \in {"confirmed", "pending"}
  BY <1>2, <1>3
<1> HIDE DEF r
<1> QED BY <1>5, <1>6 DEF Forward, r, n

LEMMA AddForward ==
    ASSUME NEW led \in LedgerState, NEW u, NEW t \in Known(led)
    PROVE  Forward(led, AddTransaction(led, u), t)
<1> DEFINE new == AddTransaction(led, u)
           n == Len(led.chain)
           B == BlocksWith(led.chain, t)
           r == Receipt(led, t)
           s == Receipt(new, t)
<1>1. new.chain = led.chain
  BY DEF AddTransaction, LedgerState
<1>2. n \in Nat /\ B \subseteq Nat
  BY DEF LedgerState, BlocksWith
<1>3. CASE B # {}
  <2>1. /\ r.status = "confirmed" /\ r.blockHeight = Min(B) - 1 /\ r.confirmations = n - Min(B) + 1
        /\ s.status = "confirmed" /\ s.blockHeight = Min(B) - 1 /\ s.confirmations = n - Min(B) + 1
    BY <1>1, <1>3, ReceiptCases
  <2> HIDE DEF B, r, s, n, new
  <2>2. Min(B) \in Nat
    BY <1>2, <1>3, MinIsLeast
  <2>3. s.confirmations = r.confirmations + n - n /\ s.blockHeight = r.blockHeight
    BY <1>2, <2>1, <2>2
  <2>4. s.confirmations = r.confirmations + Len(new.chain) - Len(led.chain)
    BY <1>1, <2>3 DEF n
  <2> QED BY <2>1, <2>3, <2>4 DEF Forward, r, s, new
<1>4. CASE B = {}
  <2>1. t \in Range(led.pendingTransactions) /\ r.status = "pending"
    BY <1>4, KnownSomewhere, ReceiptCases
  <2>2. CASE t \in Range(new.pendingTransactions)
    <3>1. s.status = "pending"
      BY <1>1, <1>4, <2>2, ReceiptCases
    <3> HIDE DEF r, s, new
    <3> QED BY <2>1, <3>1 DEF Forward, r, s, new
  <2>3. CASE t \notin Range(new.pendingTransactions)
    <3>1. s.status = "not_found"
      BY <1>1, <1>4, <2>3, ReceiptCases
    <3>2. \E x \in Range(new.pendingTransactions) :
             /\ x.from = t.from /\ x.nonce = t.nonce
             /\ x.fee >= t.fee + MinReplacementFeeBump
      BY <2>1, <2>3, AddOutbids
    <3> HIDE DEF r, s, new
    <3> QED BY <2>1, <3>1, <3>2 DEF Forward, r, s, new
  <2> QED BY <2>2, <2>3
<1> QED BY <1>3, <1>4

LEMMA MineForward ==
    ASSUME NEW led, GoodLedger(led), NEW miner \in Miner, NEW now \in Nat, NEW t \in Known(led)
    PROVE  Forward(led, MinePendingTransactions(led, miner, now), t)
<1> DEFINE new == MinePendingTransactions(led, miner, now)
           block == NextBlock(led, miner, now)
           p == led.pendingTransactions
           n == Len(led.chain)
           B == BlocksWith(led.chain, t)
           C == BlocksWith(new.chain, t)
           r == Receipt(led, t)
           s == Receipt(new, t)
<1>1. led \in LedgerState /\ led.chain \in Seq(Block) /\ n \in Nat /\ p \in Seq(Transaction)
  BY DEF GoodLedger, LedgerState
<1>2. block \in Block
  BY <1>1, NextBlockType
<1>3. /\ new.chain = Append(led.chain, block)
      /\ new.pendingTransactions = RemovePending(p, block.transactions)
  BY DEF MinePendingTransactions
<1>4. Len(new.chain) = n + 1
  BY <1>1, <1>3
<1>5. B \subseteq Nat
  BY <1>1 DEF BlocksWith
<1>6. /\ B # {} => C # {} /\ Min(C) = Min(B)
      /\ B = {} /\ t \in Range(block.transactions) => C # {} /\ Min(C) = n + 1
      /\ B = {} /\ t \notin Range(block.transactions) => C = {}
  BY <1>1, <1>2, <1>3, <1>4, BlockConfirms
<1> HIDE DEF block
<1>7. CASE B # {}
  <2>1. /\ r.status = "confirmed" /\ r.blockHeight = Min(B) - 1 /\ r.confirmations = n - Min(B) + 1
        /\ s.status = "confirmed" /\ s.blockHeight = Min(B) - 1
        /\ s.confirmations = (n + 1) - Min(B) + 1
    BY <1>4, <1>6, <1>7, ReceiptCases
  <2> HIDE DEF B, C, r, s, n, new
  <2>2. Min(B) \in Nat
    BY <1>1, <1>5, <1>7, MinIsLeast
  <2>3. s.confirmations = r.confirmations + (n + 1) - n /\ s.blockHeight = r.blockHeight
    BY <1>1, <2>1, <2>2
  <2>4. s.confirmations = r.confirmations + Len(new.chain) - Len(led.chain)
    BY <1>4, <2>3 DEF n
  <2> QED BY <2>1, <2>3, <2>4 DEF Forward, r, s, new
<1>8. CASE B = {} /\ t \in Range(block.transactions)
  <2>1. /\ r.status = "pending" /\ r.confirmations = 0
        /\ s.status = "confirmed" /\ s.confirmations = (n + 1) - (n + 1) + 1
    BY <1>1, <1>4, <1>6, <1>8, KnownSomewhere, ReceiptCases
  <2> HIDE DEF B, C, r, s, n, new
  <2>2. s.confirmations = r.confirmations + (n + 1) - n
    BY <1>1, <2>1
  <2>3. s.confirmations = r.confirmations + Len(new.chain) - Len(led.chain)
    BY <1>4, <2>2 DEF n
  <2>4. r.status # "confirmed"
    BY <2>1
  <2> QED BY <2>1, <2>3, <2>4 DEF Forward, r, s, new
<1>9. CASE B = {} /\ t \notin Range(block.transactions)
  <2>1. t \in Range(p) /\ r.status = "pending"
    BY <1>1, <1>9, KnownSomewhere, ReceiptCases
  <2>2. t \in Range(new.pendingTransactions)
    BY <1>1, <1>3, <1>9, <2>1, RemoveLeaves
  <2>3. s.status = "pending"
    BY <1>6, <1>9, <2>2, ReceiptCases
  <2> HIDE DEF r, s, new
  <2> QED BY <2>1, <2>3 DEF Forward, r, s, new
<1> QED BY <1>7, <1>8, <1>9

LEMMA ForwardStep ==
    ASSUME IInv, [Next]_vars, Start => UNCHANGED ledger, NEW t \in Known(ledger)
    PROVE  Forward(ledger, ledger', t)
<1>1. GoodLedger(ledger) /\ ledger \in LedgerState
  BY DEF IInv, GoodLedger
<1>2. ASSUME NEW u \in Transactions, SubmitTransaction(u) \/ HandleIncomingTransaction(u)
      PROVE  Forward(ledger, ledger', t)
  <2>1. ledger' = AddTransaction(ledger, u)
    BY <1>2 DEF SubmitTransaction, HandleIncomingTransaction, Handle
  <2> QED BY <1>1, <2>1, AddForward
<1>3. ASSUME NEW miner \in Miner, NEW now \in Clock, Mine(miner, now)
      PROVE  Forward(ledger, ledger', t)
  <2>1. now \in Nat
    BY BlockchainAssumption
  <2>2. ledger' = MinePendingTransactions(ledger, miner, now)
    BY <1>3 DEF Mine, Handle
  <2> QED BY <1>1, <2>1, <2>2, MineForward
<1>4. CASE UNCHANGED ledger
  BY <1>1, <1>4, SameForward
<1>5. Crash \/ Start \/ UNCHANGED vars => UNCHANGED ledger
  BY DEF Crash, vars
<1> QED BY <1>2, <1>3, <1>4, <1>5 DEF Next

(* Receipts only go forward, from pending to confirmed or to outbid, as    *)
(* long as restarts give back the ledger: nothing else that a node does    *)
(* takes a transaction out of its chain or its mempool.                    *)
THEOREM ReceiptsForward == Spec /\ StartKeepsLedger => NeverDropped
<1> DEFINE A == \A t \in Known(ledger) : Forward(ledger, ledger', t)
<1>1. IInv /\ [Next]_vars /\ [Start => UNCHANGED ledger]_vars => [A]_vars
  <2> SUFFICES ASSUME IInv, [Next]_vars, [Start => UNCHANGED ledger]_vars, ~UNCHANGED vars,
                      NEW t \in Known(ledger)
               PROVE  Forward(ledger, ledger', t)
    OBVIOUS
  <2> QED BY ForwardStep
<1>2. [A]_vars =>
        [\A t \in Range(pendingTransactions) \cup UNION {Range(b.transactions) : b \in Range(chain)} :
          LET before == Receipt(ledger, t)
              after  == Receipt(ledger', t)
          IN  CASE after.status = "confirmed" ->
                     /\ after.confirmations = before.confirmations + Len(chain') - Len(chain)
                     /\ before.status = "confirmed" => after.blockHeight = before.blockHeight
                [] after.status = "pending" -> before.status = "pending"
                [] after.status = "not_found" ->
                     /\ before.status = "pending"
                     /\ \E u \in Range(ledger'.pendingTransactions) :
                           /\ u.from = t.from /\ u.nonce = t.nonce
                           /\ u.fee >= t.fee + MinReplacementFeeBump]_vars
  BY DEF Forward, Known, chain, pendingTransactions
<1> HIDE DEF A
<1> QED BY <1>1, <1>2, Invariance, PTL DEF Spec, StartKeepsLedger, NeverDropped

(* So of a node that stays within the two limits of Reloadable.            *)
THEOREM ReloadableNeverDrops == Spec /\ []Reloadable(ledger) => NeverDropped
<1> QED BY ReceiptsForward, RestartKeepsLedger
-----------------------------------------------------------------------------
(* Money, and what the node tells about it. *)

LEMMA EveryoneOnce ==
    ASSUME IsFiniteSet(Address)
    PROVE  Enumerates(SetToSeq(Address))
<1> DEFINE D == 1 .. Cardinality(Address)
           e == SetToSeq(Address)
<1>1. Cardinality(Address) \in Nat /\ ExistsBijection(D, Address)
  BY FS_CardinalityType
<1>2. \E f \in [D -> Address] : IsInjective(f)
  BY <1>1 DEF ExistsBijection, Bijection, Injection
<1>3. e \in [D -> Address] /\ IsInjective(e)
  BY <1>2 DEF SetToSeq
<1> HIDE DEF e
<1>4. e \in Injection(D, Address)
  BY <1>3 DEF Injection
<1>5. Cardinality(D) = Cardinality(Address)
  BY <1>1, FS_Interval
<1>6. e \in Surjection(D, Address)
  BY <1>4, <1>5, FS_Injection
<1>7. e \in Seq(Address) /\ Len(e) = Cardinality(Address)
  BY <1>1, <1>3
<1>8. \A a \in Address : \E k \in D : e[k] = a
  BY <1>6 DEF Surjection
<1>9. \A k, l \in D : e[k] = e[l] => k = l
  BY <1>3 DEF IsInjective
<1> QED BY <1>7, <1>8, <1>9 DEF Enumerates, e

(* The activity of an address accounts for what the transactions listed    *)
(* change for it, an address that pays itself included.                    *)
LEMMA ActivityAccounts ==
    ASSUME NEW a, NEW txs \in Seq(Transaction)
    PROVE  LET lines == Activity(txs, a)
           IN  SumSeq([j \in DOMAIN lines |-> Effect(lines[j], a)])
                  = Received(txs, a) - Spent(txs, a)
<1> DEFINE keep == {t \in Range(txs) : a \in {t.from, t.to}}
           touching == Subsequence(txs, keep)
           lines == Activity(txs, a)
           w == Gain(a)
           m == Weights(w, txs)
<1>1. touching \in Seq(Transaction)
  BY SubsequenceType
<1>2. w \in [Transaction -> Int]
  BY GainType
<1>3. /\ DOMAIN lines = DOMAIN touching
      /\ \A j \in DOMAIN touching :
            /\ lines[j].direction = IF touching[j].to = a THEN "incoming" ELSE "outgoing"
            /\ lines[j].transaction = touching[j]
  BY DEF Activity
<1> HIDE DEF touching, lines
<1>4. DOMAIN touching = 1 .. Len(touching)
      /\ \A j \in 1 .. Len(touching) : touching[j] \in Transaction
  BY <1>1
<1>5. ASSUME NEW j \in 1 .. Len(touching) PROVE Effect(lines[j], a) = w[touching[j]]
  <2> DEFINE t == touching[j]
  <2>1. t \in Transaction /\ lines[j].transaction = t
        /\ (lines[j].direction = "incoming" <=> t.to = a)
    BY <1>3, <1>4
  <2> HIDE DEF t
  <2>2. Effect(lines[j], a) = (IF t.to = a THEN t.amount ELSE 0)
                                 - (IF t.from = a THEN t.amount + t.fee ELSE 0)
    BY <2>1 DEF Effect
  <2>3. w[t] = Paid(a)[t] - Owed(a)[t]
    BY <2>1 DEF Gain
  <2>4. /\ Paid(a)[t] = IF t.to = a THEN t.amount ELSE 0
        /\ Owed(a)[t] = IF t.from = a THEN t.amount + t.fee ELSE 0
    BY <2>1 DEF Paid, Owed, Cost
  <2>5. Effect(lines[j], a) = w[t]
    BY <2>2, <2>3, <2>4
  <2> QED BY <2>5 DEF t
<1>6. [j \in DOMAIN lines |-> Effect(lines[j], a)] = Weights(w, touching)
  BY <1>3, <1>4, <1>5 DEF Weights
<1>7. Masks(m, w, txs, keep)
  <2>1. m \in Seq(Int) /\ Len(m) = Len(txs) /\ \A i \in 1 .. Len(txs) : m[i] = w[txs[i]]
    BY <1>2, WeightsType
  <2>2. ASSUME NEW i \in 1 .. Len(txs), txs[i] \notin keep PROVE w[txs[i]] = 0
    <3>1. txs[i] \in Transaction /\ txs[i] \in Range(txs)
      BY DEF Range
    <3>2. txs[i].from # a /\ txs[i].to # a
      BY <2>2, <3>1
    <3> QED BY <3>1, <3>2 DEF Gain, Paid, Owed
  <2> HIDE DEF m, w, keep
  <2> QED BY <2>1, <2>2 DEF Masks
<1>8. SumSeq(Weights(w, touching)) = SumSeq(m)
  <2> HIDE DEF m, w, keep
  <2> QED BY <1>2, <1>7, SubsequenceWeight DEF touching
<1>9. SumSeq(m) = Received(txs, a) - Spent(txs, a)
  BY GainSum
<1> QED BY <1>6, <1>8, <1>9 DEF lines

LEMMA SupplyTotal ==
    ASSUME NEW c, ProperChain(c)
    PROVE  TotalSupply(c) = SumSeq([i \in 1 .. Len(c) |-> MiningReward(i - 1)])
                               + TotalFeesCollected(c)
<1> DEFINE s == [i \in DOMAIN c |->
                   SumSeq([j \in DOMAIN c[i].transactions |->
                       IF c[i].transactions[j].from = Coinbase
                       THEN c[i].transactions[j].amount ELSE 0])]
           r == [i \in 1 .. Len(c) |-> MiningReward(i - 1)]
           f == [i \in DOMAIN c |-> Fees(c[i].transactions)]
<1>1. DOMAIN c = 1 .. Len(c) /\ Len(c) \in Nat
  BY DEF ProperChain
<1>2. \A i \in 1 .. Len(c) : /\ MiningReward(i - 1) \in Nat
                             /\ Fees(c[i].transactions) \in Nat
  <2> SUFFICES ASSUME NEW i \in 1 .. Len(c)
               PROVE  MiningReward(i - 1) \in Nat /\ Fees(c[i].transactions) \in Nat
    OBVIOUS
  <2>1. i - 1 \in Nat
    BY <1>1
  <2>2. c[i].transactions \in Seq(Transaction)
    BY ProperBlockMints
  <2> QED BY <2>1, <2>2, MiningRewardType, FeesNat
<1>3. \A i \in 1 .. Len(c) : s[i] = MiningReward(i - 1) + Fees(c[i].transactions)
  BY <1>1, ProperBlockMints
<1>4. /\ r \in Seq(Int) /\ Len(r) = Len(c) /\ \A i \in 1 .. Len(c) : r[i] = MiningReward(i - 1)
      /\ f \in Seq(Int) /\ Len(f) = Len(c)
      /\ \A i \in 1 .. Len(c) : f[i] = Fees(c[i].transactions)
  BY <1>1, <1>2
<1>5. s \in Seq(Int) /\ Len(s) = Len(c)
  <2>1. s = [i \in 1 .. Len(c) |-> s[i]]
    BY <1>1
  <2> HIDE DEF s
  <2>2. \A i \in 1 .. Len(c) : s[i] \in Int
    BY <1>2, <1>3
  <2> QED BY <1>1, <2>1, <2>2
<1>6. SumSeq(s) = TotalSupply(c) /\ SumSeq(f) = TotalFeesCollected(c)
  BY DEF TotalSupply, TotalFeesCollected
<1> HIDE DEF s, r, f
<1>7. SumSeq(s) = SumSeq(r) + SumSeq(f)
  <2>1. \A i \in 1 .. Len(r) : s[i] = r[i] + f[i]
    BY <1>3, <1>4
  <2> QED BY <1>4, <1>5, <2>1, SumSeqPlus
<1> QED BY <1>6, <1>7 DEF r

LEMMA ActivityTotal ==
    ASSUME NEW a, NEW c, ProperChain(c)
    PROVE  Balance(c, a) = SumSeq([i \in DOMAIN c |->
                  LET lines == Activity(c[i].transactions, a)
                  IN  SumSeq([j \in DOMAIN lines |-> Effect(lines[j], a)])])
<1>1. DOMAIN c = 1 .. Len(c) /\ \A i \in 1 .. Len(c) : c[i].transactions \in Seq(Transaction)
  <2>1. DOMAIN c = 1 .. Len(c)
    BY DEF ProperChain
  <2>2. ASSUME NEW i \in 1 .. Len(c) PROVE c[i].transactions \in Seq(Transaction)
    BY ProperBlockMints
  <2> QED BY <2>1, <2>2
<1>2. \A i \in 1 .. Len(c) :
         LET lines == Activity(c[i].transactions, a)
         IN  SumSeq([j \in DOMAIN lines |-> Effect(lines[j], a)])
                = Received(c[i].transactions, a) - Spent(c[i].transactions, a)
  BY <1>1, ActivityAccounts
<1> QED BY <1>1, <1>2 DEF Balance

LEMMA IInvSupply ==
    ASSUME IsFiniteSet(Address)
    PROVE  IInv => (ReceiversKnown(chain) => SupplyConserved)
<1> SUFFICES ASSUME IInv, ReceiversKnown(chain) PROVE SupplyConserved
  OBVIOUS
<1> DEFINE e == SetToSeq(Address)
           c == ledger.chain
<1>1. ProperChain(c) /\ ReceiversKnown(c) /\ DOMAIN c = 1 .. Len(c)
  BY DEF IInv, TidyLedger, SoundLedger, chain, ProperChain
<1>2. Enumerates(e) /\ DOMAIN e = 1 .. Len(e)
  BY EveryoneOnce DEF Enumerates
<1> HIDE DEF e, c
<1>3. SumSeq([k \in DOMAIN e |-> Balance(c, e[k])])
        = SumSeq([i \in DOMAIN c |-> MiningReward(i - 1)])
  BY <1>1, <1>2, BalancesTotal
<1>4. TotalSupply(c) = SumSeq([i \in DOMAIN c |-> MiningReward(i - 1)]) + TotalFeesCollected(c)
  BY <1>1, SupplyTotal
<1>5. \A a \in Address :
         Balance(c, a) = SumSeq([i \in DOMAIN c |->
             LET lines == Activity(c[i].transactions, a)
             IN  SumSeq([j \in DOMAIN lines |-> Effect(lines[j], a)])])
  BY <1>1, ActivityTotal
<1>6. chain = c
  BY DEF chain, c
<1> QED BY <1>3, <1>4, <1>5, <1>6 DEF SupplyConserved, e

(* Money is made by rewards alone: whatever is transferred, replaced,      *)
(* mined and reloaded, the balances come to the rewards of the heights,    *)
(* as long as these go to addresses.                                       *)
THEOREM MoneyFromRewards ==
    ASSUME IsFiniteSet(Address)
    PROVE  Spec => [](ReceiversKnown(chain) => SupplyConserved)
<1> QED BY IInvSupply, Invariance, PTL

(* ... as they do where only addresses are mined for. *)
THEOREM MoneyOfAddresses ==
    ASSUME IsFiniteSet(Address), Miner \subseteq Address
    PROVE  Spec => []SupplyConserved
<1>1. IInv => SupplyConserved
  <2> SUFFICES ASSUME IInv PROVE SupplyConserved
    OBVIOUS
  <2>1. ledger.chain \in Seq(Block)
    BY DEF IInv, TidyLedger, SoundLedger, ProperChain
  <2> QED BY <2>1, KnownReceivers, IInvSupply DEF chain
<1> QED BY <1>1, Invariance, PTL

-----------------------------------------------------------------------------
(* Who waits, and behind whom. *)

(* What is eligible after s has been outbid since its sender's turn came.  *)
Ranked(led, s) ==
    \A j \in Eligible(led, s) :
        LET t == led.pendingTransactions[j]
        IN  \A k \in TakenSince(s, t.from) : Better(s[k], t)

RankedOrders(led) == {s \in Orders(led) : Ranked(led, s)}

(* Taking one sender's transaction changes no other's turn. *)
LEMMA TurnOfOthers ==
    ASSUME NEW led \in LedgerState, NEW s \in Orders(led), NEW t \in Transaction,
           Append(s, t) \in Orders(led), NEW a, a # t.from
    PROVE  ExpectedNonce(led.chain, Append(s, t), a) = ExpectedNonce(led.chain, s, a)
<1> DEFINE more == Append(s, t)
           c == led.chain
           count(v) == Cardinality(IndicesFrom(v, a))
<1>1. /\ s \in Seq(Transaction) /\ more \in Seq(Transaction) /\ c \in Seq(Block)
      /\ InOrder(c, s) /\ InOrder(c, more)
  BY LedgerFields DEF Orders, Selections
<1>2. count(more) = count(s) + 0
  <2>1. count(more) = count(s) + (IF t.from = a THEN 1 ELSE 0)
    BY <1>1, CountAppend
  <2> HIDE DEF count, more
  <2> QED BY <2>1
<1>3. count(s) \in Nat
  <2>1. count(s) \in 0 .. Len(s)
    BY <1>1, CountSum
  <2> HIDE DEF count
  <2> QED BY <1>1, <2>1
<1> HIDE DEF more, c
<1>4. ExpectedNonce(c, more, a) = ConfirmedNonce(c, a) + count(more)
  BY <1>1, ExpectedIsNext
<1>5. ExpectedNonce(c, s, a) = ConfirmedNonce(c, a) + count(s)
  BY <1>1, ExpectedIsNext
<1> HIDE DEF count
<1>6. count(more) = count(s)
  BY <1>2, <1>3
<1> QED BY <1>4, <1>5, <1>6 DEF more, c

LEMMA TakenSinceAppend ==
    ASSUME NEW s, NEW T, s \in Seq(T), NEW t \in T, NEW a, NEW k \in TakenSince(Append(s, t), a)
    PROVE  /\ t.from # a
           /\ k = Len(s) + 1 \/ k \in TakenSince(s, a)
<1> DEFINE n == Len(s)
           more == Append(s, t)
<1>1. n \in Nat /\ Len(more) = n + 1 /\ DOMAIN more = 1 .. n + 1 /\ DOMAIN s = 1 .. n
  OBVIOUS
<1>2. more[n + 1] = t /\ \A l \in 1 .. n : more[l] = s[l]
  OBVIOUS
<1>3. k \in 1 .. n + 1 /\ \A l \in k .. n + 1 : more[l].from # a
  BY <1>1 DEF TakenSince
<1> HIDE DEF n, more
<1>4. n + 1 \in k .. n + 1
  BY <1>1, <1>3
<1>5. t.from # a
  BY <1>2, <1>3, <1>4
<1>6. ASSUME k # n + 1 PROVE k \in TakenSince(s, a)
  <2>1. k \in 1 .. n
    BY <1>1, <1>3, <1>6
  <2>2. \A l \in k .. n : l \in k .. n + 1 /\ l \in 1 .. n
    BY <1>1, <2>1
  <2>3. \A l \in k .. n : s[l].from # a
    BY <1>2, <1>3, <2>2
  <2> QED BY <1>1, <2>1, <2>3 DEF TakenSince, n
<1> QED BY <1>5, <1>6 DEF n

LEMMA SelectNextRanked ==
    ASSUME NEW led \in LedgerState, NEW s \in RankedOrders(led)
    PROVE  SelectedNext(led, s) \in RankedOrders(led)
<1> DEFINE p == led.pendingTransactions
           E == Eligible(led, s)
           b == Best(led, E)
           t == p[b]
           more == Append(s, t)
<1>1. s \in Orders(led) /\ Ranked(led, s) /\ SelectedNext(led, s) \in Orders(led)
  BY SelectNextInOrder DEF RankedOrders
<1>2. CASE E = {}
  BY <1>1, <1>2 DEF SelectedNext, RankedOrders
<1>3. CASE E # {}
  <2>1. SelectedNext(led, s) = more
    BY <1>3 DEF SelectedNext
  <2>2. s \in Seq(Transaction) /\ p \in Seq(Transaction)
    BY <1>1, LedgerFields DEF Orders, Selections
  <2>3. E \subseteq DOMAIN p
    BY DEF Eligible
  <2>4. b \in E /\ \A j \in E : Precedes(p, b, j)
    <3> HIDE DEF E
    <3> QED BY <1>3, <2>3, BestIsEligible
  <2> HIDE DEF b
  <2>5. b \in DOMAIN p /\ t \in Transaction
    BY <2>2, <2>3, <2>4
  <2> HIDE DEF E
  <2>6. ASSUME NEW j \in Eligible(led, more), NEW k \in TakenSince(more, p[j].from)
        PROVE  Better(more[k], p[j])
    <3> DEFINE u == p[j]
    <3>1. t.from # u.from /\ (k = Len(s) + 1 \/ k \in TakenSince(s, u.from))
      <4> HIDE DEF p
      <4> QED BY <2>2, <2>5, <2>6, TakenSinceAppend
    <3>2. j \in DOMAIN p /\ u.nonce = ExpectedNonce(led.chain, more, u.from)
          /\ \A i \in DOMAIN more : more[i] # u
      BY <2>6 DEF Eligible
    <3>3. DOMAIN s = 1 .. Len(s) /\ Len(s) \in Nat /\ DOMAIN more = 1 .. Len(s) + 1
          /\ more[Len(s) + 1] = t /\ \A i \in DOMAIN s : i \in DOMAIN more /\ more[i] = s[i]
      <4> HIDE DEF t
      <4> QED BY <2>2, <2>5
    <3>4. ExpectedNonce(led.chain, more, u.from) = ExpectedNonce(led.chain, s, u.from)
      <4> HIDE DEF t
      <4>1. u.from # t.from /\ more \in Orders(led)
        BY <1>1, <2>1, <3>1
      <4> HIDE DEF u
      <4> QED BY <1>1, <2>5, <4>1, TurnOfOthers
    <3>5. j \in E
      BY <3>2, <3>3, <3>4 DEF E, Eligible
    <3>6. CASE k = Len(s) + 1
      <4>1. Precedes(p, b, j)
        BY <2>4, <3>5
      <4>2. t.timestamp \in Nat /\ u.timestamp \in Nat
        <5>1. u \in Transaction
          BY <2>2, <3>2
        <5> HIDE DEF t, u
        <5> QED BY <2>5, <5>1 DEF Transaction
      <4>3. Better(t, u)
        BY <4>1, <4>2 DEF Precedes, Better
      <4> QED BY <3>3, <3>6, <4>3
    <3>7. CASE k \in TakenSince(s, u.from)
      <4>1. k \in DOMAIN s
        BY <3>7 DEF TakenSince
      <4>2. Better(s[k], u)
        BY <1>1, <3>5, <3>7 DEF Ranked, E
      <4> QED BY <3>3, <4>1, <4>2
    <3> QED BY <3>1, <3>6, <3>7
  <2> HIDE DEF more
  <2>7. Ranked(led, more)
    BY <2>6 DEF Ranked
  <2> QED BY <1>1, <2>1, <2>7 DEF RankedOrders
<1> QED BY <1>2, <1>3

(* getTransactionsForNextBlock stops for want of room or of transactions.  *)
LEMMA ExecutionOrderRanked ==
    ASSUME NEW led \in LedgerState, NEW n \in Nat
    PROVE  /\ ExecutionOrder(led, n) \in RankedOrders(led)
           /\ Eligible(led, ExecutionOrder(led, n)) # {} => Len(ExecutionOrder(led, n)) = n
<1> DEFINE Z == RankedOrders(led)
<1>1. <<>> \in Z
  <2>1. <<>> \in Orders(led)
    BY DEF Orders, Selections, Distinct, InOrder
  <2>2. \A a : TakenSince(<<>>, a) = {}
    BY DEF TakenSince
  <2>3. Ranked(led, <<>>)
    BY <2>2 DEF Ranked
  <2> QED BY <2>1, <2>3 DEF RankedOrders
<1>2. \A s \in Z : SelectedNext(led, s) \in Z
  BY SelectNextRanked
<1>3. \A s \in Z : s \in Seq(Transaction)
  BY DEF RankedOrders, Orders, Selections
<1> HIDE DEF Z
<1>4. PICK f : SelectsBy(f, led, n, Z) /\ ExecutionOrder(led, n) = f[n]
  BY <1>1, <1>2, ExecutionOrderRounds
<1> DEFINE Full(i) == Eligible(led, f[i]) # {} => Len(f[i]) = i
           S == {i \in 0 .. n : Full(i)}
<1>5. 0 \in S
  BY <1>4 DEF SelectsBy
<1>6. ASSUME NEW i \in 1 .. n, i - 1 \in S PROVE i \in S
  <2> DEFINE s == f[i - 1]
  <2>1. i - 1 \in 0 .. n /\ s \in Z /\ f[i] = SelectedNext(led, s)
    BY <1>4 DEF SelectsBy
  <2>2. s \in Seq(Transaction) /\ (Eligible(led, s) # {} => Len(s) = i - 1)
    BY <1>3, <1>6, <2>1
  <2> HIDE DEF s
  <2>3. CASE Eligible(led, s) = {}
    <3>1. f[i] = s
      BY <2>1, <2>3 DEF SelectedNext
    <3> QED BY <2>3, <3>1
  <2>4. CASE Eligible(led, s) # {}
    <3>1. \A x : Len(Append(s, x)) = Len(s) + 1
      BY <2>2
    <3>2. Len(f[i]) = Len(s) + 1
      BY <2>1, <2>4, <3>1 DEF SelectedNext
    <3>3. Len(f[i]) = i
      BY <2>2, <2>4, <3>2
    <3> QED BY <3>3
  <2> QED BY <2>3, <2>4
<1>7. \A i \in 0 .. n : i \in S
  <2> HIDE DEF S
  <2> QED BY <1>5, <1>6, IntervalInduction
<1>8. n \in S
  <2> HIDE DEF S
  <2> QED BY <1>7
<1> QED BY <1>4, <1>8 DEF SelectsBy, Z

(* What WaitsBehindBetter says of two ledgers. *)
LeftForBetter(old, new) ==
    Len(new.chain) > Len(old.chain) =>
       LET block == LastBlock(new.chain).transactions
           taken == SubSeq(block, 1, Len(block) - 1)
       IN  \A j \in DOMAIN new.pendingTransactions :
              LET t == new.pendingTransactions[j]
              IN  t.nonce = ConfirmedNonce(new.chain, t.from) =>
                     /\ Len(taken) = MaxTransactionsPerBlock
                     /\ \A k \in TakenSince(taken, t.from) : Better(taken[k], t)

LEMMA MineLeavesForBetter ==
    ASSUME NEW led, GoodLedger(led), NEW miner \in Miner, NEW now \in Nat
    PROVE  LeftForBetter(led, MinePendingTransactions(led, miner, now))
<1> DEFINE new == MinePendingTransactions(led, miner, now)
           block == NextBlock(led, miner, now)
           p == led.pendingTransactions
           q == new.pendingTransactions
<1>1. led \in LedgerState /\ led.chain \in Seq(Block) /\ p \in Seq(Signed) /\ p \in Seq(Transaction)
  BY DEF GoodLedger, LedgerState
<1>2. PICK sel, reward :
         /\ sel = TransactionsForNextBlock(led)
         /\ sel \in Selections(p)
         /\ reward \in Transaction
         /\ reward.from = Coinbase
         /\ block \in Block
         /\ block.transactions = Append(sel, reward)
  BY <1>1, NextBlockType
<1> DEFINE txs == Append(sel, reward)
<1>3. /\ new.chain = Append(led.chain, block) /\ q = RemovePending(p, txs)
  BY <1>2 DEF MinePendingTransactions
<1>4. sel \in Seq(Transaction) /\ sel \in RankedOrders(led)
      /\ (Eligible(led, sel) # {} => Len(sel) = MaxTransactionsPerBlock)
  <2>1. MaxTransactionsPerBlock \in Nat
    BY LedgerAssumption
  <2> QED BY <1>1, <1>2, <2>1, ExecutionOrderRanked DEF TransactionsForNextBlock, Selections
<1> HIDE DEF block, new
<1>5. LastBlock(new.chain).transactions = txs
  BY <1>1, <1>2, <1>3, LastOfAppend
<1>6. SubSeq(txs, 1, Len(txs) - 1) = sel
  BY <1>2, <1>4
<1> HIDE DEF q
<1>7. ASSUME NEW j \in DOMAIN q, q[j].nonce = ConfirmedNonce(new.chain, q[j].from)
      PROVE  /\ Len(sel) = MaxTransactionsPerBlock
             /\ \A k \in TakenSince(sel, q[j].from) : Better(sel[k], q[j])
  <2> DEFINE t == q[j]
             a == t.from
             keep == Range(p) \ Range(txs)
             count(v) == Cardinality(IndicesFrom(v, a))
  <2>1. t \in Signed /\ t \in keep
    <3>1. q = Subsequence(p, keep)
      BY <1>3 DEF RemovePending
    <3> HIDE DEF keep, p
    <3>2. q \in Seq(Signed \cap keep)
      BY <1>1, <3>1, SubsequenceType
    <3> QED BY <1>7, <3>2
  <2>2. PICK i \in DOMAIN p : p[i] = t
    BY <2>1 DEF Range
  <2>3. \A k \in DOMAIN sel : sel[k] # t
    <3>1. \A k \in DOMAIN sel : k \in DOMAIN txs /\ txs[k] = sel[k]
      BY <1>2, <1>4
    <3> QED BY <2>1, <3>1 DEF Range
  <2> HIDE DEF t
  <2>4. a \in Address /\ reward.from # a
    BY <1>2, <2>1, LedgerAssumption DEF Signed
  <2>5. t.nonce = ConfirmedNonce(led.chain, a) + count(sel)
    <3> HIDE DEF a
    <3>1. ConfirmedNonce(new.chain, a) = ConfirmedNonce(led.chain, a) + count(txs)
      BY <1>1, <1>2, <1>3, NonceAppend
    <3>2. count(txs) = count(sel) + (IF reward.from = a THEN 1 ELSE 0)
      BY <1>2, <1>4, CountAppend
    <3>3. count(sel) \in 0 .. Len(sel)
      BY <1>4, CountSum
    <3>4. t.nonce = ConfirmedNonce(new.chain, a)
      BY <1>7 DEF t, a
    <3> HIDE DEF count, txs
    <3>5. count(sel) \in Nat
      BY <1>4, <3>3
    <3>6. count(txs) = count(sel)
      BY <2>4, <3>2, <3>5
    <3> QED BY <3>1, <3>4, <3>6
  <2>6. t.nonce = ExpectedNonce(led.chain, sel, a)
    <3>1. InOrder(led.chain, sel)
      BY <1>4 DEF RankedOrders, Orders
    <3> HIDE DEF a
    <3>2. ExpectedNonce(led.chain, sel, a) = ConfirmedNonce(led.chain, a) + count(sel)
      BY <1>1, <1>4, <3>1, ExpectedIsNext
    <3> QED BY <2>5, <3>2
  <2>7. i \in Eligible(led, sel)
    BY <2>2, <2>3, <2>6 DEF Eligible
  <2>8. Ranked(led, sel) /\ Len(sel) = MaxTransactionsPerBlock
    BY <1>4, <2>7 DEF RankedOrders
  <2>9. \A k \in TakenSince(sel, t.from) : Better(sel[k], t)
    BY <2>2, <2>7, <2>8 DEF Ranked
  <2> QED BY <2>8, <2>9 DEF t
<1> HIDE DEF txs
<1> QED BY <1>5, <1>6, <1>7 DEF LeftForBetter, q, new

(* A start brings no block. *)
LEMMA LoadedChain ==
    ASSUME NEW file, GoodLedger(file)
    PROVE  Len(LoadState(file).chain) <= Len(file.chain)
<1> DEFINE c == file.chain
           p == file.pendingTransactions
           base == LoadBase(file)
           Z == {led \in GoodLedgers : led.chain = c}
<1>1. c \in Seq(Block) /\ c # <<>> /\ p \in Seq(Signed)
  BY LedgerFields DEF GoodLedger
<1>2. Len(c) \in Nat \ {0}
  BY <1>1
<1>3. CASE ~Loads(file)
  <2>1. LoadState(file).chain = <<Genesis>>
    BY <1>3 DEF LoadState, FreshLedger
  <2>2. Len(LoadState(file).chain) = 1
    BY <2>1
  <2> QED BY <1>2, <2>2
<1>4. CASE Loads(file)
  <2>1. base \in Z
    BY LoadBaseIsGood DEF LoadBase, GoodLedger, GoodLedgers
  <2>2. Preserved(Z, Signed)
    <3>1. ASSUME NEW led \in Z, NEW t \in Signed PROVE AddTransaction(led, t) \in Z
      <4>1. GoodLedger(led) /\ led \in LedgerState
        BY DEF GoodLedgers
      <4>2. GoodLedger(AddTransaction(led, t))
        BY <4>1, AddTransactionKeepsGood
      <4>3. AddTransaction(led, t).chain = led.chain
        BY <4>1 DEF AddTransaction, LedgerState
      <4>4. AddTransaction(led, t) \in GoodLedgers
        BY <4>2 DEF GoodLedgers, GoodLedger
      <4> QED BY <4>3, <4>4
    <3> QED BY <3>1 DEF Preserved
  <2> HIDE DEF Z, base, p
  <2>3. Readmits(Readmission(base, p), base, p, Z)
    BY <1>1, <2>1, <2>2, ReadmissionRuns
  <2>4. Len(p) \in 0 .. Len(p)
    BY <1>1
  <2>5. Readmission(base, p)[Len(p)] \in Z
    BY <2>3, <2>4 DEF Readmits
  <2>6. LoadState(file).chain = c
    BY <1>4, <2>5 DEF LoadState, Z, base, p
  <2> QED BY <1>2, <2>6
<1> QED BY <1>3, <1>4

LEMMA WaitStep ==
    ASSUME IInv, [Next]_vars
    PROVE  LeftForBetter(ledger, ledger')
<1>1. GoodLedger(ledger) /\ ledger \in LedgerState /\ Len(ledger.chain) \in Nat
  BY DEF IInv, GoodLedger, LedgerState
<1>2. ASSUME NEW t \in Transactions, SubmitTransaction(t) \/ HandleIncomingTransaction(t)
      PROVE  ledger'.chain = ledger.chain
  <2>1. ledger' = AddTransaction(ledger, t)
    BY <1>2 DEF SubmitTransaction, HandleIncomingTransaction, Handle
  <2> QED BY <1>1, <2>1 DEF AddTransaction, LedgerState
<1>3. ASSUME NEW miner \in Miner, NEW now \in Clock, Mine(miner, now)
      PROVE  LeftForBetter(ledger, ledger')
  <2>1. now \in Nat
    BY BlockchainAssumption
  <2>2. ledger' = MinePendingTransactions(ledger, miner, now)
    BY <1>3 DEF Mine, Handle
  <2> QED BY <1>1, <2>1, <2>2, MineLeavesForBetter
<1>4. CASE Start
  <2>1. ledger' = LoadState(ledger)
    BY <1>4 DEF Start, IInv
  <2>2. Len(ledger'.chain) <= Len(ledger.chain)
    BY <1>1, <2>1, LoadedChain
  <2>3. Len(ledger'.chain) \in Nat
    <3>1. ledger' \in LedgerState
      BY <1>1, <2>1, LoadKeepsGood DEF GoodLedger
    <3> QED BY <3>1, LedgerFields
  <2>4. ~(Len(ledger'.chain) > Len(ledger.chain))
    BY <1>1, <2>2, <2>3
  <2> QED BY <2>4 DEF LeftForBetter
<1>5. Crash \/ UNCHANGED vars => ledger'.chain = ledger.chain
  BY DEF Crash, vars
<1>6. ASSUME ledger'.chain = ledger.chain PROVE LeftForBetter(ledger, ledger')
  <2>1. ~(Len(ledger'.chain) > Len(ledger.chain))
    BY <1>1, <1>6
  <2> QED BY <2>1 DEF LeftForBetter
<1> QED BY <1>2, <1>3, <1>4, <1>5, <1>6 DEF Next

(* Whoever is left behind by a block is outbid: for whatever transactions  *)
(* wallets make, however many, no block leaves the next transaction of a   *)
(* sender waiting while it has room, or for one that ranks below it.       *)
THEOREM OutbidWait == Spec => WaitsBehindBetter
<1> DEFINE A == LeftForBetter(ledger, ledger')
<1>1. IInv /\ [Next]_vars => [A]_vars
  BY WaitStep
<1>2. [A]_vars =>
        [Len(chain') > Len(chain) =>
          LET block == LastBlock(chain').transactions
              taken == SubSeq(block, 1, Len(block) - 1)
          IN  \A j \in DOMAIN pendingTransactions' :
                 LET t == pendingTransactions'[j]
                 IN  t.nonce = ConfirmedNonce(chain', t.from) =>
                        /\ Len(taken) = MaxTransactionsPerBlock
                        /\ \A k \in TakenSince(taken, t.from) : Better(taken[k], t)]_vars
  BY DEF LeftForBetter, chain, pendingTransactions
<1> HIDE DEF A
<1> QED BY <1>1, <1>2, Invariance, PTL DEF Spec, WaitsBehindBetter
=============================================================================
