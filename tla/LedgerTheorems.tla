--------------------------- MODULE LedgerTheorems ---------------------------
(***************************************************************************)
(* Admission, block selection, mining and reload: the types of what they   *)
(* return, and what they do to the sums that Balance and Spent are.        *)
(***************************************************************************)
EXTENDS Ledger, ReductionTheorems

-----------------------------------------------------------------------------
(* Fields. *)

LEMMA TransactionFields ==
    ASSUME NEW t \in Transaction
    PROVE  /\ t.from \in Address \cup {Coinbase}
           /\ t.to \in Address \cup Miner
           /\ t.amount \in Nat /\ t.fee \in Nat /\ t.nonce \in Nat /\ t.timestamp \in Nat
           /\ t.bytes \in Nat
BY DEF Transaction

LEMMA LedgerFields ==
    ASSUME NEW led \in LedgerState
    PROVE  /\ led.chain \in Seq(Block)
           /\ led.pendingTransactions \in Seq(Transaction)
           /\ led.difficulty \in Nat
BY DEF LedgerState

-----------------------------------------------------------------------------
(* Block selection. *)

LEMMA UpperBound ==
    ASSUME NEW n \in Nat, NEW f \in [1 .. n -> Nat]
    PROVE  \E m \in Nat : \A j \in 1 .. n : f[j] <= m
<1> DEFINE S == {i \in 0 .. n : \E m \in Nat : \A j \in 1 .. i : f[j] <= m}
<1>1. 0 \in S
  OBVIOUS
<1>2. ASSUME NEW i \in 1 .. n, i - 1 \in S PROVE i \in S
  <2>1. PICK m \in Nat : \A j \in 1 .. i - 1 : f[j] <= m
    BY <1>2
  <2>2. PICK u \in Nat : m <= u /\ f[i] <= u
    <3>1. CASE m <= f[i]
      BY <3>1
    <3>2. CASE ~(m <= f[i])
      BY <3>2
    <3> QED BY <3>1, <3>2
  <2>3. \A j \in 1 .. i : f[j] <= u
    <3>1. SUFFICES ASSUME NEW j \in 1 .. i PROVE f[j] <= u
      OBVIOUS
    <3>2. CASE j = i
      BY <3>2, <2>2
    <3>3. CASE j # i
      <4>1. j \in 1 .. i - 1 /\ f[j] \in Nat
        BY <3>3
      <4> QED BY <4>1, <2>1, <2>2
    <3> QED BY <3>2, <3>3
  <2> QED BY <2>3
<1>3. \A i \in 0 .. n : i \in S
  <2> HIDE DEF S
  <2> QED BY <1>1, <1>2, IntervalInduction
<1>4. n \in S
  <2> HIDE DEF S
  <2> QED BY <1>3
<1> QED BY <1>4

(* The order of the sort has a first element in every nonempty set of      *)
(* pending positions: what getTransactionsForNextBlock takes is eligible.  *)
LEMMA BestIsEligible ==
    ASSUME NEW led \in LedgerState, NEW E, E \subseteq DOMAIN led.pendingTransactions,
           E # {}
    PROVE  /\ Best(led, E) \in E
           /\ \A k \in E : Precedes(led.pendingTransactions, Best(led, E), k)
<1> DEFINE p == led.pendingTransactions
           n == Len(p)
<1>1. /\ n \in Nat
      /\ E \subseteq 1 .. n
      /\ \A j \in 1 .. n : p[j].fee \in Nat /\ p[j].timestamp \in Nat
  <2>1. p \in Seq(Transaction)
    BY LedgerFields
  <2>2. E \subseteq DOMAIN p
    OBVIOUS
  <2> HIDE DEF p
  <2>3. n \in Nat /\ DOMAIN p = 1 .. n /\ \A j \in 1 .. n : p[j] \in Transaction
    BY <2>1
  <2> HIDE DEF n
  <2> QED BY <2>2, <2>3, TransactionFields
<1> SUFFICES \E j \in E : \A k \in E : Precedes(p, j, k)
  BY DEF Best
<1> HIDE DEF p, n
<1>2. PICK m \in Nat : \A j \in 1 .. n : p[j].fee <= m
  <2> DEFINE f == [j \in 1 .. n |-> p[j].fee]
  <2>1. f \in [1 .. n -> Nat]
    BY <1>1
  <2> HIDE DEF f
  <2>2. \E m \in Nat : \A j \in 1 .. n : f[j] <= m
    BY <1>1, <2>1, UpperBound
  <2> QED BY <2>2 DEF f
<1>3. PICK top \in E : \A j \in E : p[j].fee <= p[top].fee
  <2> DEFINE Bounds == {b \in Nat : \A j \in E : p[j].fee <= b}
  <2>1. Bounds \subseteq Nat /\ m \in Bounds
    BY <1>1, <1>2
  <2>2. PICK b \in Bounds : \A c \in Bounds : b <= c
    <3> HIDE DEF Bounds
    <3> QED BY <2>1, LeastNat
  <2>3. \E j \in E : p[j].fee = b
    <3>1. SUFFICES ASSUME \A j \in E : p[j].fee # b PROVE FALSE
      OBVIOUS
    <3>2. \A j \in E : p[j].fee <= b - 1 /\ b - 1 \in Nat
      BY <3>1, <1>1
    <3>3. b - 1 \in Bounds
      BY <3>2
    <3> QED BY <3>3, <2>2
  <2> QED BY <2>3, <1>1
<1> DEFINE Top == {j \in E : p[j].fee = p[top].fee}
           Times == {p[j].timestamp : j \in Top}
<1>4. PICK time \in Times : \A u \in Times : time <= u
  <2>1. Times \subseteq Nat /\ Times # {}
    BY <1>1
  <2> HIDE DEF Times
  <2> QED BY <2>1, LeastNat
<1> DEFINE Old == {j \in Top : p[j].timestamp = time}
<1>5. PICK j \in Old : \A k \in Old : j <= k
  <2>1. Old \subseteq Nat /\ Old # {}
    BY <1>1, <1>4
  <2> HIDE DEF Old
  <2> QED BY <2>1, LeastNat
<1>6. ASSUME NEW k \in E PROVE Precedes(p, j, k)
  <2>1. /\ p[j].fee = p[top].fee /\ p[k].fee <= p[top].fee
        /\ p[j].fee \in Nat /\ p[k].fee \in Nat
        /\ p[j].timestamp \in Nat /\ p[k].timestamp \in Nat
    BY <1>1, <1>3
  <2>2. k \in Top => p[j].timestamp <= p[k].timestamp
    BY <1>4
  <2>3. k \in Old => j <= k
    BY <1>5
  <2>4. CASE p[k].fee # p[top].fee
    <3>1. p[j].fee > p[k].fee
      BY <2>1, <2>4
    <3> QED BY <3>1 DEF Precedes
  <2>5. CASE p[k].fee = p[top].fee /\ p[k].timestamp # time
    <3>1. p[j].fee = p[k].fee /\ p[j].timestamp < p[k].timestamp
      BY <2>1, <2>2, <2>5
    <3> QED BY <3>1 DEF Precedes
  <2>6. CASE p[k].fee = p[top].fee /\ p[k].timestamp = time
    <3>1. p[j].fee = p[k].fee /\ p[j].timestamp = p[k].timestamp /\ j <= k
      BY <2>1, <2>3, <2>6
    <3> QED BY <3>1 DEF Precedes
  <2> QED BY <2>4, <2>5, <2>6
<1> QED BY <1>6

(* The sequences a block may be made of: pending transactions, none twice. *)
Selections(p) ==
    {s \in Seq(Transaction) :
        /\ Distinct(s)
        /\ \A k \in 1 .. Len(s) : \E j \in 1 .. Len(p) : s[k] = p[j]}

LEMMA SelectOneMore ==
    ASSUME NEW led \in LedgerState, NEW s \in Selections(led.pendingTransactions),
           Eligible(led, s) # {}
    PROVE  Append(s, led.pendingTransactions[Best(led, Eligible(led, s))])
              \in Selections(led.pendingTransactions)
<1> DEFINE p == led.pendingTransactions
           E == Eligible(led, s)
           j == Best(led, E)
           x == p[j]
<1>1. E \subseteq DOMAIN p /\ E # {} /\ \A i \in E : \A k \in DOMAIN s : s[k] # p[i]
  BY DEF Eligible
<1>2. j \in E
  <2> HIDE DEF E
  <2> QED BY <1>1, BestIsEligible
<1>3. p \in Seq(Transaction)
  BY LedgerFields
<1>4. s \in Seq(Transaction) /\ Distinct(s)
      /\ \A k \in 1 .. Len(s) : \E i \in 1 .. Len(p) : s[k] = p[i]
  BY DEF Selections
<1>5. j \in 1 .. Len(p) /\ x \in Transaction /\ \A k \in 1 .. Len(s) : s[k] # x
  <2> HIDE DEF j, E, p
  <2> QED BY <1>1, <1>2, <1>3, <1>4
<1>6. \E i \in 1 .. Len(p) : x = p[i]
  BY <1>5
<1> HIDE DEF p, j, x
<1>7. Distinct(Append(s, x))
  BY <1>4, <1>5, DistinctAppend
<1>8. /\ Append(s, x) \in Seq(Transaction)
      /\ \A k \in 1 .. Len(Append(s, x)) : \E i \in 1 .. Len(p) : Append(s, x)[k] = p[i]
  BY <1>4, <1>5, <1>6
<1> QED BY <1>7, <1>8 DEF Selections, p, j, x

(* One round of the loop of getTransactionsForNextBlock. *)
SelectedNext(led, s) ==
    IF Eligible(led, s) = {} THEN s
    ELSE Append(s, led.pendingTransactions[Best(led, Eligible(led, s))])

(* The rounds of the loop, and whatever Z every round preserves. *)
SelectsBy(f, led, n, Z) ==
    /\ f[0] = <<>>
    /\ \A k \in 0 .. n : f[k] \in Z
    /\ \A k \in 1 .. n : f[k] = SelectedNext(led, f[k - 1])

LEMMA ExecutionOrderRounds ==
    ASSUME NEW led, NEW n \in Nat, NEW Z, <<>> \in Z, \A s \in Z : SelectedNext(led, s) \in Z
    PROVE  \E f : SelectsBy(f, led, n, Z) /\ ExecutionOrder(led, n) = f[n]
<1> DEFINE Body(g, k) == IF k = 0 THEN <<>> ELSE SelectedNext(led, g[k - 1])
           F == CHOOSE g : g = [k \in 0 .. n |-> Body(g, k)]
           step == [k \in 1 .. n |-> [s \in Z |-> SelectedNext(led, s)]]
<1>2. step \in [1 .. n -> [Z -> Z]]
  OBVIOUS
<1>3. PICK f : Iterates(f, Z, <<>>, n, step)
  <2> HIDE DEF step, F
  <2> QED BY <1>2, IterationExists
<1>4. f = [k \in 0 .. n |-> Body(f, k)]
  <2>1. ASSUME NEW k \in 1 .. n PROVE f[k] = Body(f, k)
    <3>1. f[k - 1] \in Z /\ f[k] = step[k][f[k - 1]]
      <4> HIDE DEF step
      <4> QED BY <1>3 DEF Iterates
    <3> QED BY <3>1
  <2>2. f[0] = Body(f, 0) /\ f \in [0 .. n -> Z]
    BY <1>3 DEF Iterates
  <2>3. \A k \in 0 .. n : f[k] = Body(f, k)
    <3> HIDE DEF Body
    <3> QED BY <2>1, <2>2
  <2> HIDE DEF Body
  <2> QED BY <2>2, <2>3
<1>5. F = [k \in 0 .. n |-> Body(F, k)]
  <2> HIDE DEF Body
  <2> QED BY <1>4
<1>6. ExecutionOrder(led, n) = F[n]
  BY DEF ExecutionOrder, SelectedNext
<1> HIDE DEF F
<1>7. F[0] = <<>> /\ \A k \in 1 .. n : F[k] = SelectedNext(led, F[k - 1])
  <2>1. \A k \in 0 .. n : F[k] = Body(F, k)
    <3> HIDE DEF Body
    <3> QED BY <1>5
  <2>2. 0 \in 0 .. n /\ \A k \in 1 .. n : k \in 0 .. n /\ k # 0
    OBVIOUS
  <2> QED BY <2>1, <2>2
<1>8. Iterates(F, Z, <<>>, n, step)
  <2>1. \A k \in 1 .. n : F[k - 1] \in Z => F[k] = step[k][F[k - 1]]
    BY <1>7
  <2>2. F = [k \in 0 .. n |-> F[k]] /\ F[0] = <<>>
    <3> HIDE DEF Body
    <3> QED BY <1>5, <1>7
  <2> HIDE DEF step
  <2> QED BY <1>2, <2>1, <2>2, IterationTyped
<1>9. SelectsBy(F, led, n, Z)
  BY <1>7, <1>8 DEF SelectsBy, Iterates
<1> QED BY <1>6, <1>9

(* getPendingTransactionsInExecutionOrder and getTransactionsForNextBlock  *)
(* return pending transactions, none twice.                                *)
LEMMA ExecutionOrderSelects ==
    ASSUME NEW led \in LedgerState, NEW n \in Nat
    PROVE  ExecutionOrder(led, n) \in Selections(led.pendingTransactions)
<1> DEFINE Z == Selections(led.pendingTransactions)
<1>1. <<>> \in Z
  BY DEF Selections, Distinct
<1>2. \A s \in Z : SelectedNext(led, s) \in Z
  BY SelectOneMore DEF SelectedNext
<1> HIDE DEF Z
<1>3. PICK f : SelectsBy(f, led, n, Z) /\ ExecutionOrder(led, n) = f[n]
  BY <1>1, <1>2, ExecutionOrderRounds
<1> QED BY <1>3 DEF SelectsBy, Z

-----------------------------------------------------------------------------
(* Sums over the transactions of a block or of the mempool. *)

(* What a transaction takes from and gives to an address. *)
Owed(a) == [t \in Transaction |-> IF t.from = a THEN Cost(t) ELSE 0]
Paid(a) == [t \in Transaction |-> IF t.to = a THEN t.amount ELSE 0]

LEMMA OwedType ==
    ASSUME NEW a
    PROVE  Owed(a) \in [Transaction -> Int] /\ \A t \in Transaction : Owed(a)[t] \in Nat
<1>1. \A t \in Transaction : Cost(t) \in Nat
  BY TransactionFields DEF Cost
<1> QED BY <1>1 DEF Owed

LEMMA PaidType ==
    ASSUME NEW a
    PROVE  Paid(a) \in [Transaction -> Int] /\ \A t \in Transaction : Paid(a)[t] \in Nat
<1>1. \A t \in Transaction : t.amount \in Nat
  BY TransactionFields
<1> QED BY <1>1 DEF Paid

LEMMA SpentSum ==
    ASSUME NEW a, NEW txs \in Seq(Transaction)
    PROVE  Spent(txs, a) = SumSeq(Weights(Owed(a), txs))
<1>1. \A j \in 1 .. Len(txs) : txs[j] \in Transaction
  OBVIOUS
<1>2. \A j \in 1 .. Len(txs) :
         Owed(a)[txs[j]] = IF txs[j].from = a THEN Cost(txs[j]) ELSE 0
  BY <1>1 DEF Owed
<1>3. Weights(Owed(a), txs)
        = [j \in DOMAIN txs |-> IF txs[j].from = a THEN Cost(txs[j]) ELSE 0]
  BY <1>2 DEF Weights
<1> QED BY <1>3 DEF Spent

LEMMA ReceivedSum ==
    ASSUME NEW a, NEW txs \in Seq(Transaction)
    PROVE  Received(txs, a) = SumSeq(Weights(Paid(a), txs))
<1>1. \A j \in 1 .. Len(txs) : txs[j] \in Transaction
  OBVIOUS
<1>2. \A j \in 1 .. Len(txs) : Paid(a)[txs[j]] = IF txs[j].to = a THEN txs[j].amount ELSE 0
  BY <1>1 DEF Paid
<1>3. Weights(Paid(a), txs) = [j \in DOMAIN txs |-> IF txs[j].to = a THEN txs[j].amount ELSE 0]
  BY <1>2 DEF Weights
<1> QED BY <1>3 DEF Received

LEMMA SpentNat ==
    ASSUME NEW a, NEW txs \in Seq(Transaction)
    PROVE  Spent(txs, a) \in Nat
<1> DEFINE m == Weights(Owed(a), txs)
<1>1. \A j \in 1 .. Len(txs) : txs[j] \in Transaction
  OBVIOUS
<1>2. m \in Seq(Int) /\ \A i \in 1 .. Len(m) : m[i] >= 0
  BY <1>1, OwedType DEF Weights
<1>3. SumSeq(m) \in Nat
  <2> HIDE DEF m
  <2> QED BY <1>2, SumSeqNat
<1> QED BY <1>3, SpentSum

LEMMA ReceivedNat ==
    ASSUME NEW a, NEW txs \in Seq(Transaction)
    PROVE  Received(txs, a) \in Nat
<1> DEFINE m == Weights(Paid(a), txs)
<1>1. \A j \in 1 .. Len(txs) : txs[j] \in Transaction
  OBVIOUS
<1>2. m \in Seq(Int) /\ \A i \in 1 .. Len(m) : m[i] >= 0
  BY <1>1, PaidType DEF Weights
<1>3. SumSeq(m) \in Nat
  <2> HIDE DEF m
  <2> QED BY <1>2, SumSeqNat
<1> QED BY <1>3, ReceivedSum

LEMMA SpentAppend ==
    ASSUME NEW a, NEW txs \in Seq(Transaction), NEW t \in Transaction
    PROVE  Spent(Append(txs, t), a) = Spent(txs, a) + (IF t.from = a THEN Cost(t) ELSE 0)
<1>1. Append(txs, t) \in Seq(Transaction)
  OBVIOUS
<1>2. SumSeq(Weights(Owed(a), Append(txs, t))) = SumSeq(Weights(Owed(a), txs)) + Owed(a)[t]
  BY OwedType, WeightsAppend
<1>3. Owed(a)[t] = IF t.from = a THEN Cost(t) ELSE 0
  BY DEF Owed
<1> QED BY <1>1, <1>2, <1>3, SpentSum

LEMMA FeesNat ==
    ASSUME NEW txs \in Seq(Transaction)
    PROVE  Fees(txs) \in Nat
<1> DEFINE m == [j \in DOMAIN txs |-> txs[j].fee]
<1>1. \A j \in 1 .. Len(txs) : txs[j].fee \in Nat
  BY TransactionFields
<1>2. m \in Seq(Int) /\ \A i \in 1 .. Len(m) : m[i] >= 0
  BY <1>1
<1>3. SumSeq(m) \in Nat
  <2> HIDE DEF m
  <2> QED BY <1>2, SumSeqNat
<1> QED BY <1>3 DEF Fees

-----------------------------------------------------------------------------
(* Balances. *)

(* What each block of a chain leaves to an address. *)
Nets(chain, a) ==
    [i \in DOMAIN chain |-> Received(chain[i].transactions, a)
                              - Spent(chain[i].transactions, a)]

LEMMA NetType ==
    ASSUME NEW a, NEW block \in Block
    PROVE  Received(block.transactions, a) - Spent(block.transactions, a) \in Int
<1> DEFINE txs == block.transactions
<1>1. txs \in Seq(Transaction)
  BY DEF Block
<1> HIDE DEF txs
<1>2. Received(txs, a) \in Nat /\ Spent(txs, a) \in Nat
  BY <1>1, ReceivedNat, SpentNat
<1>3. Received(txs, a) - Spent(txs, a) \in Int
  BY <1>2
<1> QED BY <1>3 DEF txs

LEMMA NetsType ==
    ASSUME NEW a, NEW chain \in Seq(Block)
    PROVE  Nets(chain, a) \in Seq(Int) /\ Len(Nets(chain, a)) = Len(chain)
<1>1. \A i \in 1 .. Len(chain) : chain[i] \in Block
  OBVIOUS
<1>2. \A i \in 1 .. Len(chain) : Received(chain[i].transactions, a)
                                   - Spent(chain[i].transactions, a) \in Int
  BY <1>1, NetType
<1>3. Len(chain) \in Nat /\ DOMAIN chain = 1 .. Len(chain)
  OBVIOUS
<1> QED BY <1>2, <1>3 DEF Nets

LEMMA BalanceType ==
    ASSUME NEW a, NEW chain \in Seq(Block)
    PROVE  Balance(chain, a) \in Int
<1>1. SumSeq(Nets(chain, a)) \in Int
  BY NetsType, SumSeqType
<1> QED BY <1>1 DEF Balance, Nets

LEMMA BalanceAppend ==
    ASSUME NEW a, NEW chain \in Seq(Block), NEW block \in Block
    PROVE  Balance(Append(chain, block), a)
             = Balance(chain, a) + (Received(block.transactions, a) - Spent(block.transactions, a))
<1> DEFINE x == Received(block.transactions, a) - Spent(block.transactions, a)
           s == Nets(chain, a)
           u == Append(chain, block)
           v == Append(s, x)
           n == Len(chain)
<1>1. s \in Seq(Int) /\ Len(s) = n /\ n \in Nat
  BY NetsType
<1>2. DOMAIN u = 1 .. n + 1 /\ u[n + 1] = block /\ (\A i \in 1 .. n : u[i] = chain[i])
  OBVIOUS
<1>3. x \in Int
  BY NetType
<1>4. DOMAIN v = 1 .. n + 1 /\ v[n + 1] = x /\ v = [i \in DOMAIN v |-> v[i]]
      /\ \A i \in 1 .. n : v[i] = s[i]
  <2> HIDE DEF s, x, n
  <2>1. v \in Seq(Int) /\ Len(v) = n + 1
    BY <1>1, <1>3
  <2>2. v[n + 1] = x /\ \A i \in 1 .. n : v[i] = s[i]
    BY <1>1, <1>3
  <2> HIDE DEF v
  <2>3. DOMAIN v = 1 .. n + 1 /\ v = [i \in DOMAIN v |-> v[i]]
    BY <2>1
  <2> QED BY <2>2, <2>3
<1>5. Nets(u, a) = v
  <2>1. \A i \in 1 .. n : Nets(u, a)[i] = s[i]
    BY <1>2 DEF Nets
  <2>2. Nets(u, a)[n + 1] = x
    BY <1>1, <1>2 DEF Nets
  <2>3. \A i \in 1 .. n + 1 : i # n + 1 => i \in 1 .. n
    BY <1>1
  <2>4. Nets(u, a) = [i \in 1 .. n + 1 |-> Nets(u, a)[i]]
    BY <1>2 DEF Nets
  <2> HIDE DEF u, v, s, x, n
  <2>5. \A i \in 1 .. n + 1 : Nets(u, a)[i] = v[i]
    BY <2>1, <2>2, <2>3, <1>4
  <2> QED BY <2>4, <2>5, <1>4
<1>6. SumSeq(v) = SumSeq(s) + x
  <2> HIDE DEF s, x
  <2> QED BY <1>1, <1>3, SumSeqAppend
<1> QED BY <1>5, <1>6 DEF Balance, Nets

-----------------------------------------------------------------------------
(* A ledger whose mempool the chain can pay for. *)

(* The transactions wallets sign; only those are pending. *)
Signed == {t \in Transaction : t.from \in Address}

LEMMA SignedSeq ==
    ASSUME NEW p \in Seq(Signed)
    PROVE  p \in Seq(Transaction) /\ \A j \in 1 .. Len(p) : p[j] \in Signed
BY DEF Signed

Funded(led) ==
    \A a \in Address : Spent(led.pendingTransactions, a) <= Balance(led.chain, a)

(* The mempool repeats nothing and the chain pays for it: the invariant    *)
(* that every handler preserves.                                           *)
GoodLedger(led) ==
    /\ led \in LedgerState
    /\ led.chain # <<>>
    /\ led.pendingTransactions \in Seq(Signed)
    /\ Distinct(led.pendingTransactions)
    /\ Funded(led)

(* An admitted transaction that replaces none. *)
LEMMA AppendKeepsGood ==
    ASSUME NEW led, GoodLedger(led), NEW t \in Signed, Admissible(led, t),
           Replaced(led.pendingTransactions, t) = {}
    PROVE  GoodLedger([led EXCEPT !.pendingTransactions = Append(@, t)])
<1> DEFINE p == led.pendingTransactions
           new == [led EXCEPT !.pendingTransactions = Append(@, t)]
<1>1. led \in LedgerState /\ led.chain # <<>> /\ p \in Seq(Signed) /\ Distinct(p)
      /\ p \in Seq(Transaction) /\ t \in Transaction /\ t.from \in Address
  BY SignedSeq DEF GoodLedger, Signed
<1>2. new.pendingTransactions = Append(p, t) /\ new.chain = led.chain /\ new \in LedgerState
  BY <1>1 DEF LedgerState
<1>3. Append(p, t) \in Seq(Signed) /\ Distinct(Append(p, t))
  <2>1. \A j \in 1 .. Len(p) : p[j] # t
    BY <1>1 DEF Admissible
  <2> HIDE DEF p
  <2> QED BY <1>1, <2>1, DistinctAppend
<1>4. ReservedBy(p, t) = Spent(p, t.from)
  BY DEF ReservedBy, Spent
<1>5. Balance(led.chain, t.from) - Spent(p, t.from) >= Cost(t)
  BY <1>4 DEF Admissible
<1>6. ASSUME NEW a \in Address
      PROVE  Spent(Append(p, t), a) <= Balance(led.chain, a)
  <2> DEFINE x == Spent(p, a)
             y == Balance(led.chain, a)
             c == Cost(t)
             z == Spent(Append(p, t), a)
  <2>1. x \in Nat /\ y \in Int /\ c \in Nat /\ x <= y
    <3> HIDE DEF p
    <3>1. x \in Nat
      BY <1>1, SpentNat
    <3>2. led.chain \in Seq(Block)
      BY <1>1 DEF LedgerState
    <3>3. y \in Int
      <4> DEFINE ch == led.chain
      <4> HIDE DEF ch
      <4>1. Balance(ch, a) \in Int
        BY <3>2, BalanceType DEF ch
      <4> QED BY <4>1 DEF ch
    <3>4. c \in Nat
      BY <1>1, TransactionFields DEF Cost
    <3>5. x <= y
      BY DEF GoodLedger, Funded, p
    <3> QED BY <3>1, <3>3, <3>4, <3>5
  <2>2. z = x + (IF t.from = a THEN c ELSE 0)
    <3> HIDE DEF p
    <3> QED BY <1>1, SpentAppend
  <2>3. t.from = a => y - x >= c
    BY <1>5
  <2> HIDE DEF x, y, c, z
  <2>4. z <= y
    BY <2>1, <2>2, <2>3
  <2> QED BY <2>4 DEF z, y
<1>7. GoodLedger(new)
  <2> HIDE DEF new, p
  <2> QED BY <1>1, <1>2, <1>3, <1>6 DEF GoodLedger, Funded
<1> QED BY <1>7

(* An admitted transaction that replaces another. *)
LEMMA ReplaceKeepsGood ==
    ASSUME NEW led, GoodLedger(led), NEW t \in Signed, Admissible(led, t),
           Replaced(led.pendingTransactions, t) # {}
    PROVE  GoodLedger([led EXCEPT !.pendingTransactions =
                          [j \in DOMAIN @ |-> IF j \in Replaced(@, t) THEN t ELSE @[j]]])
<1> DEFINE p == led.pendingTransactions
           q == [j \in DOMAIN p |-> IF j \in Replaced(p, t) THEN t ELSE p[j]]
           new == [led EXCEPT !.pendingTransactions = q]
           n == Len(p)
<1>1. led \in LedgerState /\ led.chain # <<>> /\ p \in Seq(Signed) /\ Distinct(p)
      /\ p \in Seq(Transaction) /\ t \in Transaction /\ t.from \in Address
  BY SignedSeq DEF GoodLedger, Signed
<1>2. PICK c \in 1 .. n : Replaced(p, t) = {c} /\ p[c].from = t.from
  <2>1. PICK c \in Replaced(p, t) : TRUE
    OBVIOUS
  <2>2. \A i, j \in Replaced(p, t) : i <= j
    BY DEF Replaced
  <2>3. Replaced(p, t) \subseteq 1 .. n /\ \A i \in Replaced(p, t) : p[i].from = t.from
    BY <1>1 DEF Replaced, IndicesFrom
  <2> HIDE DEF p, n
  <2>4. \A i \in Replaced(p, t) : i = c
    BY <2>1, <2>2, <2>3
  <2> QED BY <2>1, <2>3, <2>4
<1>3. n \in Nat /\ DOMAIN p = 1 .. n /\ \A j \in 1 .. n : p[j] \in Signed
  <2> HIDE DEF p
  <2> QED BY <1>1
<1>4. /\ q = [j \in 1 .. n |-> q[j]]
      /\ q[c] = t
      /\ \A j \in 1 .. n : j # c => q[j] = p[j]
  BY <1>2, <1>3
<1>5. \A j \in 1 .. n : p[j] # t
  BY <1>3 DEF Admissible
<1>6. ReservedBy(p, t)
        = SumSeq([j \in 1 .. n |-> IF p[j].from = t.from /\ j # c THEN Cost(p[j]) ELSE 0])
  <2>1. \A j \in 1 .. n : j \notin Replaced(p, t) <=> j # c
    BY <1>2
  <2> HIDE DEF p, n
  <2>2. [j \in DOMAIN p |-> IF p[j].from = t.from /\ j \notin Replaced(p, t) THEN Cost(p[j]) ELSE 0]
          = [j \in 1 .. n |-> IF p[j].from = t.from /\ j # c THEN Cost(p[j]) ELSE 0]
    BY <1>3, <2>1
  <2> QED BY <2>2 DEF ReservedBy
<1>7. Balance(led.chain, t.from) - ReservedBy(p, t) >= Cost(t)
  BY DEF Admissible
<1>8. new.pendingTransactions = q /\ new.chain = led.chain /\ led.chain \in Seq(Block)
      /\ (q \in Seq(Transaction) => new \in LedgerState)
  <2> HIDE DEF q
  <2> QED BY <1>1 DEF LedgerState
<1>9. \A a \in Address : Spent(p, a) <= Balance(led.chain, a)
  BY DEF GoodLedger, Funded
<1> HIDE DEF p, q, n
<1>10. q \in Seq(Signed) /\ Len(q) = n /\ q \in Seq(Transaction)
  <2>1. \A j \in 1 .. n : q[j] \in Signed
    BY <1>3, <1>4
  <2>2. q \in Seq(Signed) /\ Len(q) = n
    BY <1>3, <1>4, <2>1
  <2> QED BY <2>2, SignedSeq
<1>11. Distinct(q)
  <2>1. \A i, j \in 1 .. n : p[i] = p[j] => i = j
    BY <1>1 DEF Distinct, n
  <2>2. \A i, j \in 1 .. n : q[i] = q[j] => i = j
    BY <2>1, <1>4, <1>5, <1>2
  <2> QED BY <2>2, <1>10 DEF Distinct
<1>12. ASSUME NEW a \in Address, a # t.from PROVE Spent(q, a) = Spent(p, a)
  <2>1. \A j \in 1 .. n : (IF q[j].from = a THEN Cost(q[j]) ELSE 0)
                            = (IF p[j].from = a THEN Cost(p[j]) ELSE 0)
    BY <1>12, <1>2, <1>4
  <2>2. DOMAIN q = 1 .. n
    BY <1>4
  <2>3. [j \in DOMAIN q |-> IF q[j].from = a THEN Cost(q[j]) ELSE 0]
           = [j \in DOMAIN p |-> IF p[j].from = a THEN Cost(p[j]) ELSE 0]
    BY <2>1, <2>2, <1>3
  <2> QED BY <2>3 DEF Spent
<1>13. Spent(q, t.from) = ReservedBy(p, t) + Cost(t)
  <2> DEFINE m == Weights(Owed(t.from), q)
             r == [j \in 1 .. n |-> IF p[j].from = t.from /\ j # c THEN Cost(p[j]) ELSE 0]
  <2>1. \A j \in 1 .. n : Cost(p[j]) \in Nat
    <3>1. \A j \in 1 .. n : p[j] \in Transaction
      BY <1>3 DEF Signed
    <3> QED BY <3>1, TransactionFields DEF Cost
  <2>2. r \in Seq(Int) /\ Len(r) = n /\ r[c] = 0
    BY <2>1, <1>2, <1>3
  <2>3. m \in Seq(Int) /\ Len(m) = n /\ \A j \in 1 .. n : m[j] = Owed(t.from)[q[j]]
    <3>1. Owed(t.from) \in [Transaction -> Int]
      BY OwedType
    <3> DEFINE w == Owed(t.from)
    <3> HIDE DEF w
    <3>2. Weights(w, q) \in Seq(Int) /\ Len(Weights(w, q)) = Len(q)
      BY <3>1, <1>10, WeightsType DEF w
    <3>3. \A j \in 1 .. n : Weights(w, q)[j] = w[q[j]]
      BY <1>10 DEF Weights
    <3> QED BY <3>2, <3>3, <1>10 DEF w
  <2>4. \A j \in 1 .. n : m[j] = IF q[j].from = t.from THEN Cost(q[j]) ELSE 0
    <3>1. \A j \in 1 .. n : q[j] \in Transaction
      BY <1>10
    <3> HIDE DEF m
    <3> QED BY <3>1, <2>3 DEF Owed
  <2>5. m[c] = Cost(t) /\ \A j \in 1 .. n : j # c => m[j] = r[j]
    <3> HIDE DEF m
    <3> QED BY <2>4, <1>2, <1>4
  <2>6. SumSeq(m) = SumSeq(r) + (m[c] - r[c])
    <3> HIDE DEF m, r
    <3>1. m \in Seq(Int) /\ r \in Seq(Int) /\ Len(r) = Len(m) /\ c \in 1 .. Len(m)
          /\ \A j \in 1 .. Len(m) : j # c => m[j] = r[j]
      BY <2>2, <2>3, <2>5
    <3> QED BY <3>1, SumSeqChange
  <2>7. SumSeq(r) \in Int /\ Cost(t) \in Int
    <3>1. SumSeq(r) \in Int
      <4> HIDE DEF r
      <4> QED BY <2>2, SumSeqType
    <3> QED BY <3>1, <1>1, TransactionFields DEF Cost
  <2>8. SumSeq(m) = SumSeq(r) + Cost(t)
    <3> HIDE DEF m, r
    <3> QED BY <2>2, <2>5, <2>6, <2>7
  <2>9. Spent(q, t.from) = SumSeq(m)
    BY <1>10, SpentSum
  <2> QED BY <2>8, <2>9, <1>6
<1>14. ASSUME NEW a \in Address PROVE Spent(q, a) <= Balance(led.chain, a)
  <2>1. CASE a # t.from
    BY <2>1, <1>9, <1>12
  <2>2. CASE a = t.from
    <3> DEFINE x == ReservedBy(p, t)
               y == Balance(led.chain, t.from)
               z == Cost(t)
    <3>1. x \in Int /\ y \in Int /\ z \in Int
      <4>1. Spent(q, t.from) \in Nat
        BY <1>10, SpentNat
      <4>2. x \in Int
        <5> DEFINE r == [j \in 1 .. n |-> IF p[j].from = t.from /\ j # c THEN Cost(p[j]) ELSE 0]
        <5>1. \A j \in 1 .. n : Cost(p[j]) \in Nat
          <6>1. \A j \in 1 .. n : p[j] \in Transaction
            BY <1>3 DEF Signed
          <6> QED BY <6>1, TransactionFields DEF Cost
        <5>2. r \in Seq(Int)
          BY <5>1, <1>3
        <5>3. SumSeq(r) \in Int
          <6> HIDE DEF r
          <6> QED BY <5>2, SumSeqType
        <5> QED BY <5>3, <1>6
      <4>3. y \in Int
        <5> DEFINE ch == led.chain
        <5> HIDE DEF ch
        <5>1. ch \in Seq(Block)
          BY <1>8 DEF ch
        <5>2. Balance(ch, t.from) \in Int
          BY <5>1, BalanceType
        <5> QED BY <5>2 DEF ch
      <4>4. z \in Int
        BY <1>1, TransactionFields DEF Cost
      <4> QED BY <4>2, <4>3, <4>4
    <3>2. y - x >= z /\ Spent(q, t.from) = x + z
      BY <1>7, <1>13
    <3> HIDE DEF x, y, z
    <3>3. Spent(q, t.from) <= y
      BY <3>1, <3>2
    <3> QED BY <3>3, <2>2 DEF y
  <2> QED BY <2>1, <2>2
<1>15. GoodLedger(new)
  <2> HIDE DEF new
  <2> QED BY <1>1, <1>8, <1>10, <1>11, <1>14 DEF GoodLedger, Funded
<1> QED BY <1>15 DEF q, p

(* addTransaction, whatever it is given. *)
LEMMA AddTransactionKeepsGood ==
    ASSUME NEW led, GoodLedger(led), NEW t \in Signed
    PROVE  GoodLedger(AddTransaction(led, t))
BY AppendKeepsGood, ReplaceKeepsGood DEF AddTransaction

-----------------------------------------------------------------------------
(* Mining. *)

LEMMA HalvedType ==
    ASSUME NEW n \in Nat
    PROVE  Halved(n) \in Nat
<1> DEFINE Z == Nat
           b == InitialMiningReward
           F == CHOOSE g : g = [i \in 0 .. n |-> IF i = 0 THEN InitialMiningReward
                                                ELSE g[i - 1] \div 2]
           step == [i \in 1 .. n |-> [x \in Z |-> x \div 2]]
<1>1. b \in Z /\ step \in [1 .. n -> [Z -> Z]]
  BY LedgerAssumption
<1>2. PICK f : Iterates(f, Z, b, n, step)
  <2> HIDE DEF step, F, Z, b
  <2> QED BY <1>1, IterationExists
<1>3. f = [i \in 0 .. n |-> IF i = 0 THEN InitialMiningReward ELSE f[i - 1] \div 2]
  <2>1. ASSUME NEW i \in 1 .. n PROVE f[i] = f[i - 1] \div 2
    <3>1. f[i - 1] \in Z /\ f[i] = step[i][f[i - 1]]
      <4> HIDE DEF step, Z, b
      <4> QED BY <1>2 DEF Iterates
    <3> QED BY <3>1
  <2> QED BY <1>2, <2>1 DEF Iterates
<1>4. F = [i \in 0 .. n |-> IF i = 0 THEN InitialMiningReward ELSE F[i - 1] \div 2]
  BY <1>3
<1>5. Halved(n) = F[n]
  BY DEF Halved
<1> HIDE DEF F
<1>6. F[0] = b /\ \A i \in 1 .. n : F[i] = F[i - 1] \div 2
  BY <1>4
<1>7. Iterates(F, Z, b, n, step)
  <2>1. \A i \in 1 .. n : F[i - 1] \in Z => F[i] = step[i][F[i - 1]]
    BY <1>6
  <2>2. F = [i \in 0 .. n |-> F[i]] /\ F[0] = b
    BY <1>4, <1>6
  <2> HIDE DEF step, Z, b
  <2> QED BY <1>1, <2>1, <2>2, IterationTyped
<1> QED BY <1>5, <1>7 DEF Iterates

LEMMA MiningRewardType ==
    ASSUME NEW height \in Nat
    PROVE  MiningReward(height) \in Nat
<1>1. CASE height = 0
  BY <1>1 DEF MiningReward
<1>2. CASE height # 0
  <2> DEFINE h == (height - 1) \div HalvingInterval
  <2>1. h \in Nat
    BY <1>2, LedgerAssumption
  <2>2. Halved(h) \in Nat
    <3> HIDE DEF h
    <3> QED BY <2>1, HalvedType
  <2> QED BY <2>2 DEF MiningReward
<1> QED BY <1>1, <1>2

(* adjustDifficulty: two blocks are compared only once there are that many. *)
LEMMA AdjustDifficultyType ==
    ASSUME NEW chain \in Seq(Block), chain # <<>>, AtAdjustment(chain), NEW d \in Nat
    PROVE  AdjustDifficulty(chain, d) \in Nat
<1> DEFINE n == Len(chain)
           k == AdjustmentInterval
<1>1. n \in Nat \ {0} /\ k \in Nat \ {0} /\ n % k = 0
  BY LedgerAssumption DEF AtAdjustment
<1>2. n >= k
  <2> HIDE DEF n, k
  <2> SUFFICES ASSUME n < k PROVE FALSE
    BY <1>1
  <2>1. n % k = n
    BY <1>1
  <2> QED BY <2>1, <1>1
<1>3. chain[n] \in Block /\ chain[n - k + 1] \in Block
  <2> HIDE DEF k
  <2>1. n - k + 1 \in 1 .. n
    BY <1>1, <1>2
  <2> QED BY <2>1, <1>1
<1>4. chain[n].timestamp \in Nat /\ chain[n - k + 1].timestamp \in Nat
  BY <1>3 DEF Block
<1> HIDE DEF n, k
<1> DEFINE actual == chain[n].timestamp - chain[n - k + 1].timestamp
           adjusted == IF 2 * actual < BlockTime * k THEN d + 1
                       ELSE IF actual > 2 * (BlockTime * k) THEN d - 1 ELSE d
<1>5. adjusted \in Int /\ MinDifficulty \in Nat
  BY LedgerAssumption
<1>6. AdjustDifficulty(chain, d) = IF adjusted < MinDifficulty THEN MinDifficulty ELSE adjusted
  BY DEF AdjustDifficulty, LastBlock, n, k
<1> HIDE DEF adjusted
<1> QED BY <1>5, <1>6

(* The block of minePendingTransactions. *)
LEMMA NextBlockType ==
    ASSUME NEW led \in LedgerState, NEW miner \in Miner, NEW now \in Nat
    PROVE  \E sel, reward :
              /\ sel = TransactionsForNextBlock(led)
              /\ sel \in Selections(led.pendingTransactions)
              /\ reward \in Transaction
              /\ reward.from = Coinbase
              /\ NextBlock(led, miner, now) \in Block
              /\ NextBlock(led, miner, now).transactions = Append(sel, reward)
<1> DEFINE sel == TransactionsForNextBlock(led)
           reward == RewardTransaction(led.chain, sel, miner, now)
           block == NextBlock(led, miner, now)
<1>1. led \in LedgerState /\ led.chain \in Seq(Block) /\ led.difficulty \in Nat
  BY LedgerFields
<1>2. sel \in Selections(led.pendingTransactions)
  BY <1>1, ExecutionOrderSelects, LedgerAssumption DEF TransactionsForNextBlock
<1>3. sel \in Seq(Transaction)
  BY <1>2 DEF Selections
<1>4. reward \in Transaction /\ reward.from = Coinbase
  <2> HIDE DEF sel
  <2>1. Len(led.chain) \in Nat
    BY <1>1
  <2>2. MiningReward(Len(led.chain)) \in Nat /\ Fees(sel) \in Nat
    BY <2>1, <1>3, MiningRewardType, FeesNat
  <2>3. MiningReward(Len(led.chain)) + Fees(sel) \in Nat
    BY <2>2
  <2> QED BY <2>1, <2>3 DEF RewardTransaction, Transaction
<1>5. block = [transactions |-> Append(sel, reward), difficulty |-> led.difficulty,
               timestamp |-> now]
  BY DEF NextBlock
<1>6. block \in Block /\ block.transactions = Append(sel, reward)
  <2> HIDE DEF sel, reward, block
  <2>1. Append(sel, reward) \in Seq(Transaction)
    BY <1>3, <1>4
  <2> QED BY <2>1, <1>1, <1>5 DEF Block
<1>7. sel = TransactionsForNextBlock(led)
  OBVIOUS
<1> HIDE DEF sel, reward
<1> QED BY <1>2, <1>4, <1>6, <1>7

(* A block that takes of a sender nothing but pending transactions: these  *)
(* and what stays pending of it are what was pending.                      *)
LEMMA SenderSplits ==
    ASSUME NEW p \in Seq(Signed), Distinct(p), NEW sel \in Seq(Transaction), Distinct(sel),
           NEW reward \in Transaction, reward.from = Coinbase, NEW a,
           \A k \in 1 .. Len(sel) : sel[k].from # a \/ \E j \in 1 .. Len(p) : sel[k] = p[j]
    PROVE  LET left == RemovePending(p, Append(sel, reward))
           IN  /\ left \in Seq(Signed)
               /\ Distinct(left)
               /\ Spent(sel, a) + Spent(left, a) = Spent(p, a)
<1> DEFINE txs == Append(sel, reward)
           keep == Range(p) \ Range(txs)
           left == Subsequence(p, keep)
<1>1. \A k \in 1 .. Len(sel) : Owed(a)[sel[k]] = 0 \/ \E j \in 1 .. Len(p) : sel[k] = p[j]
  <2>1. \A k \in 1 .. Len(sel) : sel[k] \in Transaction
    OBVIOUS
  <2> QED BY <2>1 DEF Owed
<1>2. p \in Seq(Transaction) /\ \A j \in 1 .. Len(p) : p[j].from # Coinbase
  BY LedgerAssumption, SignedSeq DEF Signed
<1>3. \A x : x \in Range(txs) <=> x = reward \/ \E k \in 1 .. Len(sel) : sel[k] = x
  <2>1. DOMAIN txs = 1 .. Len(sel) + 1 /\ txs[Len(sel) + 1] = reward
        /\ \A k \in 1 .. Len(sel) : txs[k] = sel[k]
    OBVIOUS
  <2>2. \A k \in 1 .. Len(sel) + 1 : k \in 1 .. Len(sel) \/ k = Len(sel) + 1
    OBVIOUS
  <2>3. \A k \in 1 .. Len(sel) : k \in 1 .. Len(sel) + 1
    OBVIOUS
  <2>4. Len(sel) + 1 \in 1 .. Len(sel) + 1
    OBVIOUS
  <2> HIDE DEF txs
  <2> QED BY <2>1, <2>2, <2>3, <2>4 DEF Range
<1>4. \A j \in 1 .. Len(p) : p[j] \in Range(p)
  BY DEF Range
<1>5. \A j \in 1 .. Len(p) : p[j] \in keep <=> \A k \in 1 .. Len(sel) : sel[k] # p[j]
  <2> HIDE DEF txs
  <2> QED BY <1>2, <1>3, <1>4
<1>6. left \in Seq(Signed) /\ Distinct(left)
  <2> HIDE DEF keep
  <2> QED BY SubsequenceType, SubsequenceDistinct
<1>7. Spent(sel, a) + Spent(left, a) = Spent(p, a)
  <2> DEFINE w == Owed(a)
  <2>1. w \in [Transaction -> Int]
    BY OwedType
  <2>2. left \in Seq(Transaction)
    BY <1>6, SignedSeq
  <2>3. \A k \in 1 .. Len(sel) : w[sel[k]] = 0 \/ \E j \in 1 .. Len(p) : sel[k] = p[j]
    BY <1>1
  <2> HIDE DEF keep, w
  <2>4. SumSeq(Weights(w, sel)) + SumSeq(Weights(w, Subsequence(p, keep)))
          = SumSeq(Weights(w, p))
    BY <2>1, <2>3, <1>2, <1>5, WeightsSplit
  <2> QED BY <2>2, <2>4, <1>2, SpentSum DEF w
<1> QED BY <1>6, <1>7 DEF RemovePending

(* What is taken into a block and what stays pending is what was pending,  *)
(* for every sender.                                                       *)
LEMMA RemovePendingSplits ==
    ASSUME NEW p \in Seq(Signed), Distinct(p), NEW sel \in Selections(p),
           NEW reward \in Transaction, reward.from = Coinbase, NEW a
    PROVE  LET left == RemovePending(p, Append(sel, reward))
           IN  /\ left \in Seq(Signed)
               /\ Distinct(left)
               /\ Spent(sel, a) + Spent(left, a) = Spent(p, a)
<1>1. sel \in Seq(Transaction) /\ Distinct(sel)
      /\ \A k \in 1 .. Len(sel) : \E j \in 1 .. Len(p) : sel[k] = p[j]
  BY DEF Selections
<1> QED BY <1>1, SenderSplits

(* A block that pays a reward to its miner and takes the rest from the     *)
(* mempool: no sender keeps more pending, and what the chain leaves to     *)
(* each, less what is still pending, does not shrink.                      *)
LEMMA BlockSettles ==
    ASSUME NEW p \in Seq(Signed), Distinct(p), NEW c \in Seq(Block), NEW block \in Block,
           NEW sel \in Selections(p), NEW reward \in Transaction, reward.from = Coinbase,
           block.transactions = Append(sel, reward), NEW a \in Address,
           NEW left, left = RemovePending(p, block.transactions)
    PROVE  /\ Spent(left, a) <= Spent(p, a)
           /\ Balance(Append(c, block), a) - Spent(left, a) >= Balance(c, a) - Spent(p, a)
<1> DEFINE txs == block.transactions
           s == Spent(sel, a)
           l == Spent(left, a)
           b == Balance(c, a)
           r == Received(txs, a)
           q == Spent(p, a)
<1>1. left \in Seq(Signed) /\ s + l = q
  BY RemovePendingSplits
<1>2. sel \in Seq(Transaction) /\ txs \in Seq(Transaction) /\ left \in Seq(Transaction)
  <2>1. sel \in Seq(Transaction)
    BY DEF Selections
  <2> QED BY <2>1, <1>1, SignedSeq
<1>3. s \in Nat /\ l \in Nat /\ r \in Nat /\ b \in Int
  <2> HIDE DEF txs
  <2> QED BY <1>2, SpentNat, ReceivedNat, BalanceType
<1>4. Spent(txs, a) = s
  <2>1. reward.from # a
    BY LedgerAssumption
  <2>2. Spent(Append(sel, reward), a) = Spent(sel, a) + 0
    BY <1>2, <2>1, SpentAppend
  <2> QED BY <2>2, <1>3
<1>5. Balance(Append(c, block), a) = b + (r - s)
  BY <1>4, BalanceAppend
<1> HIDE DEF s, l, b, r, q
<1>6. l <= q /\ (b + (r - s)) - l >= b - q
  BY <1>1, <1>3
<1> QED BY <1>5, <1>6 DEF l, q, b

(* minePendingTransactions: whatever the selection took, the chain pays    *)
(* for what is left.                                                       *)
LEMMA MineKeepsGood ==
    ASSUME NEW led, GoodLedger(led), NEW miner \in Miner, NEW now \in Nat
    PROVE  GoodLedger(MinePendingTransactions(led, miner, now))
<1> DEFINE p == led.pendingTransactions
           block == NextBlock(led, miner, now)
           txs == block.transactions
           chain == Append(led.chain, block)
           left == RemovePending(p, txs)
           new == MinePendingTransactions(led, miner, now)
<1>1. PICK sel, reward :
         /\ sel \in Selections(p)
         /\ reward \in Transaction
         /\ reward.from = Coinbase
         /\ block \in Block
         /\ txs = Append(sel, reward)
  BY NextBlockType DEF GoodLedger
<1>2. led \in LedgerState /\ led.chain \in Seq(Block) /\ led.difficulty \in Nat
      /\ p \in Seq(Signed) /\ Distinct(p)
      /\ \A a \in Address : Spent(p, a) <= Balance(led.chain, a)
  BY LedgerFields DEF GoodLedger, Funded
<1>3. new = [chain |-> chain, pendingTransactions |-> left,
             difficulty |-> IF AtAdjustment(chain) THEN AdjustDifficulty(chain, led.difficulty)
                            ELSE led.difficulty]
  BY DEF MinePendingTransactions
<1> HIDE DEF p, block, txs, new
<1>4. chain \in Seq(Block) /\ chain # <<>>
  BY <1>1, <1>2
<1>5. left \in Seq(Signed) /\ Distinct(left)
      /\ \A a \in Address : Spent(sel, a) + Spent(left, a) = Spent(p, a)
  BY <1>1, <1>2, RemovePendingSplits
<1>6. (IF AtAdjustment(chain) THEN AdjustDifficulty(chain, led.difficulty)
       ELSE led.difficulty) \in Nat
  <2> HIDE DEF chain
  <2> QED BY <1>2, <1>4, AdjustDifficultyType
<1>7. ASSUME NEW a \in Address PROVE Spent(left, a) <= Balance(chain, a)
  <2> DEFINE c == led.chain
             l == Spent(left, a)
             q == Spent(p, a)
             b == Balance(c, a)
             d == Balance(chain, a)
  <2>1. l <= q /\ d - l >= b - q
    <3> HIDE DEF c
    <3>1. c \in Seq(Block) /\ chain = Append(c, block)
      BY <1>2 DEF c
    <3> HIDE DEF chain, left
    <3> DEFINE k == RemovePending(p, block.transactions)
    <3>2. left = k
      BY DEF left, txs
    <3> HIDE DEF k
    <3> QED BY <1>1, <1>2, <3>1, <3>2, BlockSettles DEF txs, k
  <2>2. l \in Nat /\ q \in Nat /\ b \in Int /\ d \in Int
    <3> HIDE DEF left, chain, c
    <3>1. left \in Seq(Transaction) /\ p \in Seq(Transaction) /\ c \in Seq(Block)
      BY <1>2, <1>5, SignedSeq DEF c
    <3> QED BY <3>1, <1>4, SpentNat, BalanceType
  <2>3. q <= b
    BY <1>2
  <2> HIDE DEF l, q, b, d
  <2>4. l <= d
    BY <2>1, <2>2, <2>3
  <2> QED BY <2>4 DEF l, d
<1>8. new \in LedgerState
  <2> HIDE DEF chain, left
  <2>1. left \in Seq(Transaction)
    BY <1>5, SignedSeq
  <2> QED BY <2>1, <1>3, <1>4, <1>6 DEF LedgerState
<1>9. new.chain = chain /\ new.pendingTransactions = left
  <2> HIDE DEF chain, left
  <2> QED BY <1>3
<1>10. GoodLedger(new)
  <2> HIDE DEF chain, left
  <2> QED BY <1>4, <1>5, <1>7, <1>8, <1>9 DEF GoodLedger, Funded
<1> QED BY <1>10 DEF new

-----------------------------------------------------------------------------
(* The reload of a saved file. *)

(* Each ledger on the way from the saved chain without a mempool to the    *)
(* one with every transaction readmitted, whatever Z admission preserves.  *)
Readmits(run, base, txs, Z) ==
    /\ run[0] = base
    /\ \A i \in 0 .. Len(txs) : run[i] \in Z
    /\ \A i \in 1 .. Len(txs) : run[i] = AddTransaction(run[i - 1], txs[i])

Preserved(Z, T) == \A led \in Z : \A t \in T : AddTransaction(led, t) \in Z

LEMMA ReadmissionRuns ==
    ASSUME NEW Z, NEW T, Preserved(Z, T), NEW base \in Z, NEW txs \in Seq(T)
    PROVE  Readmits(Readmission(base, txs), base, txs, Z)
<1> DEFINE n == Len(txs)
           F == CHOOSE g : g = [i \in 0 .. Len(txs) |->
                                   IF i = 0 THEN base ELSE AddTransaction(g[i - 1], txs[i])]
           step == [i \in 1 .. n |-> [led \in Z |-> AddTransaction(led, txs[i])]]
<1>1. n \in Nat /\ \A i \in 1 .. n : txs[i] \in T
  OBVIOUS
<1>2. step \in [1 .. n -> [Z -> Z]]
  <2> HIDE DEF n
  <2> QED BY <1>1 DEF Preserved
<1>3. PICK f : Iterates(f, Z, base, n, step)
  <2> HIDE DEF step, n, F
  <2> QED BY <1>1, <1>2, IterationExists
<1>4. f = [i \in 0 .. n |-> IF i = 0 THEN base ELSE AddTransaction(f[i - 1], txs[i])]
  <2>1. ASSUME NEW i \in 1 .. n PROVE f[i] = AddTransaction(f[i - 1], txs[i])
    <3>1. f[i - 1] \in Z /\ f[i] = step[i][f[i - 1]]
      <4> HIDE DEF step, n
      <4> QED BY <1>3 DEF Iterates
    <3> QED BY <3>1, <1>1
  <2>2. f[0] = base /\ f \in [0 .. n -> Z]
    BY <1>3 DEF Iterates
  <2> HIDE DEF n
  <2> QED BY <1>1, <2>1, <2>2
<1>5. F = [i \in 0 .. n |-> IF i = 0 THEN base ELSE AddTransaction(F[i - 1], txs[i])]
  BY <1>4
<1>6. Readmission(base, txs) = F
  BY DEF Readmission
<1> HIDE DEF F, n
<1>7. F[0] = base /\ \A i \in 1 .. n : F[i] = AddTransaction(F[i - 1], txs[i])
  BY <1>1, <1>5
<1>8. Iterates(F, Z, base, n, step)
  <2>1. \A i \in 1 .. n : F[i - 1] \in Z => F[i] = step[i][F[i - 1]]
    BY <1>7
  <2>2. F = [i \in 0 .. n |-> F[i]] /\ F[0] = base
    BY <1>5, <1>7
  <2> HIDE DEF step
  <2> QED BY <1>1, <1>2, <2>1, <2>2, IterationTyped
<1>9. \A i \in 0 .. n : F[i] \in Z
  BY <1>8 DEF Iterates
<1> QED BY <1>6, <1>7, <1>9 DEF n, Readmits

GoodLedgers == {led \in LedgerState : GoodLedger(led)}

LEMMA ReadmissionSteps ==
    ASSUME NEW base, GoodLedger(base), NEW txs \in Seq(Signed),
           NEW run, run = Readmission(base, txs)
    PROVE  /\ run[0] = base
           /\ \A i \in 0 .. Len(txs) : GoodLedger(run[i])
           /\ \A i \in 1 .. Len(txs) : run[i] = AddTransaction(run[i - 1], txs[i])
<1> DEFINE Z == GoodLedgers
<1>1. base \in Z /\ \A led \in Z : GoodLedger(led)
  BY DEF GoodLedger, GoodLedgers
<1>2. ASSUME NEW led \in Z, NEW t \in Signed PROVE AddTransaction(led, t) \in Z
  <2>1. GoodLedger(AddTransaction(led, t))
    BY <1>1, AddTransactionKeepsGood
  <2> QED BY <2>1 DEF GoodLedger, GoodLedgers
<1>3. Preserved(Z, Signed)
  BY <1>2 DEF Preserved
<1> HIDE DEF Z
<1>4. Readmits(Readmission(base, txs), base, txs, Z)
  BY <1>1, <1>3, ReadmissionRuns
<1> QED BY <1>1, <1>4 DEF Readmits

LEMMA ReadmissionKeepsGood ==
    ASSUME NEW base, GoodLedger(base), NEW txs \in Seq(Signed)
    PROVE  GoodLedger(Readmission(base, txs)[Len(txs)])
<1>1. Len(txs) \in 0 .. Len(txs)
  OBVIOUS
<1> DEFINE run == Readmission(base, txs)
<1>2. run = Readmission(base, txs)
  OBVIOUS
<1> HIDE DEF run
<1>3. GoodLedger(run[Len(txs)])
  BY <1>1, <1>2, ReadmissionSteps
<1> QED BY <1>3 DEF run

LEMMA GenesisBlock == Genesis \in Block /\ Genesis.transactions = <<>>
BY LedgerAssumption DEF Genesis, Block

LEMMA SpentNothing == ASSUME NEW a PROVE Spent(<<>>, a) = 0
<1>1. [j \in DOMAIN <<>> |-> IF <<>>[j].from = a THEN Cost(<<>>[j]) ELSE 0] = <<>>
  OBVIOUS
<1> QED BY <1>1, SumSeqEmpty DEF Spent

LEMMA ReceivedNothing == ASSUME NEW a PROVE Received(<<>>, a) = 0
<1>1. [j \in DOMAIN <<>> |-> IF <<>>[j].to = a THEN <<>>[j].amount ELSE 0] = <<>>
  OBVIOUS
<1> QED BY <1>1, SumSeqEmpty DEF Received

LEMMA NothingIsGood ==
    ASSUME NEW led \in LedgerState, led.chain # <<>>, led.pendingTransactions = <<>>,
           \A a \in Address : Balance(led.chain, a) >= 0
    PROVE  GoodLedger(led)
<1>1. <<>> \in Seq(Signed) /\ Distinct(<<>>)
  BY DEF Distinct
<1>2. ASSUME NEW a \in Address PROVE Spent(<<>>, a) <= Balance(led.chain, a)
  <2> DEFINE c == led.chain
  <2> HIDE DEF c
  <2>1. c \in Seq(Block)
    BY LedgerFields DEF c
  <2>2. Balance(c, a) \in Int /\ Balance(c, a) >= 0
    BY <2>1, BalanceType DEF c
  <2> QED BY <2>2, SpentNothing DEF c
<1> QED BY <1>1, <1>2 DEF GoodLedger, Funded

(* The genesis block gives nobody anything. *)
LEMMA GenesisBalance ==
    ASSUME NEW a
    PROVE  Balance(<<Genesis>>, a) = 0
<1>1. <<>> \in Seq(Block) /\ Append(<<>>, Genesis) = <<Genesis>>
  OBVIOUS
<1>2. Balance(Append(<<>>, Genesis), a)
        = Balance(<<>>, a) + (Received(Genesis.transactions, a) - Spent(Genesis.transactions, a))
  BY <1>1, GenesisBlock, BalanceAppend
<1>3. Balance(<<>>, a) = 0
  <2>1. [i \in DOMAIN <<>> |-> Received(<<>>[i].transactions, a)
                                 - Spent(<<>>[i].transactions, a)] = <<>>
    OBVIOUS
  <2> QED BY <2>1, SumSeqEmpty DEF Balance
<1>4. Received(Genesis.transactions, a) = 0 /\ Spent(Genesis.transactions, a) = 0
  BY GenesisBlock, SpentNothing, ReceivedNothing
<1> QED BY <1>1, <1>2, <1>3, <1>4

(* The constructor's ledger. *)
LEMMA FreshLedgerIsGood == GoodLedger(FreshLedger)
<1> DEFINE c == FreshLedger.chain
<1>1. FreshLedger \in LedgerState /\ c = <<Genesis>> /\ FreshLedger.pendingTransactions = <<>>
  BY GenesisBlock, LedgerAssumption DEF FreshLedger, LedgerState
<1>2. \A a \in Address : Balance(c, a) >= 0
  BY <1>1, GenesisBalance
<1>3. c # <<>>
  BY <1>1
<1> QED BY <1>1, <1>2, <1>3, NothingIsGood

LEMMA LoadBaseIsGood ==
    ASSUME NEW file, GoodLedger(file)
    PROVE  GoodLedger(LoadBase(file))
<1> DEFINE base == LoadBase(file)
           c == file.chain
           p == file.pendingTransactions
<1>1. file \in LedgerState /\ c # <<>> /\ c \in Seq(Block) /\ p \in Seq(Signed)
      /\ file.difficulty \in Nat
  BY LedgerFields DEF GoodLedger
<1>2. base.chain = c /\ base.pendingTransactions = <<>> /\ base \in LedgerState
  BY <1>1, LedgerAssumption DEF LoadBase, LedgerState
<1>3. \A a \in Address : Spent(p, a) <= Balance(c, a)
  BY DEF GoodLedger, Funded
<1> HIDE DEF base, c, p
<1>4. ASSUME NEW a \in Address PROVE Balance(c, a) >= 0
  <2>1. Spent(p, a) \in Nat /\ Balance(c, a) \in Int
    BY <1>1, SpentNat, BalanceType, SignedSeq
  <2> QED BY <2>1, <1>3
<1>5. GoodLedger(base)
  BY <1>1, <1>2, <1>4, NothingIsGood
<1> QED BY <1>5 DEF base

(* loadState of what a good ledger was saved as. *)
LEMMA LoadKeepsGood ==
    ASSUME NEW file, GoodLedger(file)
    PROVE  GoodLedger(LoadState(file))
<1> DEFINE base == LoadBase(file)
           p == file.pendingTransactions
<1>1. p \in Seq(Signed) /\ GoodLedger(base)
  BY LoadBaseIsGood DEF GoodLedger
<1> HIDE DEF base, p
<1>2. GoodLedger(Readmission(base, p)[Len(p)])
  BY <1>1, ReadmissionKeepsGood
<1> QED BY <1>2, FreshLedgerIsGood DEF LoadState, base, p

-----------------------------------------------------------------------------
(* Chains that nodes have made.  What the functions of Ledger.tla do to    *)
(* them and to a mempool over them: every block a node makes is one that   *)
(* every node validates, the nonces of a sender follow its confirmed ones  *)
(* without a gap, and a saved ledger is taken back whole.                  *)

(* Nonces and how many transactions of a sender there are. *)

(* The positions of a's transactions among the first k. *)
Earlier(txs, a, k) == {h \in 1 .. k : txs[h].from = a}

LEMMA EarlierFinite ==
    ASSUME NEW txs, NEW a, NEW k \in Nat
    PROVE  IsFiniteSet(Earlier(txs, a, k)) /\ Cardinality(Earlier(txs, a, k)) \in 0 .. k
<1>1. IsFiniteSet(1 .. k) /\ Cardinality(1 .. k) = k
  BY FS_Interval
<1>2. Earlier(txs, a, k) \in SUBSET (1 .. k)
  BY DEF Earlier
<1>3. IsFiniteSet(Earlier(txs, a, k)) /\ Cardinality(Earlier(txs, a, k)) <= k
  BY <1>1, <1>2, FS_Subset
<1>4. Cardinality(Earlier(txs, a, k)) \in Nat
  BY <1>3, FS_CardinalityType
<1> QED BY <1>3, <1>4

LEMMA EarlierStep ==
    ASSUME NEW txs, NEW a, NEW k \in Nat
    PROVE  Cardinality(Earlier(txs, a, k + 1))
             = Cardinality(Earlier(txs, a, k)) + (IF txs[k + 1].from = a THEN 1 ELSE 0)
<1> DEFINE E == Earlier(txs, a, k)
<1>1. IsFiniteSet(E) /\ Cardinality(E) \in Nat /\ k + 1 \notin E
  <2>1. k + 1 \notin E
    BY DEF Earlier
  <2> QED BY <2>1, EarlierFinite
<1>2. \A h : h \in 1 .. k + 1 <=> h \in 1 .. k \/ h = k + 1
  OBVIOUS
<1>3. CASE txs[k + 1].from = a
  <2>1. Earlier(txs, a, k + 1) = E \cup {k + 1}
    BY <1>2, <1>3 DEF Earlier
  <2>2. Cardinality(E \cup {k + 1}) = Cardinality(E) + 1
    <3> HIDE DEF E
    <3> QED BY <1>1, FS_AddElement
  <2> QED BY <1>3, <2>1, <2>2
<1>4. CASE txs[k + 1].from # a
  <2>1. Earlier(txs, a, k + 1) = E
    BY <1>2, <1>4 DEF Earlier
  <2> QED BY <1>1, <1>4, <2>1
<1> QED BY <1>3, <1>4

LEMMA EarlierMonotone ==
    ASSUME NEW txs, NEW a, NEW k \in Nat, NEW m \in Nat, k <= m
    PROVE  Cardinality(Earlier(txs, a, k)) <= Cardinality(Earlier(txs, a, m))
<1>1. Earlier(txs, a, k) \in SUBSET Earlier(txs, a, m)
  BY DEF Earlier
<1>2. IsFiniteSet(Earlier(txs, a, m))
  BY EarlierFinite
<1> QED BY <1>1, <1>2, FS_Subset

(* As a sum, which is what mining splits and a block adds to. *)
One(a) == [t \in Transaction |-> IF t.from = a THEN 1 ELSE 0]

LEMMA OneType == ASSUME NEW a PROVE One(a) \in [Transaction -> Int]
BY DEF One

LEMMA CountSum ==
    ASSUME NEW a, NEW txs \in Seq(Transaction)
    PROVE  /\ IndicesFrom(txs, a) = Earlier(txs, a, Len(txs))
           /\ IsFiniteSet(IndicesFrom(txs, a))
           /\ Cardinality(IndicesFrom(txs, a)) \in 0 .. Len(txs)
           /\ Cardinality(IndicesFrom(txs, a)) = SumSeq(Weights(One(a), txs))
<1> DEFINE n == Len(txs)
           w == Weights(One(a), txs)
<1>1. n \in Nat /\ \A i \in 1 .. n : txs[i] \in Transaction
  OBVIOUS
<1>2. w \in Seq(Int) /\ Len(w) = n /\ \A i \in 1 .. n : w[i] = One(a)[txs[i]]
  BY OneType, WeightsType
<1>3. \A i \in 1 .. n : w[i] = IF txs[i].from = a THEN 1 ELSE 0
  BY <1>1, <1>2 DEF One
<1>4. PICK f \in [0 .. n -> Int] :
         f[0] = 0 /\ (\A i \in 1 .. n : f[i] = f[i - 1] + w[i]) /\ SumSeq(w) = f[n]
  <2> HIDE DEF w
  <2> QED BY <1>2, SumSeqDef
<1> HIDE DEF w, n
<1> DEFINE S == {i \in 0 .. n : Cardinality(Earlier(txs, a, i)) = f[i]}
<1>5. 0 \in S
  <2>1. Earlier(txs, a, 0) = {}
    BY DEF Earlier
  <2>2. Cardinality(Earlier(txs, a, 0)) = 0
    BY <2>1, FS_EmptySet
  <2> QED BY <1>1, <1>4, <2>2
<1>6. ASSUME NEW i \in 1 .. n, i - 1 \in S PROVE i \in S
  <2>1. i - 1 \in Nat /\ (i - 1) + 1 = i
    BY <1>1
  <2>2. Cardinality(Earlier(txs, a, i))
          = Cardinality(Earlier(txs, a, i - 1)) + (IF txs[i].from = a THEN 1 ELSE 0)
    BY <2>1, EarlierStep
  <2> QED BY <1>3, <1>4, <1>6, <2>2
<1>7. \A i \in 0 .. n : i \in S
  <2> HIDE DEF S
  <2> QED BY <1>1, <1>5, <1>6, IntervalInduction
<1>8. IndicesFrom(txs, a) = Earlier(txs, a, n)
  BY DEF IndicesFrom, Earlier, n
<1>9. IsFiniteSet(Earlier(txs, a, n)) /\ Cardinality(Earlier(txs, a, n)) \in 0 .. n
  BY <1>1, EarlierFinite
<1>10. Cardinality(Earlier(txs, a, n)) = SumSeq(w)
  <2>1. n \in S
    <3> HIDE DEF S
    <3> QED BY <1>1, <1>7
  <2> QED BY <1>4, <2>1
<1> QED BY <1>8, <1>9, <1>10 DEF n, w

LEMMA CountAppend ==
    ASSUME NEW a, NEW txs \in Seq(Transaction), NEW t \in Transaction
    PROVE  Cardinality(IndicesFrom(Append(txs, t), a))
             = Cardinality(IndicesFrom(txs, a)) + (IF t.from = a THEN 1 ELSE 0)
<1>1. Append(txs, t) \in Seq(Transaction)
  OBVIOUS
<1>2. SumSeq(Weights(One(a), Append(txs, t))) = SumSeq(Weights(One(a), txs)) + One(a)[t]
  BY OneType, WeightsAppend
<1>3. One(a)[t] = IF t.from = a THEN 1 ELSE 0
  BY DEF One
<1> QED BY <1>1, <1>2, <1>3, CountSum

LEMMA CountNothing == ASSUME NEW a PROVE Cardinality(IndicesFrom(<<>>, a)) = 0
<1>1. IndicesFrom(<<>>, a) = {}
  BY DEF IndicesFrom
<1> QED BY <1>1, FS_EmptySet

(* How many of a's transactions are in each block. *)
Counts(chain, a) ==
    [i \in DOMAIN chain |-> Cardinality(IndicesFrom(chain[i].transactions, a))]

LEMMA BlockTransactions ==
    ASSUME NEW block \in Block
    PROVE  block.transactions \in Seq(Transaction) /\ block.difficulty \in Nat
BY DEF Block

LEMMA CountsType ==
    ASSUME NEW a, NEW chain \in Seq(Block)
    PROVE  /\ Counts(chain, a) \in Seq(Int) /\ Len(Counts(chain, a)) = Len(chain)
           /\ \A i \in 1 .. Len(chain) :
                 Counts(chain, a)[i] = Cardinality(IndicesFrom(chain[i].transactions, a))
                 /\ Counts(chain, a)[i] \in Nat
<1>1. \A i \in 1 .. Len(chain) : chain[i] \in Block
  OBVIOUS
<1>2. \A i \in 1 .. Len(chain) : chain[i].transactions \in Seq(Transaction)
  BY <1>1, BlockTransactions
<1>3. ASSUME NEW i \in 1 .. Len(chain)
      PROVE  Cardinality(IndicesFrom(chain[i].transactions, a)) \in Nat
  <2> DEFINE txs == chain[i].transactions
  <2>1. txs \in Seq(Transaction)
    BY <1>2
  <2> HIDE DEF txs
  <2>2. Cardinality(IndicesFrom(txs, a)) \in 0 .. Len(txs)
    BY <2>1, CountSum
  <2>3. Cardinality(IndicesFrom(txs, a)) \in Nat
    BY <2>1, <2>2
  <2> QED BY <2>3 DEF txs
<1>4. Len(chain) \in Nat /\ DOMAIN chain = 1 .. Len(chain)
  OBVIOUS
<1> QED BY <1>3, <1>4 DEF Counts

LEMMA NonceType ==
    ASSUME NEW a, NEW chain \in Seq(Block)
    PROVE  ConfirmedNonce(chain, a) \in Nat
<1> DEFINE m == Counts(chain, a)
<1>1. m \in Seq(Int) /\ \A i \in 1 .. Len(m) : m[i] >= 0
  BY CountsType
<1>2. SumSeq(m) \in Nat
  <2> HIDE DEF m
  <2> QED BY <1>1, SumSeqNat
<1> QED BY <1>2 DEF ConfirmedNonce, Counts

LEMMA NonceAppend ==
    ASSUME NEW a, NEW chain \in Seq(Block), NEW block \in Block
    PROVE  ConfirmedNonce(Append(chain, block), a)
             = ConfirmedNonce(chain, a) + Cardinality(IndicesFrom(block.transactions, a))
<1> DEFINE x == Cardinality(IndicesFrom(block.transactions, a))
           s == Counts(chain, a)
           u == Append(chain, block)
           v == Append(s, x)
           n == Len(chain)
<1>1. s \in Seq(Int) /\ Len(s) = n /\ n \in Nat
  BY CountsType
<1>2. u \in Seq(Block) /\ DOMAIN u = 1 .. n + 1 /\ Len(u) = n + 1 /\ u[n + 1] = block
      /\ (\A i \in 1 .. n : u[i] = chain[i])
  OBVIOUS
<1>3. x \in Int
  <2> DEFINE txs == block.transactions
  <2>1. txs \in Seq(Transaction)
    BY BlockTransactions
  <2> HIDE DEF txs
  <2>2. Cardinality(IndicesFrom(txs, a)) \in 0 .. Len(txs)
    BY <2>1, CountSum
  <2>3. Cardinality(IndicesFrom(txs, a)) \in Int
    BY <2>1, <2>2
  <2> QED BY <2>3 DEF txs
<1>4. v \in Seq(Int) /\ Len(v) = n + 1 /\ v[n + 1] = x /\ \A i \in 1 .. n : v[i] = s[i]
  <2> HIDE DEF s, x, n
  <2> QED BY <1>1, <1>3
<1>5. Counts(u, a) = v
  <2>1. Counts(u, a)[n + 1] = x
    BY <1>1, <1>2 DEF Counts
  <2>2. \A i \in 1 .. n : Counts(u, a)[i] = s[i]
    BY <1>2 DEF Counts
  <2>3. Counts(u, a) = [i \in 1 .. n + 1 |-> Counts(u, a)[i]]
    BY <1>2 DEF Counts
  <2> HIDE DEF u, s, x, n
  <2>4. \A i \in 1 .. n + 1 : Counts(u, a)[i] = v[i]
    BY <1>1, <1>4, <2>1, <2>2
  <2>5. v = [i \in 1 .. n + 1 |-> v[i]]
    <3> HIDE DEF v
    <3> QED BY <1>1, <1>4
  <2> HIDE DEF v
  <2> QED BY <2>3, <2>4, <2>5
<1>6. SumSeq(v) = SumSeq(s) + x
  <2> HIDE DEF s, x
  <2> QED BY <1>1, <1>3, SumSeqAppend
<1> QED BY <1>5, <1>6 DEF ConfirmedNonce, Counts

-----------------------------------------------------------------------------
(* Nonces that follow a chain one by one for each sender: the rule of      *)
(* isValidChain.                                                           *)
InOrder(chain, txs) ==
    \A k \in 1 .. Len(txs) :
        txs[k].nonce = ConfirmedNonce(chain, txs[k].from)
                         + Cardinality(Earlier(txs, txs[k].from, k - 1))

LEMMA EarlierAppend ==
    ASSUME NEW txs \in Seq(Transaction), NEW t \in Transaction, NEW a,
           NEW k \in 0 .. Len(txs)
    PROVE  Earlier(Append(txs, t), a, k) = Earlier(txs, a, k)
<1>1. \A h \in 1 .. k : Append(txs, t)[h] = txs[h]
  OBVIOUS
<1> QED BY <1>1 DEF Earlier

LEMMA InOrderAppend ==
    ASSUME NEW chain, NEW txs \in Seq(Transaction), NEW t \in Transaction,
           InOrder(chain, txs),
           t.nonce = ConfirmedNonce(chain, t.from) + Cardinality(IndicesFrom(txs, t.from))
    PROVE  InOrder(chain, Append(txs, t))
<1> DEFINE u == Append(txs, t)
           n == Len(txs)
<1>1. n \in Nat /\ Len(u) = n + 1 /\ u[n + 1] = t /\ \A k \in 1 .. n : u[k] = txs[k]
  OBVIOUS
<1>2. \A k \in 0 .. n : \A a : Earlier(u, a, k) = Earlier(txs, a, k)
  BY EarlierAppend
<1>3. IndicesFrom(txs, t.from) = Earlier(txs, t.from, n)
  BY CountSum
<1> HIDE DEF u, n
<1>4. ASSUME NEW k \in 1 .. Len(u)
      PROVE  u[k].nonce = ConfirmedNonce(chain, u[k].from)
                            + Cardinality(Earlier(u, u[k].from, k - 1))
  <2>1. CASE k = n + 1
    <3>1. n \in 0 .. n /\ k - 1 = n /\ u[k] = t
      BY <1>1, <2>1
    <3> QED BY <1>2, <1>3, <3>1
  <2>2. CASE k # n + 1
    <3>1. k \in 1 .. n /\ k - 1 \in 0 .. n
      BY <1>1, <2>2
    <3>2. u[k] = txs[k]
      BY <1>1, <3>1
    <3> QED BY <1>2, <3>1, <3>2 DEF InOrder, n
  <2> QED BY <2>1, <2>2
<1> QED BY <1>4 DEF InOrder, u

LEMMA Greatest ==
    ASSUME NEW n \in Nat, NEW S \in SUBSET (1 .. n), S # {}
    PROVE  \E j \in S : \A k \in S : k <= j
<1> DEFINE R == {n - j : j \in S}
<1>0. \A j \in S : j \in 1 .. n /\ n - j \in Nat
  OBVIOUS
<1>1. R \subseteq Nat /\ R # {}
  BY <1>0
<1>2. PICK r \in R : \A q \in R : r <= q
  <2> HIDE DEF R
  <2> QED BY <1>1, LeastNat
<1>3. PICK j \in S : r = n - j
  BY <1>2
<1>4. \A k \in S : n - j <= n - k
  BY <1>2, <1>3
<1>5. \A k \in S : k \in 1 .. n /\ j \in 1 .. n
  BY <1>3
<1>6. \A k \in S : k <= j
  BY <1>4, <1>5
<1> QED BY <1>3, <1>6

(* getTransactionsForNextBlock: the nonce it expects next counts what it   *)
(* has taken of a sender.                                                  *)
LEMMA ExpectedIsNext ==
    ASSUME NEW chain \in Seq(Block), NEW txs \in Seq(Transaction), InOrder(chain, txs), NEW a
    PROVE  ExpectedNonce(chain, txs, a)
             = ConfirmedNonce(chain, a) + Cardinality(IndicesFrom(txs, a))
<1> DEFINE mine == IndicesFrom(txs, a)
           n == Len(txs)
           c == ConfirmedNonce(chain, a)
<1>1. n \in Nat /\ c \in Nat /\ mine = Earlier(txs, a, n) /\ mine \in SUBSET (1 .. n)
      /\ \A j \in mine : txs[j].from = a
  <2>1. n \in Nat /\ DOMAIN txs = 1 .. n
    OBVIOUS
  <2>2. c \in Nat
    BY NonceType
  <2>3. mine = Earlier(txs, a, n)
    BY CountSum
  <2>4. mine \in SUBSET (1 .. n) /\ \A j \in mine : txs[j].from = a
    BY <2>1 DEF IndicesFrom
  <2> QED BY <2>1, <2>2, <2>3, <2>4
<1>2. CASE mine = {}
  <2>1. Cardinality(mine) = 0
    BY <1>2, FS_EmptySet
  <2> QED BY <1>1, <1>2, <2>1 DEF ExpectedNonce
<1>3. CASE mine # {}
  <2> DEFINE Last(j) == \A k \in mine : k <= j
             i == CHOOSE j \in mine : Last(j)
  <2>1. i \in mine /\ Last(i)
    <3> HIDE DEF mine, n
    <3>1. \E j \in mine : Last(j)
      BY <1>1, <1>3, Greatest
    <3> HIDE DEF Last
    <3> QED BY <3>1
  <2>2. ExpectedNonce(chain, txs, a) = txs[i].nonce + 1
    BY <1>3 DEF ExpectedNonce
  <2> HIDE DEF i, mine, n, c
  <2>3. i \in 1 .. n /\ txs[i].from = a
    BY <1>1, <2>1
  <2>4. Earlier(txs, a, n) = Earlier(txs, a, i)
    <3>1. \A k \in Earlier(txs, a, n) : k <= i /\ k \in 1 .. n
      BY <1>1, <2>1
    <3>2. \A k \in Earlier(txs, a, n) : k \in 1 .. i
      BY <2>3, <3>1
    <3>3. \A k \in 1 .. i : k \in 1 .. n
      BY <1>1, <2>3
    <3> QED BY <3>2, <3>3 DEF Earlier
  <2>5. i - 1 \in Nat /\ (i - 1) + 1 = i
    BY <2>3
  <2>6. Cardinality(Earlier(txs, a, i)) = Cardinality(Earlier(txs, a, i - 1)) + 1
    BY <2>3, <2>5, EarlierStep
  <2>7. txs[i].nonce = c + Cardinality(Earlier(txs, a, i - 1))
    BY <2>3 DEF InOrder, n, c
  <2>8. Cardinality(Earlier(txs, a, i - 1)) \in Nat
    BY <2>5, EarlierFinite
  <2>9. txs[i].nonce + 1 = c + Cardinality(mine)
    BY <1>1, <2>4, <2>6, <2>7, <2>8
  <2> QED BY <2>2, <2>9 DEF mine, c
<1> QED BY <1>2, <1>3

(* The sequences a block may be made of, in the order the chain wants. *)
Orders(led) ==
    {s \in Selections(led.pendingTransactions) : InOrder(led.chain, s)}

LEMMA SelectNextInOrder ==
    ASSUME NEW led \in LedgerState, NEW s \in Orders(led)
    PROVE  SelectedNext(led, s) \in Orders(led)
<1> DEFINE p == led.pendingTransactions
           E == Eligible(led, s)
           j == Best(led, E)
           x == p[j]
<1>1. s \in Selections(p) /\ InOrder(led.chain, s) /\ s \in Seq(Transaction)
  BY DEF Orders, Selections
<1>2. CASE E = {}
  BY <1>2 DEF SelectedNext
<1>3. CASE E # {}
  <2>1. SelectedNext(led, s) = Append(s, x) /\ Append(s, x) \in Selections(p)
    BY <1>1, <1>3, SelectOneMore DEF SelectedNext
  <2>2. E \subseteq DOMAIN p
        /\ \A i \in E : p[i].nonce = ExpectedNonce(led.chain, s, p[i].from)
    BY DEF Eligible
  <2>3. j \in E
    <3> HIDE DEF E
    <3> QED BY <1>3, <2>2, BestIsEligible
  <2>4. p \in Seq(Transaction) /\ led.chain \in Seq(Block)
    BY LedgerFields
  <2>5. x \in Transaction /\ x.nonce = ExpectedNonce(led.chain, s, x.from)
    <3>1. j \in DOMAIN p /\ x.nonce = ExpectedNonce(led.chain, s, x.from)
      <4> HIDE DEF E, j, p
      <4> QED BY <2>2, <2>3
    <3> HIDE DEF p, j
    <3> QED BY <2>4, <3>1
  <2> HIDE DEF x
  <2>6. x.nonce = ConfirmedNonce(led.chain, x.from) + Cardinality(IndicesFrom(s, x.from))
    <3> DEFINE c == led.chain
    <3> HIDE DEF c
    <3>1. c \in Seq(Block) /\ InOrder(c, s)
      BY <1>1, <2>4 DEF c
    <3>2. ExpectedNonce(c, s, x.from) = ConfirmedNonce(c, x.from) + Cardinality(IndicesFrom(s, x.from))
      BY <1>1, <3>1, ExpectedIsNext
    <3> QED BY <2>5, <3>2 DEF c
  <2>7. InOrder(led.chain, Append(s, x))
    BY <1>1, <2>5, <2>6, InOrderAppend
  <2> QED BY <2>1, <2>7 DEF Orders
<1> QED BY <1>2, <1>3

(* getTransactionsForNextBlock: no more than fit, in the order that every  *)
(* peer demands, though each round takes whoever pays most.                *)
LEMMA ExecutionOrderInOrder ==
    ASSUME NEW led \in LedgerState, NEW n \in Nat
    PROVE  /\ ExecutionOrder(led, n) \in Orders(led)
           /\ Len(ExecutionOrder(led, n)) <= n
<1> DEFINE Z == Orders(led)
<1>1. <<>> \in Z
  BY DEF Orders, Selections, Distinct, InOrder
<1>2. \A s \in Z : SelectedNext(led, s) \in Z
  BY SelectNextInOrder
<1>3. \A s \in Z : s \in Seq(Transaction)
  BY DEF Orders, Selections
<1> HIDE DEF Z
<1>4. PICK f : SelectsBy(f, led, n, Z) /\ ExecutionOrder(led, n) = f[n]
  BY <1>1, <1>2, ExecutionOrderRounds
<1> DEFINE S == {i \in 0 .. n : Len(f[i]) <= i}
<1>5. 0 \in S
  BY <1>4 DEF SelectsBy
<1>6. ASSUME NEW i \in 1 .. n, i - 1 \in S PROVE i \in S
  <2> DEFINE s == f[i - 1]
  <2>1. i - 1 \in 0 .. n /\ s \in Z /\ f[i] = SelectedNext(led, s) /\ f[i] \in Z
    BY <1>4 DEF SelectsBy
  <2>2. s \in Seq(Transaction) /\ f[i] \in Seq(Transaction) /\ Len(s) <= i - 1
    BY <1>3, <1>6, <2>1
  <2> HIDE DEF s
  <2>3. Len(f[i]) <= Len(s) + 1
    <3>1. CASE Eligible(led, s) = {}
      <4>1. f[i] = s
        BY <2>1, <3>1 DEF SelectedNext
      <4> QED BY <2>2, <4>1
    <3>2. CASE Eligible(led, s) # {}
      <4>1. \A x : Len(Append(s, x)) = Len(s) + 1
        BY <2>2
      <4> QED BY <2>1, <2>2, <3>2, <4>1 DEF SelectedNext
    <3> QED BY <3>1, <3>2
  <2>4. Len(f[i]) \in Nat /\ Len(s) \in Nat
    BY <2>2
  <2> QED BY <2>2, <2>3, <2>4
<1>7. \A i \in 0 .. n : i \in S
  <2> HIDE DEF S
  <2> QED BY <1>5, <1>6, IntervalInduction
<1>8. n \in S
  <2> HIDE DEF S
  <2> QED BY <1>7
<1> QED BY <1>4, <1>8 DEF SelectsBy, Z

(* How far the loop is run changes nothing of the rounds before.           *)
LEMMA ExecutionOrderNext ==
    ASSUME NEW led \in LedgerState, NEW n \in Nat
    PROVE  /\ ExecutionOrder(led, 0) = <<>>
           /\ ExecutionOrder(led, n + 1) = SelectedNext(led, ExecutionOrder(led, n))
<1> DEFINE Z == Orders(led)
<1>1. <<>> \in Z /\ \A s \in Z : SelectedNext(led, s) \in Z
  BY SelectNextInOrder DEF Orders, Selections, Distinct, InOrder
<1> HIDE DEF Z
<1>2. PICK f : SelectsBy(f, led, n, Z) /\ ExecutionOrder(led, n) = f[n]
  BY <1>1, ExecutionOrderRounds
<1>3. PICK h : SelectsBy(h, led, n + 1, Z) /\ ExecutionOrder(led, n + 1) = h[n + 1]
  BY <1>1, ExecutionOrderRounds
<1>4. PICK e : SelectsBy(e, led, 0, Z) /\ ExecutionOrder(led, 0) = e[0]
  BY <1>1, ExecutionOrderRounds
<1> DEFINE S == {i \in 0 .. n : f[i] = h[i]}
<1>5. 0 \in S
  BY <1>2, <1>3 DEF SelectsBy
<1>6. ASSUME NEW i \in 1 .. n, i - 1 \in S PROVE i \in S
  <2>1. f[i - 1] = h[i - 1] /\ i \in 1 .. n + 1 /\ i \in 0 .. n
    BY <1>6
  <2>2. f[i] = SelectedNext(led, f[i - 1]) /\ h[i] = SelectedNext(led, h[i - 1])
    BY <1>2, <1>3, <2>1 DEF SelectsBy
  <2> QED BY <2>1, <2>2
<1>7. \A i \in 0 .. n : i \in S
  <2> HIDE DEF S
  <2> QED BY <1>5, <1>6, IntervalInduction
<1>8. n \in 0 .. n /\ n + 1 \in 1 .. n + 1 /\ (n + 1) - 1 = n
  OBVIOUS
<1>9. h[n + 1] = SelectedNext(led, h[n])
  BY <1>3, <1>8 DEF SelectsBy
<1>10. f[n] = h[n]
  BY <1>7, <1>8
<1>11. e[0] = <<>>
  BY <1>4 DEF SelectsBy
<1> QED BY <1>2, <1>3, <1>4, <1>9, <1>10, <1>11

(* No selection is longer than what it is taken from. *)
LEMMA SelectionBounded ==
    ASSUME NEW p, Len(p) \in Nat, NEW s \in Selections(p)
    PROVE  Len(s) <= Len(p)
<1> DEFINE m == Len(s)
           n == Len(p)
           At(k) == CHOOSE j \in 1 .. n : s[k] = p[j]
           h == [k \in 1 .. m |-> At(k)]
<1>1. /\ m \in Nat
      /\ \A i, j \in 1 .. m : s[i] = s[j] => i = j
      /\ \A k \in 1 .. m : \E j \in 1 .. n : s[k] = p[j]
  BY DEF Selections, Distinct
<1> HIDE DEF m, n
<1>2. ASSUME NEW k \in 1 .. m PROVE At(k) \in 1 .. n /\ s[k] = p[At(k)]
  BY <1>1
<1> HIDE DEF At
<1>3. h \in [1 .. m -> 1 .. n]
  BY <1>2
<1>4. \A i, j \in 1 .. m : h[i] = h[j] => i = j
  <2>1. SUFFICES ASSUME NEW i \in 1 .. m, NEW j \in 1 .. m, h[i] = h[j] PROVE i = j
    OBVIOUS
  <2>2. s[i] = s[j]
    BY <1>2, <2>1
  <2> QED BY <1>1, <2>2
<1> HIDE DEF h
<1>5. h \in Injection(1 .. m, 1 .. n)
  BY <1>3, <1>4 DEF Injection, IsInjective
<1>6. n \in Nat
  BY DEF n
<1>7. IsFiniteSet(1 .. n) /\ Cardinality(1 .. n) = n /\ Cardinality(1 .. m) = m
  <2>1. Cardinality(1 .. m) = m
    BY <1>1, FS_Interval
  <2>2. Cardinality(1 .. n) = n
    BY <1>6, FS_Interval
  <2>3. IsFiniteSet(1 .. n)
    <3>1. 1 \in Int /\ n \in Int
      BY <1>6
    <3> QED BY <3>1, FS_Interval
  <2> QED BY <2>1, <2>2, <2>3
<1>8. Cardinality(1 .. m) <= Cardinality(1 .. n)
  BY <1>5, <1>7, FS_Injection
<1> QED BY <1>7, <1>8 DEF m, n

(* The loop stops by itself before it has gone through the mempool: as     *)
(* many rounds as there are pending transactions are enough.               *)
LEMMA SelectionEnds ==
    ASSUME NEW led \in LedgerState, NEW n \in Nat, n >= Len(led.pendingTransactions)
    PROVE  ExecutionOrder(led, n) = ExecutionOrder(led, Len(led.pendingTransactions))
<1> DEFINE p == led.pendingTransactions
           m == Len(p)
           e(k) == ExecutionOrder(led, k)
           Full(k) == Len(e(k)) = k \/ Eligible(led, e(k)) = {}
<1>1. m \in Nat
  BY LedgerFields
<1>2. \A k \in Nat : e(k) \in Selections(p) /\ e(k) \in Seq(Transaction)
  BY ExecutionOrderSelects DEF Selections
<1>3. \A k \in Nat : e(k + 1) = SelectedNext(led, e(k))
  BY ExecutionOrderNext
<1>4. e(0) = <<>>
  BY ExecutionOrderNext
<1> HIDE DEF e, m
<1>5. ASSUME NEW k \in Nat, Full(k) PROVE Full(k + 1)
  <2>1. CASE Eligible(led, e(k)) = {}
    <3>1. e(k + 1) = e(k)
      BY <1>3, <2>1 DEF SelectedNext
    <3> QED BY <2>1, <3>1
  <2>2. CASE Eligible(led, e(k)) # {}
    <3>1. e(k + 1) = Append(e(k), p[Best(led, Eligible(led, e(k)))])
      BY <1>3, <2>2 DEF SelectedNext
    <3>2. Len(e(k)) = k
      BY <1>5, <2>2
    <3>3. Len(e(k + 1)) = k + 1
      BY <1>2, <3>1, <3>2
    <3> QED BY <3>3
  <2> QED BY <2>1, <2>2
<1> DEFINE S == {k \in Nat : Full(k)}
<1>6. \A k \in Nat : Full(k)
  <2>1. 0 \in S
    BY <1>4
  <2>2. \A k \in Nat : k \in S => k + 1 \in S
    BY <1>5
  <2> HIDE DEF Full
  <2>3. S \subseteq Nat
    OBVIOUS
  <2> HIDE DEF S
  <2>4. S = Nat
    BY <2>1, <2>2, <2>3, SetInduction
  <2> QED BY <2>4 DEF S
<1>7. ASSUME NEW k \in Nat, k >= m PROVE Eligible(led, e(k)) = {}
  <2> SUFFICES ASSUME Eligible(led, e(k)) # {} PROVE FALSE
    OBVIOUS
  <2>1. Len(e(k)) = k
    BY <1>6
  <2> DEFINE u == Append(e(k), p[Best(led, Eligible(led, e(k)))])
  <2>2. u \in Selections(p)
    BY <1>2, SelectOneMore
  <2>3. Len(u) = k + 1
    <3>1. e(k) \in Seq(Transaction)
      BY <1>2
    <3>2. \A x : Len(Append(e(k), x)) = Len(e(k)) + 1
      BY <3>1
    <3> QED BY <2>1, <3>2
  <2> HIDE DEF u, p
  <2>4. Len(u) <= m
    BY <1>1, <2>2, SelectionBounded DEF m
  <2> QED BY <1>1, <1>7, <2>3, <2>4
<1> DEFINE U == {i \in 0 .. n - m : e(m + i) = e(m)}
<1>8. n - m \in Nat /\ m + (n - m) = n
  BY <1>1 DEF m
<1>9. 0 \in U
  BY <1>1, <1>8
<1>10. ASSUME NEW i \in 1 .. n - m, i - 1 \in U PROVE i \in U
  <2>1. m + (i - 1) \in Nat /\ m + (i - 1) >= m /\ (m + (i - 1)) + 1 = m + i
    BY <1>1, <1>8
  <2>2. e(m + i) = e(m + (i - 1))
    BY <1>3, <1>7, <2>1 DEF SelectedNext
  <2> QED BY <1>8, <1>10, <2>2
<1>11. \A i \in 0 .. n - m : i \in U
  <2> HIDE DEF U
  <2> QED BY <1>8, <1>9, <1>10, IntervalInduction
<1>12. e(m + (n - m)) = e(m)
  BY <1>8, <1>11
<1> QED BY <1>8, <1>12 DEF e, m

LEMMA Beginnings ==
    ASSUME NEW T, NEW s \in Seq(T), NEW i \in 0 .. Len(s)
    PROVE  /\ SubSeq(s, 1, i) \in Seq(T)
           /\ Len(SubSeq(s, 1, i)) = i
           /\ \A j \in 1 .. i : SubSeq(s, 1, i)[j] = s[j]
OBVIOUS

LEMMA PrefixAppend ==
    ASSUME NEW T, NEW s \in Seq(T), NEW i \in 1 .. Len(s)
    PROVE  SubSeq(s, 1, i) = Append(SubSeq(s, 1, i - 1), s[i])
<1>1. i - 1 \in 0 .. Len(s) /\ i \in 0 .. Len(s)
  OBVIOUS
<1> DEFINE u == SubSeq(s, 1, i)
           v == SubSeq(s, 1, i - 1)
<1>2. u \in Seq(T) /\ Len(u) = i /\ \A j \in 1 .. i : u[j] = s[j]
  BY <1>1, Beginnings
<1>3. v \in Seq(T) /\ Len(v) = i - 1 /\ \A j \in 1 .. i - 1 : v[j] = s[j]
  BY <1>1, Beginnings
<1>4. s[i] \in T
  OBVIOUS
<1> HIDE DEF u, v
<1> DEFINE w == Append(v, s[i])
<1>5. w \in Seq(T) /\ Len(w) = i /\ w[i] = s[i] /\ \A j \in 1 .. i - 1 : w[j] = v[j]
  BY <1>3, <1>4
<1>6. \A j \in 1 .. i : u[j] = w[j]
  BY <1>2, <1>3, <1>5
<1> HIDE DEF w
<1>7. u = w
  BY <1>2, <1>5, <1>6
<1> QED BY <1>7 DEF u, v, w

LEMMA PrefixWhole ==
    ASSUME NEW T, NEW s \in Seq(T)
    PROVE  SubSeq(s, 1, Len(s)) = s
OBVIOUS

LEMMA PrefixOfAppend ==
    ASSUME NEW T, NEW s \in Seq(T), NEW x \in T, NEW i \in 0 .. Len(s)
    PROVE  SubSeq(Append(s, x), 1, i) = SubSeq(s, 1, i)
OBVIOUS

LEMMA PrefixOfPrefix ==
    ASSUME NEW T, NEW s \in Seq(T), NEW i \in 0 .. Len(s), NEW j \in 0 .. i
    PROVE  SubSeq(SubSeq(s, 1, i), 1, j) = SubSeq(s, 1, j)
OBVIOUS

(* What a filter that drops the last element only leaves. *)
LEMMA SubsequenceFront ==
    ASSUME NEW T, NEW s \in Seq(T), NEW x \in T, NEW keep,
           x \notin keep, \A i \in 1 .. Len(s) : s[i] \in keep
    PROVE  Subsequence(Append(s, x), keep) = s
<1> DEFINE u == Append(s, x)
           n == Len(s)
<1>1. u \in Seq(T) /\ Len(u) = n + 1 /\ n \in Nat /\ u[n + 1] = x
      /\ \A i \in 1 .. n : u[i] = s[i]
  OBVIOUS
<1>2. PICK f : Filters(f, T, u, keep) /\ Subsequence(u, keep) = f[Len(u)]
  BY <1>1, SubsequenceDef
<1>3. f[0] = <<>> /\ \A i \in 1 .. n + 1 :
                        /\ u[i] \in keep => f[i] = Append(f[i - 1], u[i])
                        /\ u[i] \notin keep => f[i] = f[i - 1]
  BY <1>1, <1>2 DEF Filters
<1> DEFINE S == {i \in 0 .. n : f[i] = SubSeq(s, 1, i)}
<1>4. 0 \in S
  <2>1. SubSeq(s, 1, 0) = <<>>
    OBVIOUS
  <2>2. f[0] = SubSeq(s, 1, 0)
    BY <1>3, <2>1
  <2> QED BY <1>1, <2>2
<1>5. ASSUME NEW i \in 1 .. n, i - 1 \in S PROVE i \in S
  <2>1. i \in 1 .. n + 1 /\ u[i] = s[i] /\ u[i] \in keep
    BY <1>1
  <2>2. f[i] = Append(SubSeq(s, 1, i - 1), s[i])
    BY <1>3, <1>5, <2>1
  <2>3. SubSeq(s, 1, i) = Append(SubSeq(s, 1, i - 1), s[i])
    BY PrefixAppend
  <2>4. f[i] = SubSeq(s, 1, i)
    BY <2>2, <2>3
  <2>5. i \in 0 .. n
    BY <1>1
  <2> QED BY <2>4, <2>5
<1>6. n \in S
  <2>1. \A i \in 0 .. n : i \in S
    <3> HIDE DEF S, n
    <3> QED BY <1>1, <1>4, <1>5, IntervalInduction
  <2> HIDE DEF S
  <2> QED BY <1>1, <2>1
<1>7. f[n] = s
  BY <1>6, PrefixWhole
<1>8. f[n + 1] = f[n]
  <2>1. n + 1 \in 1 .. n + 1 /\ (n + 1) - 1 = n /\ u[n + 1] \notin keep
    BY <1>1
  <2> HIDE DEF n, u
  <2> QED BY <1>3, <2>1
<1> QED BY <1>1, <1>2, <1>7, <1>8

-----------------------------------------------------------------------------
(* Chains that nodes make. *)

(* The difficulty a chain gives its next block (adjustDifficulty). *)
Given(chain) ==
    IF AtAdjustment(chain) THEN AdjustDifficulty(chain, LastBlock(chain).difficulty)
    ELSE LastBlock(chain).difficulty

(* What minePendingTransactions puts on a chain.  Nobody asks who gets the *)
(* reward: the miner of POST /mine may be any string.                      *)
MadeOf(chain, block, sel, reward) ==
    /\ sel \in Seq(Signed)
    /\ reward \in Transaction
    /\ block.transactions = Append(sel, reward)
    /\ Len(sel) <= MaxTransactionsPerBlock
    /\ InOrder(chain, sel)
    /\ \A k \in 1 .. Len(sel) : IsValidTransaction(sel[k])
    /\ reward.type = "reward" /\ reward.from = Coinbase /\ reward.fee = 0
    /\ reward.nonce = Len(chain) /\ reward.timestamp > 0
    /\ reward.amount = MiningReward(Len(chain)) + Fees(sel)

Follows(chain, block) ==
    /\ block \in Block
    /\ block.difficulty = Given(chain)
    /\ \E sel, reward : MadeOf(chain, block, sel, reward)

ProperChain(chain) ==
    /\ chain \in Seq(Block)
    /\ chain # <<>>
    /\ chain[1] = Genesis
    /\ \A i \in 2 .. Len(chain) : Follows(SubSeq(chain, 1, i - 1), chain[i])

LEMMA FreshChainIsProper == ProperChain(<<Genesis>>)
BY GenesisBlock DEF ProperChain

LEMMA ProperAppend ==
    ASSUME NEW chain, ProperChain(chain), NEW block, Follows(chain, block)
    PROVE  ProperChain(Append(chain, block))
<1> DEFINE n == Len(chain)
           u == Append(chain, block)
<1>1. chain \in Seq(Block) /\ block \in Block /\ n \in Nat /\ n > 0 /\ chain[1] = Genesis
  BY DEF ProperChain, Follows
<1>2. u \in Seq(Block) /\ Len(u) = n + 1 /\ u[n + 1] = block /\ \A i \in 1 .. n : u[i] = chain[i]
  BY <1>1
<1>3. \A i \in 0 .. n : SubSeq(u, 1, i) = SubSeq(chain, 1, i)
  BY <1>1, PrefixOfAppend
<1>4. SubSeq(chain, 1, n) = chain
  BY <1>1, PrefixWhole
<1> HIDE DEF u
<1>5. ASSUME NEW i \in 2 .. n + 1 PROVE Follows(SubSeq(u, 1, i - 1), u[i])
  <2>1. CASE i = n + 1
    <3>1. n \in 0 .. n /\ i - 1 = n
      BY <1>1, <2>1
    <3>2. SubSeq(u, 1, i - 1) = chain /\ u[i] = block
      BY <1>2, <1>3, <1>4, <2>1, <3>1
    <3> QED BY <3>2
  <2>2. CASE i # n + 1
    <3>1. i \in 2 .. n /\ i \in 1 .. n /\ i - 1 \in 0 .. n
      BY <1>1, <2>2
    <3> QED BY <1>2, <1>3, <3>1 DEF ProperChain
  <2> QED BY <2>1, <2>2
<1>6. u # <<>> /\ u[1] = Genesis
  BY <1>1, <1>2
<1> QED BY <1>2, <1>5, <1>6 DEF ProperChain, u

LEMMA ProperPrefix ==
    ASSUME NEW chain, ProperChain(chain), NEW i \in 1 .. Len(chain)
    PROVE  ProperChain(SubSeq(chain, 1, i))
<1> DEFINE u == SubSeq(chain, 1, i)
<1>1. chain \in Seq(Block) /\ i \in 0 .. Len(chain) /\ Len(chain) \in Nat
  BY DEF ProperChain
<1>2. u \in Seq(Block) /\ Len(u) = i /\ \A j \in 1 .. i : u[j] = chain[j]
  BY <1>1, Beginnings
<1>3. \A j \in 0 .. i : SubSeq(u, 1, j) = SubSeq(chain, 1, j)
  BY <1>1, PrefixOfPrefix
<1> HIDE DEF u
<1>4. ASSUME NEW j \in 2 .. i PROVE Follows(SubSeq(u, 1, j - 1), u[j])
  <2>1. j \in 2 .. Len(chain) /\ j \in 1 .. i /\ j - 1 \in 0 .. i
    BY <1>1
  <2> QED BY <1>2, <1>3, <2>1 DEF ProperChain
<1>5. u # <<>> /\ u[1] = Genesis
  BY <1>2 DEF ProperChain
<1> QED BY <1>2, <1>4, <1>5 DEF ProperChain, u

-----------------------------------------------------------------------------
(* Each step of the difficulty. *)
LEMMA GivenSteps ==
    ASSUME NEW chain \in Seq(Block), chain # <<>>,
           LastBlock(chain).difficulty >= MinDifficulty
    PROVE  /\ Given(chain) \in Nat
           /\ Given(chain) >= MinDifficulty
           /\ Given(chain) - LastBlock(chain).difficulty \in {-1, 0, 1}
<1> DEFINE d == LastBlock(chain).difficulty
<1>1. d \in Nat /\ MinDifficulty \in Nat /\ d >= MinDifficulty
  <2>1. LastBlock(chain) \in Block
    BY DEF LastBlock
  <2> QED BY <2>1, LedgerAssumption, BlockTransactions
<1> HIDE DEF d
<1>2. AdjustDifficulty(chain, d) \in {d - 1, d, d + 1} /\ AdjustDifficulty(chain, d) >= MinDifficulty
  <2> DEFINE actual == LastBlock(chain).timestamp
                         - chain[Len(chain) - AdjustmentInterval + 1].timestamp
             expected == BlockTime * AdjustmentInterval
             adjusted == IF 2 * actual < expected THEN d + 1
                         ELSE IF actual > 2 * expected THEN d - 1
                         ELSE d
  <2>1. AdjustDifficulty(chain, d) = IF adjusted < MinDifficulty THEN MinDifficulty ELSE adjusted
    BY DEF AdjustDifficulty
  <2>2. adjusted = d + 1 \/ adjusted = d - 1 \/ adjusted = d
    OBVIOUS
  <2> HIDE DEF adjusted
  <2> QED BY <1>1, <2>1, <2>2
<1>3. Given(chain) = AdjustDifficulty(chain, d) \/ Given(chain) = d
  BY DEF Given, d
<1>4. Given(chain) \in {d - 1, d, d + 1} /\ Given(chain) >= MinDifficulty
  BY <1>1, <1>2, <1>3
<1>5. Given(chain) \in Nat /\ Given(chain) - d \in {-1, 0, 1}
  BY <1>1, <1>4
<1> QED BY <1>4, <1>5 DEF d

LEMMA ProperDifficulty ==
    ASSUME NEW chain, ProperChain(chain), NEW k \in 1 .. Len(chain)
    PROVE  chain[k].difficulty >= MinDifficulty
<1> DEFINE n == Len(chain)
           S == {i \in 0 .. n : i = 0 \/ chain[i].difficulty >= MinDifficulty}
<1>1. chain \in Seq(Block) /\ n \in Nat /\ chain[1] = Genesis
  BY DEF ProperChain
<1>2. 0 \in S
  BY <1>1
<1>3. ASSUME NEW i \in 1 .. n, i - 1 \in S PROVE i \in S
  <2>1. CASE i = 1
    <3>1. chain[1].difficulty >= MinDifficulty
      BY <1>1, LedgerAssumption DEF Genesis
    <3> QED BY <2>1, <3>1
  <2>2. CASE i # 1
    <3> DEFINE u == SubSeq(chain, 1, i - 1)
    <3>1. i - 1 \in 0 .. Len(chain) /\ i \in 2 .. n /\ i - 1 \in 1 .. i - 1
      BY <1>1, <2>2
    <3>2. u \in Seq(Block) /\ Len(u) = i - 1 /\ u[i - 1] = chain[i - 1]
      BY <1>1, <3>1, Beginnings
    <3> HIDE DEF u
    <3>3. u # <<>> /\ LastBlock(u) = chain[i - 1]
      BY <3>1, <3>2 DEF LastBlock
    <3>4. LastBlock(u).difficulty >= MinDifficulty
      BY <1>3, <2>2, <3>3
    <3>5. Given(u) >= MinDifficulty
      BY <3>2, <3>3, <3>4, GivenSteps
    <3>6. chain[i].difficulty = Given(u)
      BY <3>1 DEF ProperChain, Follows, u
    <3> QED BY <3>5, <3>6
  <2> QED BY <2>1, <2>2
<1>4. \A i \in 0 .. n : i \in S
  <2> HIDE DEF S, n
  <2> QED BY <1>1, <1>2, <1>3, IntervalInduction
<1>5. k \in 0 .. n /\ k # 0
  OBVIOUS
<1> QED BY <1>4, <1>5

-----------------------------------------------------------------------------
(* Nonces rise. *)
LEMMA InOrderRises ==
    ASSUME NEW chain \in Seq(Block), NEW txs \in Seq(Transaction), InOrder(chain, txs),
           NEW i \in 1 .. Len(txs), NEW j \in 1 .. Len(txs), i < j, txs[i].from = txs[j].from
    PROVE  txs[i].nonce < txs[j].nonce
<1> DEFINE a == txs[i].from
           c == ConfirmedNonce(chain, a)
<1>1. i \in Nat /\ i - 1 \in Nat /\ (i - 1) + 1 = i /\ j - 1 \in Nat /\ i <= j - 1
  OBVIOUS
<1>2. Cardinality(Earlier(txs, a, i)) = Cardinality(Earlier(txs, a, i - 1)) + 1
  BY <1>1, EarlierStep
<1>3. Cardinality(Earlier(txs, a, i)) <= Cardinality(Earlier(txs, a, j - 1))
  BY <1>1, EarlierMonotone
<1>4. /\ Cardinality(Earlier(txs, a, i - 1)) \in Nat
      /\ Cardinality(Earlier(txs, a, i)) \in Nat
      /\ Cardinality(Earlier(txs, a, j - 1)) \in Nat
  BY <1>1, EarlierFinite
<1>5. c \in Nat
  BY NonceType
<1>6. /\ txs[i].nonce = c + Cardinality(Earlier(txs, a, i - 1))
      /\ txs[j].nonce = c + Cardinality(Earlier(txs, a, j - 1))
  BY DEF InOrder
<1> HIDE DEF c
<1> QED BY <1>2, <1>3, <1>4, <1>5, <1>6

(* Each nonce of a sequence in order is between what the chain has         *)
(* confirmed and what it will have.                                        *)
LEMMA InOrderRange ==
    ASSUME NEW chain \in Seq(Block), NEW txs \in Seq(Transaction), InOrder(chain, txs),
           NEW k \in 1 .. Len(txs)
    PROVE  LET a == txs[k].from
           IN  /\ ConfirmedNonce(chain, a) <= txs[k].nonce
               /\ txs[k].nonce < ConfirmedNonce(chain, a) + Cardinality(IndicesFrom(txs, a))
<1> DEFINE a == txs[k].from
           c == ConfirmedNonce(chain, a)
           n == Len(txs)
<1>1. n \in Nat /\ k \in Nat /\ k - 1 \in Nat /\ (k - 1) + 1 = k /\ k <= n
  OBVIOUS
<1>2. Cardinality(Earlier(txs, a, k)) = Cardinality(Earlier(txs, a, k - 1)) + 1
  BY <1>1, EarlierStep
<1>3. Cardinality(Earlier(txs, a, k)) <= Cardinality(Earlier(txs, a, n))
  BY <1>1, EarlierMonotone
<1>4. /\ Cardinality(Earlier(txs, a, k - 1)) \in Nat
      /\ Cardinality(Earlier(txs, a, k)) \in Nat
      /\ Cardinality(Earlier(txs, a, n)) \in Nat
  BY <1>1, EarlierFinite
<1>5. c \in Nat
  BY NonceType
<1>6. txs[k].nonce = c + Cardinality(Earlier(txs, a, k - 1))
  BY DEF InOrder
<1>7. IndicesFrom(txs, a) = Earlier(txs, a, n)
  BY CountSum
<1> HIDE DEF c, a, n
<1>8. c <= txs[k].nonce /\ txs[k].nonce < c + Cardinality(IndicesFrom(txs, a))
  BY <1>2, <1>3, <1>4, <1>5, <1>6, <1>7
<1> QED BY <1>8 DEF c, a

(* Every nonce in a chain is used up: below the confirmed nonce of its     *)
(* sender, or, of a reward, below the height.                              *)
UsedUp(chain, t) ==
    /\ t.from \in Address => t.nonce < ConfirmedNonce(chain, t.from)
    /\ t.from = Coinbase => t.nonce < Len(chain)

AllUsedUp(chain) ==
    \A i \in 1 .. Len(chain) : \A j \in 1 .. Len(chain[i].transactions) :
        UsedUp(chain, chain[i].transactions[j])

LEMMA CountSigned ==
    ASSUME NEW sel \in Seq(Signed), NEW reward \in Transaction, reward.from = Coinbase,
           NEW a \in Address
    PROVE  Cardinality(IndicesFrom(Append(sel, reward), a)) = Cardinality(IndicesFrom(sel, a))
<1>1. sel \in Seq(Transaction) /\ reward.from # a
  BY SignedSeq, LedgerAssumption
<1>2. Cardinality(IndicesFrom(sel, a)) \in 0 .. Len(sel)
  BY <1>1, CountSum
<1>3. Cardinality(IndicesFrom(Append(sel, reward), a)) = Cardinality(IndicesFrom(sel, a)) + 0
  BY <1>1, CountAppend
<1> QED BY <1>1, <1>2, <1>3

LEMMA FollowsUsesUp ==
    ASSUME NEW chain \in Seq(Block), AllUsedUp(chain), NEW block, Follows(chain, block)
    PROVE  AllUsedUp(Append(chain, block))
<1> DEFINE n == Len(chain)
           u == Append(chain, block)
<1>1. PICK sel, reward : MadeOf(chain, block, sel, reward)
  BY DEF Follows
<1>2. /\ block \in Block /\ sel \in Seq(Signed) /\ sel \in Seq(Transaction)
      /\ reward \in Transaction /\ reward.from = Coinbase /\ reward.nonce = n
      /\ block.transactions = Append(sel, reward) /\ InOrder(chain, sel)
  BY <1>1, SignedSeq DEF Follows, MadeOf
<1>3. /\ n \in Nat /\ Len(u) = n + 1 /\ u[n + 1] = block
      /\ \A i \in 1 .. n : u[i] = chain[i]
  BY <1>2
<1>4. \A a \in Address : /\ ConfirmedNonce(u, a)
                              = ConfirmedNonce(chain, a) + Cardinality(IndicesFrom(sel, a))
                         /\ ConfirmedNonce(chain, a) \in Nat
                         /\ Cardinality(IndicesFrom(sel, a)) \in Nat
  <2> TAKE a \in Address
  <2>1. ConfirmedNonce(u, a)
          = ConfirmedNonce(chain, a) + Cardinality(IndicesFrom(block.transactions, a))
    BY <1>2, NonceAppend
  <2>2. Cardinality(IndicesFrom(block.transactions, a)) = Cardinality(IndicesFrom(sel, a))
    BY <1>2, CountSigned
  <2>3. Cardinality(IndicesFrom(sel, a)) \in 0 .. Len(sel)
    BY <1>2, CountSum
  <2>4. ConfirmedNonce(chain, a) \in Nat
    BY NonceType
  <2>5. Cardinality(IndicesFrom(sel, a)) \in Nat
    BY <1>2, <2>3
  <2> QED BY <2>1, <2>2, <2>4, <2>5
<1> HIDE DEF u, n
<1>5. ASSUME NEW t \in Transaction, UsedUp(chain, t) PROVE UsedUp(u, t)
  <2>1. t.nonce \in Nat
    BY TransactionFields
  <2>2. ASSUME t.from \in Address PROVE t.nonce < ConfirmedNonce(u, t.from)
    <3>1. t.nonce < ConfirmedNonce(chain, t.from)
      BY <1>5, <2>2 DEF UsedUp
    <3> QED BY <1>4, <2>1, <2>2, <3>1
  <2>3. ASSUME t.from = Coinbase PROVE t.nonce < Len(u)
    <3>1. t.nonce < n
      BY <1>5, <2>3 DEF UsedUp, n
    <3> QED BY <1>3, <2>1, <3>1
  <2> QED BY <2>2, <2>3 DEF UsedUp
<1>6. ASSUME NEW i \in 1 .. n, NEW j \in 1 .. Len(u[i].transactions)
      PROVE  UsedUp(u, u[i].transactions[j])
  <2> DEFINE txs == chain[i].transactions
  <2>1. u[i].transactions = txs /\ txs \in Seq(Transaction)
    <3>1. chain[i] \in Block
      BY DEF n
    <3> QED BY <1>3, <3>1, BlockTransactions
  <2>2. UsedUp(chain, txs[j])
    BY <1>6, <2>1 DEF AllUsedUp, n
  <2> HIDE DEF txs
  <2>3. txs[j] \in Transaction
    BY <2>1
  <2> QED BY <1>5, <2>1, <2>2, <2>3
<1>7. ASSUME NEW j \in 1 .. Len(block.transactions) PROVE UsedUp(u, block.transactions[j])
  <2>1. CASE j = Len(sel) + 1
    <3>1. block.transactions[j] = reward
      BY <1>2, <2>1
    <3>2. UsedUp(u, reward)
      BY <1>2, <1>3, LedgerAssumption DEF UsedUp
    <3> QED BY <3>1, <3>2
  <2>2. CASE j # Len(sel) + 1
    <3>1. j \in 1 .. Len(sel) /\ block.transactions[j] = sel[j]
      BY <1>2, <2>2
    <3>2. sel[j] \in Signed /\ sel[j] \in Transaction
      BY <1>2, <3>1, SignedSeq
    <3> DEFINE a == sel[j].from
    <3>3. sel[j].nonce < ConfirmedNonce(chain, a) + Cardinality(IndicesFrom(sel, a))
      BY <1>2, <3>1, InOrderRange
    <3>4. a \in Address /\ a # Coinbase
      BY <3>2, LedgerAssumption DEF Signed
    <3> HIDE DEF a
    <3>5. sel[j].nonce < ConfirmedNonce(u, a)
      BY <1>4, <3>3, <3>4
    <3>6. UsedUp(u, sel[j])
      BY <3>4, <3>5 DEF UsedUp, a
    <3> QED BY <3>1, <3>6
  <2> QED BY <2>1, <2>2
<1>8. ASSUME NEW i \in 1 .. Len(u), NEW j \in 1 .. Len(u[i].transactions)
      PROVE  UsedUp(u, u[i].transactions[j])
  <2>1. CASE i = n + 1
    BY <1>3, <1>7, <2>1
  <2>2. CASE i # n + 1
    <3>1. i \in 1 .. n
      BY <1>3, <2>2
    <3> QED BY <1>6, <3>1
  <2> QED BY <2>1, <2>2
<1> QED BY <1>8 DEF AllUsedUp, u

LEMMA ProperUsedUp ==
    ASSUME NEW chain, ProperChain(chain)
    PROVE  AllUsedUp(chain)
<1> DEFINE n == Len(chain)
           S == {i \in 0 .. n : AllUsedUp(SubSeq(chain, 1, i))}
<1>1. chain \in Seq(Block) /\ n \in Nat /\ n > 0 /\ chain[1] = Genesis
  BY DEF ProperChain
<1>2. 0 \in S
  <2>1. Len(SubSeq(chain, 1, 0)) = 0
    BY <1>1, Beginnings
  <2> QED BY <1>1, <2>1 DEF AllUsedUp
<1>3. ASSUME NEW i \in 1 .. n, i - 1 \in S PROVE i \in S
  <2> DEFINE v == SubSeq(chain, 1, i - 1)
  <2>1. i - 1 \in 0 .. n /\ v \in Seq(Block) /\ Len(v) = i - 1
    BY <1>1, Beginnings
  <2>2. SubSeq(chain, 1, i) = Append(v, chain[i])
    BY <1>1, PrefixAppend
  <2>3. AllUsedUp(v)
    BY <1>3
  <2> HIDE DEF v
  <2>4. CASE i = 1
    <3>1. Append(v, chain[i]) = <<Genesis>>
      BY <1>1, <2>1, <2>4
    <3>2. AllUsedUp(<<Genesis>>)
      BY GenesisBlock DEF AllUsedUp
    <3>3. AllUsedUp(SubSeq(chain, 1, i))
      BY <2>2, <3>1, <3>2
    <3>4. i \in 0 .. n
      BY <1>1
    <3> QED BY <3>3, <3>4
  <2>5. CASE i # 1
    <3>1. Follows(v, chain[i])
      BY <1>1, <2>5 DEF ProperChain, v
    <3>2. AllUsedUp(Append(v, chain[i]))
      BY <2>1, <2>3, <3>1, FollowsUsesUp
    <3>3. AllUsedUp(SubSeq(chain, 1, i))
      BY <2>2, <3>2
    <3>4. i \in 0 .. n
      BY <1>1
    <3> QED BY <3>3, <3>4
  <2> QED BY <2>4, <2>5
<1>4. \A i \in 0 .. n : i \in S
  <2> HIDE DEF S, n
  <2> QED BY <1>1, <1>2, <1>3, IntervalInduction
<1>5. n \in S
  <2> HIDE DEF S
  <2> QED BY <1>1, <1>4
<1>6. SubSeq(chain, 1, n) = chain
  BY <1>1, PrefixWhole
<1> QED BY <1>5, <1>6

-----------------------------------------------------------------------------
(* What a node makes, a node validates. *)

(* No reward goes to what is not an address. *)
ReceiversKnown(chain) ==
    \A i \in 1 .. Len(chain) : \A j \in 1 .. Len(chain[i].transactions) :
        chain[i].transactions[j].to \in Address

(* Where only addresses mine, every receiver is one.                       *)
LEMMA KnownReceivers ==
    ASSUME Miner \subseteq Address, NEW c \in Seq(Block)
    PROVE  ReceiversKnown(c)
<1> SUFFICES ASSUME NEW i \in 1 .. Len(c), NEW j \in 1 .. Len(c[i].transactions)
             PROVE  c[i].transactions[j].to \in Address
  BY DEF ReceiversKnown
<1> DEFINE txs == c[i].transactions
<1>1. c[i] \in Block
  OBVIOUS
<1>2. txs \in Seq(Transaction)
  BY <1>1, BlockTransactions
<1> HIDE DEF txs
<1>3. \A k \in 1 .. Len(txs) : txs[k].to \in Address
  BY <1>2, TransactionFields
<1> QED BY <1>3 DEF txs

(* What is not used up is not in the chain. *)
LEMMA FreshIsNotInChain ==
    ASSUME NEW chain, ProperChain(chain), NEW t, ~UsedUp(chain, t)
    PROVE  ~HasTransactionInChain(chain, t)
<1> SUFFICES ASSUME NEW h \in DOMAIN chain, NEW k \in DOMAIN chain[h].transactions,
                    chain[h].transactions[k] = t
             PROVE  FALSE
  BY DEF HasTransactionInChain
<1> DEFINE b == chain[h].transactions
<1>1. AllUsedUp(chain)
  BY ProperUsedUp
<1>2. chain \in Seq(Block)
  BY DEF ProperChain
<1>3. h \in 1 .. Len(chain) /\ chain[h] \in Block
  BY <1>2
<1>4. b \in Seq(Transaction) /\ k \in DOMAIN b
  BY <1>3, BlockTransactions
<1> HIDE DEF b
<1>5. k \in 1 .. Len(b)
  BY <1>4
<1> QED BY <1>1, <1>3, <1>5 DEF AllUsedUp, b

LEMMA MadeBlockContinues ==
    ASSUME NEW chain, NEW i \in 2 .. Len(chain), NEW before,
           before = SubSeq(chain, 1, i - 1),
           ProperChain(before), NEW sel, NEW reward,
           MadeOf(before, chain[i], sel, reward)
    PROVE  ContinuesChain(chain, i)
<1> DEFINE txs == chain[i].transactions
           n == Len(sel)
<1>1. /\ before \in Seq(Block)
      /\ sel \in Seq(Signed) /\ sel \in Seq(Transaction)
      /\ reward \in Transaction /\ reward.from = Coinbase /\ reward.nonce = Len(before)
      /\ txs = Append(sel, reward) /\ InOrder(before, sel)
  BY SignedSeq DEF ProperChain, MadeOf
<1>2. /\ n \in Nat /\ DOMAIN txs = 1 .. n + 1 /\ txs[n + 1] = reward
      /\ \A j \in 1 .. n : txs[j] = sel[j] /\ sel[j] \in Signed
      /\ Len(before) \in Nat
  BY <1>1
<1>3. \A j \in 1 .. n : sel[j].from \in Address /\ sel[j].from # Coinbase /\ sel[j] \in Transaction
  BY <1>2, LedgerAssumption DEF Signed
<1> HIDE DEF txs, n
<1>5. ASSUME NEW t \in Transaction, ~UsedUp(before, t) PROVE ~HasTransactionInChain(before, t)
  BY <1>5, FreshIsNotInChain
<1>6. ASSUME NEW j \in 1 .. n PROVE ~HasTransactionInChain(before, txs[j])
  <2> DEFINE a == sel[j].from
  <2>1. ConfirmedNonce(before, a) <= sel[j].nonce
    BY <1>1, <1>2, InOrderRange DEF n
  <2>2. ConfirmedNonce(before, a) \in Nat /\ sel[j].nonce \in Nat
    BY <1>1, <1>3, NonceType, TransactionFields
  <2>3. ~(sel[j].nonce < ConfirmedNonce(before, a))
    BY <2>1, <2>2
  <2>4. ~UsedUp(before, sel[j])
    BY <1>3, <2>3 DEF UsedUp
  <2> QED BY <1>2, <1>3, <1>5, <2>4
<1>7. ~HasTransactionInChain(before, reward)
  <2>1. ~UsedUp(before, reward)
    BY <1>1, <1>2 DEF UsedUp
  <2> QED BY <1>1, <1>5, <2>1
<1>8. ASSUME NEW j \in 1 .. n, NEW k \in 1 .. j - 1 PROVE txs[k] # txs[j]
  <2>1. k \in 1 .. n /\ k < j
    BY <1>2
  <2>2. sel[k].nonce \in Nat /\ sel[j].nonce \in Nat
    BY <1>3, <2>1, TransactionFields
  <2>3. sel[k].from = sel[j].from => sel[k].nonce < sel[j].nonce
    BY <1>1, <2>1, InOrderRises DEF n
  <2>4. sel[k] # sel[j]
    BY <2>2, <2>3
  <2> QED BY <1>2, <2>1, <2>4
<1>9. \A k \in 1 .. n : txs[k] # reward
  BY <1>1, <1>2, <1>3
<1>10. ASSUME NEW j \in 1 .. n
       PROVE  txs[j].nonce = ConfirmedNonce(before, txs[j].from)
                               + Cardinality({k \in 1 .. j - 1 : txs[k].from = txs[j].from})
  <2>1. \A k \in 1 .. j - 1 : k \in 1 .. n
    BY <1>2
  <2>2. {k \in 1 .. j - 1 : txs[k].from = txs[j].from} = Earlier(sel, sel[j].from, j - 1)
    BY <1>2, <2>1 DEF Earlier
  <2>3. sel[j].nonce = ConfirmedNonce(before, sel[j].from)
                         + Cardinality(Earlier(sel, sel[j].from, j - 1))
    BY <1>1 DEF InOrder, n
  <2> QED BY <1>2, <2>2, <2>3
<1>11. ASSUME NEW j \in DOMAIN txs
       PROVE  /\ ~HasTransactionInChain(before, txs[j])
              /\ \A k \in 1 .. j - 1 : txs[k] # txs[j]
              /\ txs[j].from # Coinbase =>
                   txs[j].nonce = ConfirmedNonce(before, txs[j].from)
                       + Cardinality({k \in 1 .. j - 1 : txs[k].from = txs[j].from})
  <2>1. CASE j = n + 1
    <3>1. j - 1 = n /\ txs[j] = reward
      BY <1>2, <2>1
    <3> QED BY <1>1, <1>7, <1>9, <3>1
  <2>2. CASE j # n + 1
    <3>1. j \in 1 .. n
      BY <1>2, <2>2
    <3> QED BY <1>6, <1>8, <1>10, <3>1
  <2> QED BY <2>1, <2>2
<1> QED BY <1>11 DEF ContinuesChain, txs

LEMMA MadeBlockIsValid ==
    ASSUME NEW chain, ProperChain(chain), ReceiversKnown(chain), NEW i \in 2 .. Len(chain)
    PROVE  IsValidBlock(chain, i)
<1> DEFINE before == SubSeq(chain, 1, i - 1)
           block == chain[i]
           txs == block.transactions
           rewards == IndicesFrom(txs, Coinbase)
           keep == {t \in Range(txs) : t.from # Coinbase}
<1>1. /\ chain \in Seq(Block) /\ Len(chain) \in Nat /\ i - 1 \in 0 .. Len(chain)
      /\ i \in 1 .. Len(chain) /\ i - 1 \in 1 .. Len(chain) /\ i - 1 \in 1 .. i - 1
      /\ i - 1 \in Nat
  BY DEF ProperChain
<1>2. before \in Seq(Block) /\ Len(before) = i - 1 /\ before[i - 1] = chain[i - 1]
  BY <1>1, Beginnings
<1>3. Follows(before, block)
  BY DEF ProperChain
<1> HIDE DEF before
<1>4. PICK sel, reward : MadeOf(before, block, sel, reward)
  BY <1>3 DEF Follows
<1>5. /\ sel \in Seq(Signed) /\ sel \in Seq(Transaction) /\ Len(sel) \in Nat
      /\ reward \in Transaction /\ reward.from = Coinbase
      /\ txs = Append(sel, reward)
      /\ Len(sel) <= MaxTransactionsPerBlock
      /\ \A k \in 1 .. Len(sel) : IsValidTransaction(sel[k]) /\ sel[k] \in Signed
      /\ reward.type = "reward" /\ reward.timestamp > 0
      /\ reward.amount = MiningReward(i - 1) + Fees(sel)
  BY <1>2, <1>4, SignedSeq DEF MadeOf
<1>6. /\ DOMAIN txs = 1 .. Len(sel) + 1 /\ txs[Len(sel) + 1] = reward
      /\ \A k \in 1 .. Len(sel) : txs[k] = sel[k] /\ sel[k].from \in Address
                                  /\ sel[k].from # Coinbase
      /\ Len(txs) = Len(sel) + 1
  <2>1. DOMAIN txs = 1 .. Len(sel) + 1 /\ Len(txs) = Len(sel) + 1 /\ txs[Len(sel) + 1] = reward
    BY <1>5
  <2>2. \A k \in 1 .. Len(sel) : txs[k] = sel[k]
    BY <1>5
  <2>3. \A k \in 1 .. Len(sel) : sel[k].from \in Address /\ sel[k].from # Coinbase
    BY <1>5, LedgerAssumption DEF Signed
  <2> QED BY <2>1, <2>2, <2>3
<1>7. block.difficulty >= MinDifficulty
  BY <1>1, ProperDifficulty
<1>8. block.difficulty - chain[i - 1].difficulty \in {-1, 0, 1}
  <2>1. before # <<>> /\ LastBlock(before) = chain[i - 1]
    BY <1>1, <1>2 DEF LastBlock
  <2>2. LastBlock(before).difficulty >= MinDifficulty
    BY <1>1, <2>1, ProperDifficulty
  <2>3. Given(before) - LastBlock(before).difficulty \in {-1, 0, 1}
    BY <1>2, <2>1, <2>2, GivenSteps
  <2>4. block.difficulty = Given(before)
    BY <1>3 DEF Follows
  <2> HIDE DEF block
  <2> QED BY <2>1, <2>3, <2>4
<1>9. Subsequence(txs, keep) = sel
  <2>1. \A k \in 1 .. Len(sel) + 1 : txs[k] \in Range(txs)
    BY <1>6 DEF Range
  <2>2. \A k \in 1 .. Len(sel) : k \in 1 .. Len(sel) + 1
    BY <1>5
  <2> HIDE DEF txs
  <2>3. \A k \in 1 .. Len(sel) : sel[k] \in keep
    BY <1>6, <2>1, <2>2
  <2>4. reward \notin keep
    BY <1>5
  <2> HIDE DEF keep
  <2>5. Subsequence(Append(sel, reward), keep) = sel
    BY <1>5, <2>3, <2>4, SubsequenceFront
  <2> QED BY <1>5, <2>5
<1>10. rewards = {Len(sel) + 1}
  <2>1. \A k \in DOMAIN txs : k \in 1 .. Len(sel) \/ k = Len(sel) + 1
    BY <1>5, <1>6
  <2>2. Len(sel) + 1 \in DOMAIN txs
    BY <1>5, <1>6
  <2> HIDE DEF txs
  <2>3. \A k : k \in rewards <=> k = Len(sel) + 1
    BY <1>5, <1>6, <2>1, <2>2 DEF IndicesFrom
  <2> HIDE DEF rewards
  <2> QED BY <2>3
<1>11. Cardinality(rewards) = 1
  BY <1>10, FS_Singleton
<1>12. \A j \in rewards : txs[j].amount = MiningReward(i - 1) + Fees(sel)
  BY <1>5, <1>6, <1>10
<1>13. \A j \in DOMAIN txs : IsValidTransaction(txs[j])
  <2>1. reward.to \in Address
    <3>1. Len(sel) + 1 \in 1 .. Len(txs)
      BY <1>5, <1>6
    <3>2. txs[Len(sel) + 1].to \in Address
      BY <1>1, <3>1 DEF ReceiversKnown
    <3> QED BY <1>6, <3>2
  <2>2. IsValidTransaction(reward)
    BY <1>5, <2>1 DEF IsValidTransaction
  <2>3. \A k \in DOMAIN txs : k \in 1 .. Len(sel) \/ k = Len(sel) + 1
    BY <1>5, <1>6
  <2> HIDE DEF txs
  <2> QED BY <1>5, <1>6, <2>2, <2>3
<1>14. Len(Subsequence(txs, keep)) <= MaxTransactionsPerBlock
  BY <1>5, <1>9
<1> HIDE DEF block
<1>15. /\ block.difficulty >= MinDifficulty
       /\ block.difficulty - chain[i - 1].difficulty \in {-1, 0, 1}
       /\ Len(Subsequence(txs, keep)) <= MaxTransactionsPerBlock
       /\ Cardinality(rewards) = 1
       /\ \A j \in rewards : txs[j].amount = MiningReward(i - 1) + Fees(Subsequence(txs, keep))
       /\ \A j \in DOMAIN txs : IsValidTransaction(txs[j])
  <2> HIDE DEF txs, rewards, keep
  <2> QED BY <1>7, <1>8, <1>9, <1>11, <1>12, <1>13, <1>14
<1> QED BY <1>15 DEF IsValidBlock, block

(* What minePendingTransactions makes, isValidChain takes, if every miner  *)
(* it was given is an address.                                             *)
LEMMA ProperIsValid ==
    ASSUME NEW chain, ProperChain(chain), ReceiversKnown(chain)
    PROVE  IsValidChain(chain)
<1>1. ASSUME NEW i \in 2 .. Len(chain)
      PROVE  IsValidBlock(chain, i) /\ ContinuesChain(chain, i)
  <2> DEFINE before == SubSeq(chain, 1, i - 1)
  <2>1. i - 1 \in 1 .. Len(chain)
    BY DEF ProperChain
  <2>2. ProperChain(before)
    BY <2>1, ProperPrefix
  <2>3. PICK sel, reward : MadeOf(before, chain[i], sel, reward)
    BY DEF ProperChain, Follows
  <2>4. ContinuesChain(chain, i)
    <3> DEFINE b == before
    <3>1. b = SubSeq(chain, 1, i - 1)
      OBVIOUS
    <3> HIDE DEF b
    <3> QED BY <2>2, <2>3, <3>1, MadeBlockContinues
  <2> QED BY <2>4, MadeBlockIsValid
<1> QED BY <1>1 DEF IsValidChain, ProperChain

-----------------------------------------------------------------------------
(* A ledger as any node keeps it, whatever it was sent: its chain was made *)
(* by nodes, its difficulty is the one the chain gives, and what is        *)
(* pending is signed and valid.                                            *)
Acceptable == {t \in Signed : IsValidTransaction(t)}

SoundLedger(led) ==
    /\ led \in LedgerState
    /\ ProperChain(led.chain)
    /\ led.difficulty = Given(led.chain)
    /\ led.pendingTransactions \in Seq(Acceptable)

LEMMA AcceptableSeq ==
    ASSUME NEW p \in Seq(Acceptable)
    PROVE  /\ p \in Seq(Signed) /\ p \in Seq(Transaction)
           /\ \A j \in 1 .. Len(p) : p[j] \in Acceptable /\ IsValidTransaction(p[j])
<1>1. \A j \in 1 .. Len(p) : p[j] \in Acceptable
  OBVIOUS
<1>2. p \in Seq(Signed)
  BY <1>1 DEF Acceptable
<1>3. \A j \in 1 .. Len(p) : IsValidTransaction(p[j])
  BY <1>1 DEF Acceptable
<1> QED BY <1>1, <1>2, <1>3, SignedSeq

LEMMA ProperGiven ==
    ASSUME NEW chain, ProperChain(chain)
    PROVE  Given(chain) \in Nat /\ Given(chain) >= MinDifficulty
<1>1. chain \in Seq(Block) /\ chain # <<>> /\ Len(chain) \in 1 .. Len(chain)
  BY DEF ProperChain
<1>2. LastBlock(chain).difficulty >= MinDifficulty
  BY <1>1, ProperDifficulty DEF LastBlock
<1> QED BY <1>1, <1>2, GivenSteps

(* Any ledger on a proper chain, with its difficulty. *)
LEMMA SoundOn ==
    ASSUME NEW chain, ProperChain(chain), NEW p \in Seq(Acceptable), NEW d, d = Given(chain)
    PROVE  SoundLedger([chain |-> chain, pendingTransactions |-> p, difficulty |-> d])
<1>1. d \in Nat /\ chain \in Seq(Block) /\ p \in Seq(Transaction)
  BY ProperGiven, AcceptableSeq DEF ProperChain
<1> QED BY <1>1 DEF SoundLedger, LedgerState

LEMMA FreshLedgerIsSound == SoundLedger(FreshLedger)
<1>1. MinDifficulty = Given(<<Genesis>>)
  <2>1. 1 % AdjustmentInterval = 1
    BY LedgerAssumption
  <2>2. ~AtAdjustment(<<Genesis>>)
    BY <2>1 DEF AtAdjustment
  <2> QED BY <2>2 DEF Given, LastBlock, Genesis
<1>2. <<>> \in Seq(Acceptable)
  OBVIOUS
<1> QED BY <1>1, <1>2, FreshChainIsProper, SoundOn DEF FreshLedger

LEMMA AddTransactionKeepsSound ==
    ASSUME NEW led, SoundLedger(led), NEW t \in Signed
    PROVE  SoundLedger(AddTransaction(led, t))
<1> DEFINE p == led.pendingTransactions
           new == AddTransaction(led, t)
<1>1. led \in LedgerState /\ p \in Seq(Acceptable) /\ p \in Seq(Transaction)
  BY AcceptableSeq DEF SoundLedger
<1>2. CASE ~Admissible(led, t)
  BY <1>2 DEF AddTransaction
<1>3. ASSUME NEW q \in Seq(Acceptable), new = [led EXCEPT !.pendingTransactions = q]
      PROVE  SoundLedger(new)
  <2>1. q \in Seq(Transaction)
    BY AcceptableSeq
  <2>2. /\ new \in LedgerState /\ new.chain = led.chain /\ new.difficulty = led.difficulty
        /\ new.pendingTransactions = q
    <3> HIDE DEF new
    <3> QED BY <1>1, <1>3, <2>1 DEF LedgerState
  <2> HIDE DEF new
  <2>3. SoundLedger(new)
    BY <2>2 DEF SoundLedger
  <2> QED BY <2>3
<1>4. CASE Admissible(led, t)
  <2>1. t \in Acceptable
    BY <1>4 DEF Admissible, Acceptable
  <2>2. CASE Replaced(p, t) = {}
    <3>1. new = [led EXCEPT !.pendingTransactions = Append(p, t)]
      BY <1>4, <2>2 DEF AddTransaction
    <3> HIDE DEF p, new
    <3>2. Append(p, t) \in Seq(Acceptable)
      BY <1>1, <2>1
    <3> QED BY <1>3, <3>1, <3>2 DEF new, p
  <2>3. CASE Replaced(p, t) # {}
    <3> DEFINE q == [j \in DOMAIN p |-> IF j \in Replaced(p, t) THEN t ELSE p[j]]
    <3>1. new = [led EXCEPT !.pendingTransactions = q]
      BY <1>4, <2>3 DEF AddTransaction
    <3>2. q \in Seq(Acceptable)
      <4> HIDE DEF p
      <4> QED BY <1>1, <2>1
    <3> HIDE DEF p, new, q
    <3> QED BY <1>3, <3>1, <3>2 DEF new
  <2> QED BY <2>2, <2>3
<1> QED BY <1>2, <1>4

(* minePendingTransactions makes a block that follows the chain. *)
LEMMA NextBlockMade ==
    ASSUME NEW led, SoundLedger(led), NEW miner \in Miner, NEW now \in Nat \ {0}
    PROVE  /\ NextBlock(led, miner, now) \in Block
           /\ NextBlock(led, miner, now).difficulty = led.difficulty
           /\ \E sel, reward : sel \in Orders(led)
                               /\ MadeOf(led.chain, NextBlock(led, miner, now), sel, reward)
<1> DEFINE p == led.pendingTransactions
           c == led.chain
           sel == TransactionsForNextBlock(led)
           reward == RewardTransaction(c, sel, miner, now)
           block == NextBlock(led, miner, now)
<1>1. /\ led \in LedgerState /\ c \in Seq(Block) /\ Len(c) \in Nat
      /\ led.difficulty \in Nat /\ led.difficulty = Given(c)
      /\ p \in Seq(Signed) /\ \A j \in 1 .. Len(p) : p[j] \in Signed /\ IsValidTransaction(p[j])
  BY LedgerFields, AcceptableSeq DEF SoundLedger, Acceptable
<1>2. sel \in Orders(led) /\ Len(sel) <= MaxTransactionsPerBlock
  BY <1>1, LedgerAssumption, ExecutionOrderInOrder DEF TransactionsForNextBlock
<1>3. /\ sel \in Seq(Transaction) /\ InOrder(c, sel)
      /\ \A k \in 1 .. Len(sel) : \E j \in 1 .. Len(p) : sel[k] = p[j]
  BY <1>2 DEF Orders, Selections
<1> HIDE DEF sel
<1>4. \A k \in 1 .. Len(sel) : sel[k] \in Signed /\ IsValidTransaction(sel[k])
  BY <1>1, <1>3
<1>5. sel \in Seq(Signed)
  BY <1>3, <1>4
<1>6. MiningReward(Len(c)) + Fees(sel) \in Nat
  <2>1. MiningReward(Len(c)) \in Nat /\ Fees(sel) \in Nat
    BY <1>1, <1>3, MiningRewardType, FeesNat
  <2> QED BY <2>1
<1>7. /\ reward \in Transaction
      /\ reward.type = "reward" /\ reward.from = Coinbase /\ reward.fee = 0
      /\ reward.nonce = Len(c) /\ reward.timestamp > 0
      /\ reward.amount = MiningReward(Len(c)) + Fees(sel)
  BY <1>1, <1>6 DEF RewardTransaction, Transaction
<1>8. block = [transactions |-> Append(sel, reward), difficulty |-> led.difficulty,
               timestamp |-> now]
  BY DEF NextBlock, sel
<1> HIDE DEF reward, block
<1>9. Append(sel, reward) \in Seq(Transaction)
  BY <1>3, <1>7
<1>10. block \in Block /\ block.transactions = Append(sel, reward) /\ block.difficulty = led.difficulty
  BY <1>1, <1>8, <1>9 DEF Block
<1>11. MadeOf(c, block, sel, reward)
  BY <1>2, <1>3, <1>4, <1>5, <1>7, <1>10 DEF MadeOf
<1>12. \E s, r : s \in Orders(led) /\ MadeOf(c, block, s, r)
  BY <1>2, <1>11
<1> QED BY <1>10, <1>12 DEF block, c

LEMMA NextBlockFollows ==
    ASSUME NEW led, SoundLedger(led), NEW miner \in Miner, NEW now \in Nat \ {0}
    PROVE  Follows(led.chain, NextBlock(led, miner, now))
BY NextBlockMade DEF Follows, SoundLedger

LEMMA RemoveKeepsAcceptable ==
    ASSUME NEW p \in Seq(Acceptable), NEW txs
    PROVE  RemovePending(p, txs) \in Seq(Acceptable)
<1> DEFINE keep == Range(p) \ Range(txs)
<1> HIDE DEF keep
<1>1. Subsequence(p, keep) \in Seq(Acceptable)
  BY SubsequenceType
<1> QED BY <1>1 DEF RemovePending, keep

LEMMA LastOfAppend ==
    ASSUME NEW chain \in Seq(Block), NEW block \in Block
    PROVE  LastBlock(Append(chain, block)) = block
BY DEF LastBlock

LEMMA MineKeepsSound ==
    ASSUME NEW led, SoundLedger(led), NEW miner \in Miner, NEW now \in Nat \ {0}
    PROVE  SoundLedger(MinePendingTransactions(led, miner, now))
<1> DEFINE block == NextBlock(led, miner, now)
           chain == Append(led.chain, block)
           left == RemovePending(led.pendingTransactions, block.transactions)
           d == IF AtAdjustment(chain) THEN AdjustDifficulty(chain, led.difficulty)
                ELSE led.difficulty
<1>1. Follows(led.chain, block) /\ block \in Block /\ block.difficulty = led.difficulty
  BY NextBlockFollows DEF Follows, SoundLedger
<1>2. ProperChain(led.chain) /\ led.chain \in Seq(Block)
  BY DEF SoundLedger, ProperChain
<1>3. MinePendingTransactions(led, miner, now)
        = [chain |-> chain, pendingTransactions |-> left, difficulty |-> d]
  BY DEF MinePendingTransactions
<1> HIDE DEF block
<1>4. ProperChain(chain)
  BY <1>1, <1>2, ProperAppend
<1>5. LastBlock(chain) = block
  BY <1>1, <1>2, LastOfAppend
<1>6. left \in Seq(Acceptable)
  BY RemoveKeepsAcceptable DEF SoundLedger
<1> HIDE DEF chain, left
<1>7. d = Given(chain)
  BY <1>1, <1>5 DEF Given
<1> HIDE DEF d
<1> QED BY <1>3, <1>4, <1>6, <1>7, SoundOn

(* addBlock of a block another node has made. *)
LEMMA AddBlockKeepsSound ==
    ASSUME NEW led, SoundLedger(led), NEW announced, ProperChain(announced),
           AcceptsBlock(led, announced)
    PROVE  SoundLedger(AddBlock(led, announced))
<1> DEFINE n == Len(announced)
           block == LastBlock(announced)
           left == RemovePending(led.pendingTransactions, block.transactions)
           d == IF AtAdjustment(announced) THEN AdjustDifficulty(announced, led.difficulty)
                ELSE block.difficulty
<1>1. announced \in Seq(Block) /\ n \in Nat /\ n > 1
      /\ SubSeq(announced, 1, n - 1) = led.chain
  BY DEF ProperChain, AcceptsBlock
<1>2. n \in 2 .. n
  BY <1>1
<1>3. Follows(SubSeq(announced, 1, n - 1), announced[n])
  BY <1>2 DEF ProperChain
<1>4. block.difficulty = Given(led.chain)
  BY <1>1, <1>3 DEF Follows, LastBlock
<1>5. block.difficulty = led.difficulty
  BY <1>4 DEF SoundLedger
<1>6. d = Given(announced)
  BY <1>5 DEF Given
<1>7. left \in Seq(Acceptable)
  BY RemoveKeepsAcceptable DEF SoundLedger
<1>8. AddBlock(led, announced)
        = [chain |-> announced, pendingTransactions |-> left, difficulty |-> d]
  BY DEF AddBlock
<1> HIDE DEF left, d
<1> QED BY <1>6, <1>7, <1>8, SoundOn

SoundLedgers == {led \in LedgerState : SoundLedger(led)}

LEMMA SoundIsPreserved == Preserved(SoundLedgers, Signed)
<1>1. ASSUME NEW led \in SoundLedgers, NEW t \in Signed
      PROVE  AddTransaction(led, t) \in SoundLedgers
  <2>1. SoundLedger(AddTransaction(led, t))
    BY AddTransactionKeepsSound DEF SoundLedgers
  <2> QED BY <2>1 DEF SoundLedgers, SoundLedger
<1> QED BY <1>1 DEF Preserved

LEMMA LoadBaseIsSound ==
    ASSUME NEW file, SoundLedger(file)
    PROVE  SoundLedger(LoadBase(file)) /\ LoadBase(file).difficulty = file.difficulty
<1>1. Given(file.chain) \in Nat /\ ~(Given(file.chain) < MinDifficulty)
  BY ProperGiven, LedgerAssumption DEF SoundLedger
<1>2. LoadBase(file) = [chain |-> file.chain, pendingTransactions |-> <<>>,
                        difficulty |-> Given(file.chain)]
  BY <1>1 DEF LoadBase, SoundLedger
<1>3. <<>> \in Seq(Acceptable)
  OBVIOUS
<1> DEFINE c == file.chain
<1>4. ProperChain(c)
  BY DEF SoundLedger
<1>5. LoadBase(file) = [chain |-> c, pendingTransactions |-> <<>>, difficulty |-> Given(c)]
  BY <1>2
<1> HIDE DEF c
<1>6. SoundLedger([chain |-> c, pendingTransactions |-> <<>>, difficulty |-> Given(c)])
  BY <1>3, <1>4, SoundOn
<1>7. SoundLedger(LoadBase(file))
  BY <1>5, <1>6
<1> QED BY <1>2, <1>7 DEF SoundLedger

-----------------------------------------------------------------------------
(* A mempool whose nonces are in order over its chain. *)

(* No nonce is missing. *)
LEMMA InOrderCovers ==
    ASSUME NEW chain, NEW txs \in Seq(Transaction), InOrder(chain, txs), NEW a,
           NEW m \in Nat, m < Cardinality(IndicesFrom(txs, a))
    PROVE  \E k \in 1 .. Len(txs) :
              txs[k].from = a /\ txs[k].nonce = ConfirmedNonce(chain, a) + m
<1> DEFINE n == Len(txs)
           c == ConfirmedNonce(chain, a)
           Found(i) == \A h \in Nat : h < Cardinality(Earlier(txs, a, i)) =>
                          \E k \in 1 .. i : txs[k].from = a /\ txs[k].nonce = c + h
           S == {i \in 0 .. n : Found(i)}
<1>1. n \in Nat /\ IndicesFrom(txs, a) = Earlier(txs, a, n)
  BY CountSum
<1>2. 0 \in S
  <2>1. Cardinality(Earlier(txs, a, 0)) \in 0 .. 0
    BY EarlierFinite
  <2>2. \A h \in Nat : ~(h < Cardinality(Earlier(txs, a, 0)))
    BY <2>1
  <2> QED BY <1>1, <2>2
<1>3. ASSUME NEW i \in 1 .. n, i - 1 \in S PROVE i \in S
  <2>1. i - 1 \in Nat /\ (i - 1) + 1 = i /\ i \in 0 .. n /\ Found(i - 1)
    BY <1>1, <1>3
  <2>2. Cardinality(Earlier(txs, a, i))
          = Cardinality(Earlier(txs, a, i - 1)) + (IF txs[i].from = a THEN 1 ELSE 0)
    BY <2>1, EarlierStep
  <2>3. Cardinality(Earlier(txs, a, i - 1)) \in Nat
    BY <2>1, EarlierFinite
  <2>4. txs[i].nonce = ConfirmedNonce(chain, txs[i].from)
                         + Cardinality(Earlier(txs, txs[i].from, i - 1))
    BY DEF InOrder
  <2>5. ASSUME NEW h \in Nat, h < Cardinality(Earlier(txs, a, i))
        PROVE  \E k \in 1 .. i : txs[k].from = a /\ txs[k].nonce = c + h
    <3>1. CASE h < Cardinality(Earlier(txs, a, i - 1))
      <4>1. PICK k \in 1 .. i - 1 : txs[k].from = a /\ txs[k].nonce = c + h
        BY <2>1, <3>1
      <4>2. k \in 1 .. i
        BY <2>1
      <4> QED BY <4>1, <4>2
    <3>2. CASE ~(h < Cardinality(Earlier(txs, a, i - 1)))
      <4>1. txs[i].from = a /\ h = Cardinality(Earlier(txs, a, i - 1))
        BY <2>2, <2>3, <2>5, <3>2
      <4>2. i \in 1 .. i
        BY <2>1
      <4> QED BY <2>4, <4>1, <4>2
    <3> QED BY <3>1, <3>2
  <2> HIDE DEF c
  <2> QED BY <2>1, <2>5
<1>4. \A i \in 0 .. n : i \in S
  <2> HIDE DEF S, n
  <2> QED BY <1>1, <1>2, <1>3, IntervalInduction
<1>5. n \in S
  <2> HIDE DEF S
  <2> QED BY <1>1, <1>4
<1> QED BY <1>1, <1>5

(* None occurs twice. *)
LEMMA InOrderOnce ==
    ASSUME NEW chain \in Seq(Block), NEW txs \in Seq(Transaction), InOrder(chain, txs),
           NEW i \in 1 .. Len(txs), NEW j \in 1 .. Len(txs), txs[i].from = txs[j].from,
           txs[i].nonce = txs[j].nonce
    PROVE  i = j
<1>1. txs[i] \in Transaction
  OBVIOUS
<1>2. txs[i].nonce \in Nat
  BY <1>1, TransactionFields
<1>3. ~(i < j) /\ ~(j < i)
  <2>1. ASSUME i < j PROVE FALSE
    <3>1. txs[i].nonce < txs[j].nonce
      BY <2>1, InOrderRises
    <3> QED BY <1>2, <3>1
  <2>2. ASSUME j < i PROVE FALSE
    <3>1. txs[j].nonce < txs[i].nonce
      BY <2>2, InOrderRises
    <3> QED BY <1>2, <3>1
  <2> QED BY <2>1, <2>2
<1> QED BY <1>3

(* The nonces of a sender are the next ones, all of them. *)
LEMMA InOrderNonces ==
    ASSUME NEW led \in LedgerState, InOrder(led.chain, led.pendingTransactions), NEW a
    PROVE  {led.pendingTransactions[j].nonce : j \in IndicesFrom(led.pendingTransactions, a)}
             = ConfirmedNonce(led.chain, a) .. NextNonce(led, a) - 1
<1> DEFINE p == led.pendingTransactions
           chain == led.chain
           c == ConfirmedNonce(chain, a)
           x == Cardinality(IndicesFrom(p, a))
<1>1. p \in Seq(Transaction) /\ chain \in Seq(Block) /\ InOrder(chain, p)
  BY LedgerFields
<1>2. NextNonce(led, a) = c + x
  BY DEF NextNonce
<1> HIDE DEF p, chain
<1>3. c \in Nat /\ x \in Nat
  <2>1. x \in 0 .. Len(p) /\ Len(p) \in Nat
    BY <1>1, CountSum
  <2> QED BY <1>1, <2>1, NonceType
<1>4. ASSUME NEW j \in IndicesFrom(p, a) PROVE p[j].nonce \in c .. c + x - 1
  <2>1. j \in 1 .. Len(p) /\ p[j].from = a
    BY <1>1 DEF IndicesFrom
  <2>2. c <= p[j].nonce /\ p[j].nonce < c + x
    BY <1>1, <2>1, InOrderRange
  <2>3. p[j].nonce \in Nat
    BY <1>1, <2>1, TransactionFields
  <2> QED BY <1>3, <2>2, <2>3
<1>5. ASSUME NEW v \in c .. c + x - 1
      PROVE  \E j \in IndicesFrom(p, a) : p[j].nonce = v
  <2>1. v - c \in Nat /\ v - c < x /\ c + (v - c) = v
    BY <1>3
  <2>2. PICK k \in 1 .. Len(p) : p[k].from = a /\ p[k].nonce = c + (v - c)
    BY <1>1, <2>1, InOrderCovers
  <2>3. k \in IndicesFrom(p, a)
    BY <1>1, <2>2 DEF IndicesFrom
  <2> QED BY <2>1, <2>2, <2>3
<1> HIDE DEF c, x
<1>6. {p[j].nonce : j \in IndicesFrom(p, a)} = c .. c + x - 1
  BY <1>4, <1>5
<1>7. NextNonce(led, a) - 1 = c + x - 1
  BY <1>2, <1>3
<1>8. {p[j].nonce : j \in IndicesFrom(p, a)} = c .. NextNonce(led, a) - 1
  BY <1>6, <1>7
<1> QED BY <1>8 DEF p, chain, c

(* addTransaction puts a transaction of the same sender and nonce in the   *)
(* place of the one it replaces.                                           *)
Replaces(q, p, t) ==
    /\ q \in Seq(Transaction)
    /\ Len(q) = Len(p)
    /\ \A j \in 1 .. Len(p) :
          \/ q[j] = p[j]
          \/ q[j] = t /\ p[j].from = t.from /\ p[j].nonce = t.nonce

LEMMA InOrderReplace ==
    ASSUME NEW chain, NEW p \in Seq(Transaction), InOrder(chain, p), NEW t, NEW q,
           Replaces(q, p, t)
    PROVE  InOrder(chain, q) /\ \A a : IndicesFrom(q, a) = IndicesFrom(p, a)
<1>1. q \in Seq(Transaction) /\ Len(q) = Len(p) /\ Len(p) \in Nat
  BY DEF Replaces
<1>2. \A j \in 1 .. Len(p) : q[j].from = p[j].from /\ q[j].nonce = p[j].nonce
  BY DEF Replaces
<1>3. ASSUME NEW a, NEW k \in 0 .. Len(p) PROVE Earlier(q, a, k) = Earlier(p, a, k)
  <2>1. \A j \in 1 .. k : j \in 1 .. Len(p)
    BY <1>1
  <2> QED BY <1>2, <2>1 DEF Earlier
<1>4. \A k \in 1 .. Len(p) : k - 1 \in 0 .. Len(p)
  BY <1>1
<1>5. InOrder(chain, q)
  BY <1>1, <1>2, <1>3, <1>4 DEF InOrder
<1>6. \A a : IndicesFrom(q, a) = IndicesFrom(p, a)
  BY <1>1, <1>2 DEF IndicesFrom
<1> QED BY <1>1, <1>5, <1>6

-----------------------------------------------------------------------------
(* What a block leaves of a mempool: of each sender the nonces after those *)
(* the block has confirmed.  Two transactions of one sender and nonce      *)
(* would stand in each other's way.                                        *)
Agree(p, sel) ==
    \A i \in 1 .. Len(p), k \in 1 .. Len(sel) :
        p[i].from = sel[k].from /\ p[i].nonce = sel[k].nonce => p[i] = sel[k]

(* g is what is left of the first i transactions of p. *)
LeftSoFar(g, i, p, sel, chain) ==
    /\ g \in Seq(Signed)
    /\ Len(g) <= i
    /\ InOrder(chain, g)
    /\ \A a \in Address :
          Cardinality(IndicesFrom(g, a)) =
              IF Cardinality(Earlier(p, a, i)) <= Cardinality(IndicesFrom(sel, a)) THEN 0
              ELSE Cardinality(Earlier(p, a, i)) - Cardinality(IndicesFrom(sel, a))

LEMMA LeftStep ==
    ASSUME NEW p \in Seq(Signed), NEW sel \in Seq(Transaction), NEW i \in 1 .. Len(p),
           NEW chain \in Seq(Block), NEW after \in Seq(Block), InOrder(chain, p),
           \A a \in Address : ConfirmedNonce(after, a)
                               = ConfirmedNonce(chain, a) + Cardinality(IndicesFrom(sel, a)),
           NEW g, LeftSoFar(g, i - 1, p, sel, after),
           NEW kept \in BOOLEAN,
           kept <=> p[i].nonce >= ConfirmedNonce(after, p[i].from),
           NEW new, kept => new = Append(g, p[i]), ~kept => new = g
    PROVE  LeftSoFar(new, i, p, sel, after)
<1> DEFINE t == p[i]
           E(a) == Cardinality(Earlier(p, a, i - 1))
           W(a) == Cardinality(IndicesFrom(sel, a))
           G(a) == Cardinality(IndicesFrom(g, a))
<1>1. /\ t \in Signed /\ t \in Transaction /\ t.from \in Address /\ t.nonce \in Nat
      /\ i - 1 \in Nat /\ (i - 1) + 1 = i
      /\ g \in Seq(Signed) /\ g \in Seq(Transaction) /\ Len(g) \in Nat /\ Len(g) <= i - 1
      /\ InOrder(after, g)
  <2>1. t \in Signed /\ i - 1 \in Nat /\ (i - 1) + 1 = i
    OBVIOUS
  <2>2. g \in Seq(Signed) /\ Len(g) <= i - 1 /\ InOrder(after, g)
    BY DEF LeftSoFar
  <2>3. t \in Transaction /\ t.from \in Address
    BY <2>1 DEF Signed
  <2> QED BY <2>1, <2>2, <2>3, SignedSeq, TransactionFields
<1>2. \A a \in Address :
         /\ E(a) \in Nat /\ W(a) \in Nat
         /\ ConfirmedNonce(chain, a) \in Nat
         /\ ConfirmedNonce(after, a) = ConfirmedNonce(chain, a) + W(a)
         /\ Cardinality(Earlier(p, a, i)) = E(a) + (IF t.from = a THEN 1 ELSE 0)
  <2> TAKE a \in Address
  <2>1. E(a) \in Nat
    BY <1>1, EarlierFinite
  <2>2. W(a) \in 0 .. Len(sel) /\ Len(sel) \in Nat
    BY CountSum
  <2>3. W(a) \in Nat
    BY <2>2
  <2>4. Cardinality(Earlier(p, a, i)) = E(a) + (IF t.from = a THEN 1 ELSE 0)
    <3>1. i - 1 \in Nat /\ (i - 1) + 1 = i
      BY <1>1
    <3>2. Cardinality(Earlier(p, a, (i - 1) + 1))
            = Cardinality(Earlier(p, a, i - 1)) + (IF p[(i - 1) + 1].from = a THEN 1 ELSE 0)
      BY <3>1, EarlierStep
    <3> QED BY <3>1, <3>2
  <2>5. ConfirmedNonce(chain, a) \in Nat
    BY NonceType
  <2> QED BY <2>1, <2>3, <2>4, <2>5
<1>3. \A a \in Address : G(a) = IF E(a) <= W(a) THEN 0 ELSE E(a) - W(a)
  BY DEF LeftSoFar
<1>4. t.nonce = ConfirmedNonce(chain, t.from) + E(t.from)
  <2>1. p \in Seq(Transaction)
    BY SignedSeq
  <2> QED BY DEF InOrder
<1>5. kept <=> E(t.from) >= W(t.from)
  <2> DEFINE c == ConfirmedNonce(chain, t.from)
             e == E(t.from)
             w == W(t.from)
  <2>1. c \in Nat /\ e \in Nat /\ w \in Nat /\ ConfirmedNonce(after, t.from) = c + w /\ t.nonce = c + e
    BY <1>1, <1>2, <1>4
  <2>2. kept <=> t.nonce >= ConfirmedNonce(after, t.from)
    OBVIOUS
  <2> HIDE DEF c, e, w, t
  <2>3. t.nonce >= ConfirmedNonce(after, t.from) <=> e >= w
    BY <2>1
  <2> QED BY <2>2, <2>3 DEF e, w
<1> HIDE DEF t, E, W, G
<1>6. CASE kept
  <2>1. new = Append(g, t)
    BY <1>6 DEF t
  <2>2. new \in Seq(Signed) /\ Len(new) = Len(g) + 1
    BY <1>1, <2>1
  <2>3. \A a \in Address : Cardinality(IndicesFrom(new, a)) = G(a) + (IF t.from = a THEN 1 ELSE 0)
    BY <1>1, <2>1, CountAppend DEF G
  <2>4. t.nonce = ConfirmedNonce(after, t.from) + Cardinality(IndicesFrom(g, t.from))
    <3> DEFINE c == ConfirmedNonce(chain, t.from)
               e == E(t.from)
               w == W(t.from)
    <3>1. c \in Nat /\ e \in Nat /\ w \in Nat /\ e >= w /\ t.nonce = c + e
          /\ G(t.from) = (IF e <= w THEN 0 ELSE e - w) /\ ConfirmedNonce(after, t.from) = c + w
      BY <1>1, <1>2, <1>3, <1>4, <1>5, <1>6
    <3> HIDE DEF c, e, w
    <3>2. t.nonce = ConfirmedNonce(after, t.from) + G(t.from)
      BY <3>1
    <3> QED BY <3>2 DEF G
  <2>5. InOrder(after, new)
    BY <1>1, <2>1, <2>4, InOrderAppend
  <2>6. ASSUME NEW a \in Address
        PROVE  Cardinality(IndicesFrom(new, a))
                 = IF Cardinality(Earlier(p, a, i)) <= W(a) THEN 0
                   ELSE Cardinality(Earlier(p, a, i)) - W(a)
    <3> DEFINE e == E(a)
               w == W(a)
               x == IF t.from = a THEN 1 ELSE 0
    <3>1. e \in Nat /\ w \in Nat /\ (x = 0 \/ x = 1) /\ Cardinality(Earlier(p, a, i)) = e + x
          /\ Cardinality(IndicesFrom(new, a)) = (IF e <= w THEN 0 ELSE e - w) + x
      BY <1>2, <1>3, <2>3
    <3>2. x = 1 => e >= w
      BY <1>5, <1>6
    <3> HIDE DEF e, x
    <3>3. Cardinality(IndicesFrom(new, a)) = IF e + x <= w THEN 0 ELSE (e + x) - w
      BY <3>1, <3>2
    <3> QED BY <3>1, <3>3
  <2>7. Len(new) <= i
    BY <1>1, <2>2
  <2> QED BY <2>2, <2>5, <2>6, <2>7 DEF LeftSoFar, W
<1>7. CASE ~kept
  <2>1. new = g /\ Len(new) <= i
    BY <1>1, <1>7
  <2>2. ASSUME NEW a \in Address
        PROVE  Cardinality(IndicesFrom(new, a))
                 = IF Cardinality(Earlier(p, a, i)) <= W(a) THEN 0
                   ELSE Cardinality(Earlier(p, a, i)) - W(a)
    <3> DEFINE e == E(a)
               w == W(a)
               x == IF t.from = a THEN 1 ELSE 0
    <3>1. e \in Nat /\ w \in Nat /\ (x = 0 \/ x = 1) /\ Cardinality(Earlier(p, a, i)) = e + x
      BY <1>2
    <3>2. Cardinality(IndicesFrom(new, a)) = IF e <= w THEN 0 ELSE e - w
      BY <1>3, <2>1 DEF G
    <3>3. x = 1 => e < w
      <4>1. ASSUME x = 1 PROVE ~(E(t.from) >= W(t.from)) /\ t.from = a
        BY <1>5, <1>7, <4>1
      <4> HIDE DEF x
      <4> QED BY <3>1, <4>1
    <3> HIDE DEF e, x
    <3>4. Cardinality(IndicesFrom(new, a)) = IF e + x <= w THEN 0 ELSE (e + x) - w
      BY <3>1, <3>2, <3>3
    <3> QED BY <3>1, <3>4
  <2> QED BY <1>1, <2>1, <2>2 DEF LeftSoFar, W
<1> QED BY <1>6, <1>7

(* A pending transaction is in a block exactly if its nonce is one that    *)
(* the block confirms.                                                     *)
LEMMA ConfirmedByNonce ==
    ASSUME NEW chain \in Seq(Block), NEW p \in Seq(Signed), InOrder(chain, p),
           NEW sel \in Seq(Signed), InOrder(chain, sel), Agree(p, sel),
           NEW reward \in Transaction, reward.from = Coinbase, NEW i \in 1 .. Len(p)
    PROVE  p[i] \in Range(Append(sel, reward))
             <=> p[i].nonce < ConfirmedNonce(chain, p[i].from)
                                + Cardinality(IndicesFrom(sel, p[i].from))
<1> DEFINE t == p[i]
           txs == Append(sel, reward)
           n == Len(sel)
           c == ConfirmedNonce(chain, t.from)
           w == Cardinality(IndicesFrom(sel, t.from))
<1>1. /\ t \in Signed /\ t \in Transaction /\ t.from # Coinbase
      /\ sel \in Seq(Transaction) /\ p \in Seq(Transaction)
  BY SignedSeq, LedgerAssumption DEF Signed
<1>2. t.nonce \in Nat /\ c \in Nat /\ w \in Nat /\ c <= t.nonce
  <2>1. w \in 0 .. n /\ n \in Nat
    BY <1>1, CountSum
  <2>2. c <= t.nonce
    BY <1>1, InOrderRange
  <2> QED BY <1>1, <2>1, <2>2, NonceType, TransactionFields
<1>3. t \in Range(txs) <=> \E k \in 1 .. n : sel[k] = t
  <2>1. /\ DOMAIN txs = 1 .. n + 1 /\ txs[n + 1] = reward /\ n \in Nat
        /\ \A k \in 1 .. n : txs[k] = sel[k] /\ k \in 1 .. n + 1
        /\ \A k \in 1 .. n + 1 : k \in 1 .. n \/ k = n + 1
    BY <1>1
  <2>2. t # reward
    BY <1>1
  <2> HIDE DEF txs, n, t
  <2> QED BY <2>1, <2>2 DEF Range
<1>4. ASSUME NEW k \in 1 .. n, sel[k] = t PROVE t.nonce < c + w
  BY <1>1, <1>4, InOrderRange
<1>5. ASSUME t.nonce < c + w PROVE \E k \in 1 .. n : sel[k] = t
  <2> DEFINE m == t.nonce - c
  <2>1. m \in Nat /\ m < w /\ c + m = t.nonce
    <3> HIDE DEF c, w, t
    <3> QED BY <1>2, <1>5
  <2> HIDE DEF m
  <2>2. PICK k \in 1 .. Len(sel) : sel[k].from = t.from
                                   /\ sel[k].nonce = ConfirmedNonce(chain, t.from) + m
    BY <1>1, <2>1, InOrderCovers
  <2>3. p[i].from = sel[k].from /\ p[i].nonce = sel[k].nonce
    BY <2>1, <2>2
  <2> QED BY <2>2, <2>3 DEF Agree
<1> HIDE DEF t, txs, n, c, w
<1>6. t \in Range(txs) <=> t.nonce < c + w
  BY <1>3, <1>4, <1>5
<1> QED BY <1>6 DEF t, txs, c, w

LEMMA BlockSettlesNonces ==
    ASSUME NEW chain \in Seq(Block), NEW p \in Seq(Signed), InOrder(chain, p),
           NEW sel \in Seq(Signed), InOrder(chain, sel), Agree(p, sel),
           NEW reward \in Transaction, reward.from = Coinbase,
           NEW block \in Block, block.transactions = Append(sel, reward),
           NEW left, left = RemovePending(p, block.transactions)
    PROVE  LeftSoFar(left, Len(p), p, sel, Append(chain, block))
<1> DEFINE n == Len(p)
           after == Append(chain, block)
           keep == Range(p) \ Range(block.transactions)
<1>1. n \in Nat /\ after \in Seq(Block) /\ sel \in Seq(Transaction) /\ p \in Seq(Transaction)
      /\ \A i \in 1 .. n : p[i] \in Signed /\ p[i] \in Range(p)
  <2>1. \A i \in 1 .. n : p[i] \in Range(p)
    BY DEF Range
  <2> QED BY <2>1, SignedSeq
<1>2. \A a \in Address : ConfirmedNonce(after, a)
                          = ConfirmedNonce(chain, a) + Cardinality(IndicesFrom(sel, a))
  <2> TAKE a \in Address
  <2>1. ConfirmedNonce(after, a)
          = ConfirmedNonce(chain, a) + Cardinality(IndicesFrom(block.transactions, a))
    BY NonceAppend
  <2>2. Cardinality(IndicesFrom(block.transactions, a)) = Cardinality(IndicesFrom(sel, a))
    BY CountSigned
  <2> QED BY <2>1, <2>2
<1>3. ASSUME NEW i \in 1 .. n
      PROVE  p[i] \in keep <=> p[i].nonce >= ConfirmedNonce(after, p[i].from)
  <2> DEFINE c == ConfirmedNonce(after, p[i].from)
  <2>1. p[i].from \in Address /\ p[i] \in Transaction
    BY <1>1 DEF Signed
  <2>2. p[i] \in Range(block.transactions) <=> p[i].nonce < c
    BY <1>2, <2>1, ConfirmedByNonce
  <2>3. c \in Nat /\ p[i].nonce \in Nat
    BY <1>1, <2>1, NonceType, TransactionFields
  <2>4. p[i] \in keep <=> ~(p[i].nonce < c)
    BY <1>1, <2>2
  <2> HIDE DEF c, keep
  <2>5. p[i].nonce >= c <=> ~(p[i].nonce < c)
    BY <2>3
  <2> QED BY <2>4, <2>5 DEF c
<1>4. left = Subsequence(p, keep)
  BY DEF RemovePending
<1> HIDE DEF keep, after
<1>5. PICK f : Filters(f, Signed, p, keep) /\ Subsequence(p, keep) = f[n]
  BY SubsequenceDef
<1> DEFINE S == {i \in 0 .. n : LeftSoFar(f[i], i, p, sel, after)}
<1>6. 0 \in S
  <2>1. f[0] = <<>>
    BY <1>5 DEF Filters
  <2>2. \A a \in Address :
          /\ Cardinality(IndicesFrom(<<>>, a)) = 0
          /\ Cardinality(Earlier(p, a, 0)) <= Cardinality(IndicesFrom(sel, a))
    <3> TAKE a \in Address
    <3>1. Cardinality(IndicesFrom(<<>>, a)) = 0
      BY CountNothing
    <3>2. Cardinality(Earlier(p, a, 0)) \in 0 .. 0
      BY EarlierFinite
    <3>3. Cardinality(IndicesFrom(sel, a)) \in 0 .. Len(sel) /\ Len(sel) \in Nat
      BY <1>1, CountSum
    <3> QED BY <3>1, <3>2, <3>3
  <2>3. <<>> \in Seq(Signed) /\ Len(<<>>) <= 0 /\ InOrder(after, <<>>)
    BY DEF InOrder
  <2>4. LeftSoFar(<<>>, 0, p, sel, after)
    BY <2>2, <2>3 DEF LeftSoFar
  <2> QED BY <1>1, <2>1, <2>4
<1>7. ASSUME NEW i \in 1 .. n, i - 1 \in S PROVE i \in S
  <2> DEFINE kept == p[i] \in keep
  <2>1. LeftSoFar(f[i - 1], i - 1, p, sel, after) /\ i \in 0 .. n
    BY <1>1, <1>7
  <2>2. (kept => f[i] = Append(f[i - 1], p[i])) /\ (~kept => f[i] = f[i - 1])
    BY <1>5 DEF Filters
  <2>3. kept \in BOOLEAN /\ (kept <=> p[i].nonce >= ConfirmedNonce(after, p[i].from))
    BY <1>3
  <2> HIDE DEF kept
  <2>4. LeftSoFar(f[i], i, p, sel, after)
    BY <1>1, <1>2, <2>1, <2>2, <2>3, LeftStep
  <2> QED BY <2>1, <2>4
<1>8. \A i \in 0 .. n : i \in S
  <2> HIDE DEF S, n
  <2> QED BY <1>1, <1>6, <1>7, IntervalInduction
<1>9. n \in S
  <2> HIDE DEF S
  <2> QED BY <1>1, <1>8
<1> QED BY <1>4, <1>5, <1>9 DEF after

-----------------------------------------------------------------------------
(* A mempool p as admission leaves it: in order, within its limits, at     *)
(* fees that are still enough.                                             *)
Tidy(chain, p) ==
    /\ InOrder(chain, p)
    /\ Len(p) <= MaxPendingTransactions
    /\ \A a \in Address :
          Cardinality(IndicesFrom(p, a)) <= MaxPendingTransactionsPerSender
    /\ \A j \in 1 .. Len(p) : p[j].fee >= MinimumFee(p[j])

TidyLedger(led) == SoundLedger(led) /\ Tidy(led.chain, led.pendingTransactions)

LEMMA EmptyIsTidy == ASSUME NEW chain PROVE Tidy(chain, <<>>)
<1>1. \A a \in Address : Cardinality(IndicesFrom(<<>>, a)) <= MaxPendingTransactionsPerSender
  BY CountNothing, LedgerAssumption
<1>2. Len(<<>>) <= MaxPendingTransactions
  BY LedgerAssumption
<1> QED BY <1>1, <1>2 DEF Tidy, InOrder

LEMMA AppendIsTidy ==
    ASSUME NEW chain, NEW p \in Seq(Transaction), Tidy(chain, p), NEW t \in Transaction,
           t.nonce = ConfirmedNonce(chain, t.from) + Cardinality(IndicesFrom(p, t.from)),
           Cardinality(IndicesFrom(p, t.from)) < MaxPendingTransactionsPerSender,
           Len(p) < MaxPendingTransactions, t.fee >= MinimumFee(t)
    PROVE  Tidy(chain, Append(p, t))
<1> DEFINE q == Append(p, t)
           n == Len(p)
<1>1. n \in Nat /\ q \in Seq(Transaction) /\ Len(q) = n + 1 /\ q[n + 1] = t
      /\ \A j \in 1 .. n : q[j] = p[j]
  OBVIOUS
<1>2. InOrder(chain, q)
  BY InOrderAppend DEF Tidy
<1>3. Len(q) <= MaxPendingTransactions
  BY <1>1, LedgerAssumption
<1>4. ASSUME NEW a \in Address
      PROVE  Cardinality(IndicesFrom(q, a)) <= MaxPendingTransactionsPerSender
  <2>1. Cardinality(IndicesFrom(q, a))
          = Cardinality(IndicesFrom(p, a)) + (IF t.from = a THEN 1 ELSE 0)
    BY CountAppend
  <2>2. Cardinality(IndicesFrom(p, a)) \in Nat
    BY <1>1, CountSum
  <2>3. Cardinality(IndicesFrom(p, a)) <= MaxPendingTransactionsPerSender
    BY DEF Tidy
  <2>4. CASE t.from = a
    <3>1. Cardinality(IndicesFrom(p, a)) < MaxPendingTransactionsPerSender
      BY <2>4
    <3> QED BY <2>1, <2>2, <2>4, <3>1, LedgerAssumption
  <2>5. CASE t.from # a
    BY <2>1, <2>2, <2>3, <2>5
  <2> QED BY <2>4, <2>5
<1> HIDE DEF q, n
<1>5. ASSUME NEW j \in 1 .. Len(q) PROVE q[j].fee >= MinimumFee(q[j])
  <2>1. CASE j = n + 1
    BY <1>1, <2>1
  <2>2. CASE j # n + 1
    <3>1. j \in 1 .. n
      BY <1>1, <2>2
    <3> QED BY <1>1, <3>1 DEF Tidy, n
  <2> QED BY <2>1, <2>2
<1> QED BY <1>2, <1>3, <1>4, <1>5 DEF Tidy, q

LEMMA ReplaceIsTidy ==
    ASSUME NEW chain, NEW p \in Seq(Transaction), Tidy(chain, p), NEW t \in Transaction,
           t.fee >= MinimumFee(t), NEW q,
           q = [j \in DOMAIN p |-> IF j \in Replaced(p, t) THEN t ELSE p[j]]
    PROVE  Tidy(chain, q)
<1> DEFINE R == Replaced(p, t)
<1>1. R \in SUBSET (1 .. Len(p)) /\ \A j \in R : p[j].from = t.from /\ p[j].nonce = t.nonce
  BY DEF Replaced, IndicesFrom
<1> HIDE DEF R
<1>2. /\ q \in Seq(Transaction) /\ Len(q) = Len(p)
      /\ \A j \in 1 .. Len(p) : (j \in R => q[j] = t) /\ (j \notin R => q[j] = p[j])
  BY DEF R
<1>3. InOrder(chain, q) /\ \A a : IndicesFrom(q, a) = IndicesFrom(p, a)
  <2>1. Replaces(q, p, t)
    BY <1>1, <1>2 DEF Replaces
  <2> QED BY <2>1, InOrderReplace DEF Tidy
<1>4. ASSUME NEW j \in 1 .. Len(q) PROVE q[j].fee >= MinimumFee(q[j])
  <2>1. j \in 1 .. Len(p) /\ (q[j] = t \/ q[j] = p[j])
    BY <1>2, <1>3
  <2> QED BY <2>1 DEF Tidy
<1> QED BY <1>3, <1>4 DEF Tidy

LEMMA AddTransactionKeepsTidy ==
    ASSUME NEW led, TidyLedger(led), NEW t \in Signed
    PROVE  TidyLedger(AddTransaction(led, t))
<1> DEFINE p == led.pendingTransactions
           c == led.chain
           new == AddTransaction(led, t)
<1>1. led \in LedgerState /\ p \in Seq(Transaction) /\ t \in Transaction /\ Tidy(c, p)
      /\ SoundLedger(new)
  BY LedgerFields, AddTransactionKeepsSound DEF TidyLedger, SoundLedger, Signed
<1>2. CASE ~Admissible(led, t)
  BY <1>2 DEF AddTransaction
<1>3. ASSUME NEW q, new = [led EXCEPT !.pendingTransactions = q], Tidy(c, q)
      PROVE  TidyLedger(new)
  <2>1. new.chain = c /\ new.pendingTransactions = q
    <3> HIDE DEF new
    <3> QED BY <1>1, <1>3 DEF LedgerState
  <2> HIDE DEF new, c
  <2>2. Tidy(new.chain, new.pendingTransactions)
    BY <1>3, <2>1
  <2>3. TidyLedger(new)
    BY <1>1, <2>2 DEF TidyLedger
  <2> QED BY <2>3
<1>4. CASE Admissible(led, t)
  <2>1. t.fee >= MinimumFee(t) /\ (Replaced(p, t) = {} => FitsAtTheEnd(led, t))
    BY <1>4 DEF Admissible
  <2>2. CASE Replaced(p, t) = {}
    <3>1. new = [led EXCEPT !.pendingTransactions = Append(p, t)]
      BY <1>4, <2>2 DEF AddTransaction
    <3>2. FitsAtTheEnd(led, t)
      BY <2>1, <2>2
    <3>3. /\ t.nonce = ConfirmedNonce(c, t.from) + Cardinality(IndicesFrom(p, t.from))
          /\ Cardinality(IndicesFrom(p, t.from)) < MaxPendingTransactionsPerSender
          /\ Len(p) < MaxPendingTransactions
      BY <3>2 DEF FitsAtTheEnd, NextNonce
    <3> HIDE DEF p, new, c
    <3>4. Tidy(c, Append(p, t))
      BY <1>1, <2>1, <3>3, AppendIsTidy
    <3> QED BY <1>3, <3>1, <3>4 DEF new
  <2>3. CASE Replaced(p, t) # {}
    <3> DEFINE q == [j \in DOMAIN p |-> IF j \in Replaced(p, t) THEN t ELSE p[j]]
    <3>1. new = [led EXCEPT !.pendingTransactions = q]
      BY <1>4, <2>3 DEF AddTransaction
    <3>2. Tidy(c, q)
      <4> HIDE DEF p, c
      <4> QED BY <1>1, <2>1, ReplaceIsTidy
    <3> HIDE DEF p, new, q, c
    <3> QED BY <1>3, <3>1, <3>2 DEF new
  <2> QED BY <2>2, <2>3
<1> QED BY <1>2, <1>4

(* A block of transactions that agree with the pending ones. *)
LEMMA BlockKeepsTidy ==
    ASSUME NEW chain \in Seq(Block), NEW p \in Seq(Signed), Tidy(chain, p),
           NEW sel \in Seq(Signed), InOrder(chain, sel), Agree(p, sel),
           NEW reward \in Transaction, reward.from = Coinbase,
           NEW block \in Block, block.transactions = Append(sel, reward),
           NEW left, left = RemovePending(p, block.transactions)
    PROVE  Tidy(Append(chain, block), left)
<1> DEFINE after == Append(chain, block)
           n == Len(p)
<1>1. LeftSoFar(left, n, p, sel, after)
  BY BlockSettlesNonces DEF Tidy
<1>2. p \in Seq(Transaction) /\ sel \in Seq(Transaction) /\ n \in Nat
  BY SignedSeq
<1>3. left \in Seq(Signed) /\ Len(left) \in Nat /\ Len(left) <= n /\ InOrder(after, left)
  <2> HIDE DEF after
  <2> QED BY <1>1 DEF LeftSoFar
<1>4. Len(left) <= MaxPendingTransactions
  <2>1. n <= MaxPendingTransactions
    BY DEF Tidy
  <2> QED BY <1>2, <1>3, <2>1, LedgerAssumption
<1>5. ASSUME NEW a \in Address
      PROVE  Cardinality(IndicesFrom(left, a)) <= MaxPendingTransactionsPerSender
  <2> DEFINE x == Cardinality(Earlier(p, a, n))
             w == Cardinality(IndicesFrom(sel, a))
  <2>1. Cardinality(IndicesFrom(left, a)) = IF x <= w THEN 0 ELSE x - w
    BY <1>1 DEF LeftSoFar
  <2>2. IndicesFrom(p, a) = Earlier(p, a, n)
    BY <1>2, CountSum
  <2>3. x <= MaxPendingTransactionsPerSender
    BY <2>2 DEF Tidy
  <2>4. x \in Nat
    BY <1>2, EarlierFinite
  <2>5. w \in 0 .. Len(sel) /\ Len(sel) \in Nat
    BY <1>2, CountSum
  <2> HIDE DEF x, w
  <2> QED BY <2>1, <2>3, <2>4, <2>5, LedgerAssumption
<1>6. ASSUME NEW j \in 1 .. Len(left) PROVE left[j].fee >= MinimumFee(left[j])
  <2> DEFINE keep == Range(p) \ Range(block.transactions)
  <2>1. left = Subsequence(p, keep)
    BY DEF RemovePending
  <2> HIDE DEF keep
  <2>2. left \in Seq(Signed \cap keep)
    BY <2>1, SubsequenceType
  <2>3. left[j] \in Signed \cap keep
    BY <2>2
  <2>4. \E i \in 1 .. n : left[j] = p[i]
    BY <1>2, <2>3 DEF keep, Range
  <2> QED BY <2>4 DEF Tidy
<1> HIDE DEF after
<1>7. Tidy(after, left)
  BY <1>3, <1>4, <1>5, <1>6 DEF Tidy
<1> QED BY <1>7 DEF after

(* Nothing is spent by who has no transaction. *)
LEMMA NoneSpendsNothing ==
    ASSUME NEW txs \in Seq(Transaction), NEW a, Cardinality(IndicesFrom(txs, a)) = 0
    PROVE  Spent(txs, a) = 0
<1> DEFINE m == Weights(Owed(a), txs)
<1>1. IndicesFrom(txs, a) = {}
  BY CountSum, FS_EmptySet
<1>2. \A j \in 1 .. Len(txs) : txs[j] \in Transaction /\ txs[j].from # a
  BY <1>1 DEF IndicesFrom
<1>3. m \in Seq(Int) /\ \A j \in 1 .. Len(m) : m[j] = m[j] + m[j]
  BY <1>2 DEF Owed, Weights
<1> HIDE DEF m
<1>4. SumSeq(m) = SumSeq(m) + SumSeq(m) /\ SumSeq(m) \in Int
  BY <1>3, SumSeqPlus, SumSeqType
<1>5. SumSeq(m) = 0
  BY <1>4
<1> QED BY <1>5, SpentSum DEF m

LEMMA InOrderDistinct ==
    ASSUME NEW chain \in Seq(Block), NEW txs \in Seq(Transaction), InOrder(chain, txs)
    PROVE  Distinct(txs)
BY InOrderOnce DEF Distinct

(* A block of another node, whose transactions agree with the pending      *)
(* ones: the new chain pays for what is left.  The block may spend more of *)
(* a sender than was pending, but then nothing of that sender is left.     *)
LEMMA BlockLeavesPayable ==
    ASSUME NEW chain \in Seq(Block), NEW p \in Seq(Signed), InOrder(chain, p),
           NEW sel \in Seq(Signed), InOrder(chain, sel), Agree(p, sel),
           NEW reward \in Transaction, reward.from = Coinbase,
           NEW block \in Block, block.transactions = Append(sel, reward),
           NEW left, left = RemovePending(p, block.transactions), NEW a \in Address,
           Spent(p, a) <= Balance(chain, a), 0 <= Balance(Append(chain, block), a)
    PROVE  Spent(left, a) <= Balance(Append(chain, block), a)
<1> DEFINE after == Append(chain, block)
           txs == block.transactions
           c == ConfirmedNonce(chain, a)
           x == Cardinality(IndicesFrom(p, a))
           w == Cardinality(IndicesFrom(sel, a))
           s == Spent(sel, a)
           l == Spent(left, a)
           b == Balance(chain, a)
           r == Received(txs, a)
<1>1. /\ p \in Seq(Transaction) /\ sel \in Seq(Transaction) /\ txs \in Seq(Transaction)
      /\ Distinct(p) /\ Distinct(sel) /\ after \in Seq(Block)
  BY SignedSeq, BlockTransactions, InOrderDistinct
<1>2. LeftSoFar(left, Len(p), p, sel, after)
  BY BlockSettlesNonces
<1>3. left \in Seq(Transaction)
  <2> HIDE DEF after
  <2> QED BY <1>2, SignedSeq DEF LeftSoFar
<1>4. c \in Nat /\ x \in Nat /\ w \in Nat
  <2>1. x \in 0 .. Len(p) /\ w \in 0 .. Len(sel)
    BY <1>1, CountSum
  <2>2. Len(p) \in Nat /\ Len(sel) \in Nat
    BY <1>1
  <2> HIDE DEF x, w
  <2> QED BY <2>1, <2>2, NonceType
<1>5. CASE w <= x
  <2>1. ASSUME NEW k \in 1 .. Len(sel), sel[k].from = a
        PROVE  \E j \in 1 .. Len(p) : sel[k] = p[j]
    <3> DEFINE m == sel[k].nonce - c
    <3>1. sel[k] \in Transaction
      BY <1>1
    <3>2. sel[k].nonce \in Nat
      BY <3>1, TransactionFields
    <3>3. c <= sel[k].nonce /\ sel[k].nonce < c + w
      BY <1>1, <2>1, InOrderRange
    <3>4. m \in Nat /\ m < x /\ c + m = sel[k].nonce
      <4> HIDE DEF c, w, x
      <4> QED BY <1>4, <1>5, <3>2, <3>3
    <3> HIDE DEF m
    <3>5. PICK j \in 1 .. Len(p) : p[j].from = a /\ p[j].nonce = ConfirmedNonce(chain, a) + m
      BY <1>1, <3>4, InOrderCovers
    <3>6. p[j].from = sel[k].from /\ p[j].nonce = sel[k].nonce
      BY <2>1, <3>4, <3>5
    <3> QED BY <3>6 DEF Agree
  <2>2. \A k \in 1 .. Len(sel) : sel[k].from # a \/ \E j \in 1 .. Len(p) : sel[k] = p[j]
    BY <2>1
  <2>3. s + l = Spent(p, a)
    BY <1>1, <2>2, SenderSplits
  <2>4. Spent(txs, a) = s
    <3>1. reward.from # a
      BY LedgerAssumption
    <3>2. Spent(Append(sel, reward), a) = Spent(sel, a) + 0
      BY <1>1, <3>1, SpentAppend
    <3>3. Spent(sel, a) \in Nat
      BY <1>1, SpentNat
    <3> QED BY <3>2, <3>3
  <2>5. Balance(after, a) = b + (r - s)
    BY <2>4, BalanceAppend
  <2>6. s \in Nat /\ l \in Nat /\ r \in Nat /\ b \in Int
    <3> HIDE DEF txs
    <3> QED BY <1>1, <1>3, SpentNat, ReceivedNat, BalanceType
  <2>7. s + l <= b
    BY <2>3
  <2> HIDE DEF s, l, r, b
  <2>8. l <= b + (r - s)
    BY <2>6, <2>7
  <2> QED BY <2>5, <2>8 DEF l
<1>6. CASE ~(w <= x)
  <2>1. IndicesFrom(p, a) = Earlier(p, a, Len(p))
    BY <1>1, CountSum
  <2>2. Cardinality(IndicesFrom(left, a)) =
          IF Cardinality(Earlier(p, a, Len(p))) <= Cardinality(IndicesFrom(sel, a)) THEN 0
          ELSE Cardinality(Earlier(p, a, Len(p))) - Cardinality(IndicesFrom(sel, a))
    <3> HIDE DEF after
    <3> QED BY <1>2 DEF LeftSoFar
  <2>3. x <= w
    <3> HIDE DEF x, w
    <3> QED BY <1>4, <1>6
  <2>4. Cardinality(IndicesFrom(left, a)) = 0
    BY <2>1, <2>2, <2>3
  <2>5. Spent(left, a) = 0
    BY <1>3, <2>4, NoneSpendsNothing
  <2> QED BY <2>5
<1> QED BY <1>5, <1>6

(* minePendingTransactions, whatever it takes of the mempool. *)
LEMMA MineKeepsTidy ==
    ASSUME NEW led, TidyLedger(led), NEW miner \in Miner, NEW now \in Nat \ {0}
    PROVE  TidyLedger(MinePendingTransactions(led, miner, now))
<1> DEFINE p == led.pendingTransactions
           c == led.chain
           block == NextBlock(led, miner, now)
           left == RemovePending(p, block.transactions)
           new == MinePendingTransactions(led, miner, now)
<1>1. SoundLedger(led) /\ SoundLedger(new) /\ Tidy(c, p)
  BY MineKeepsSound DEF TidyLedger
<1>2. p \in Seq(Signed) /\ p \in Seq(Transaction) /\ c \in Seq(Block) /\ InOrder(c, p)
  BY <1>1, AcceptableSeq, LedgerFields DEF SoundLedger, Tidy
<1>3. PICK sel, reward : sel \in Orders(led) /\ MadeOf(c, block, sel, reward)
  BY <1>1, NextBlockMade
<1>4. block \in Block
  BY <1>1, NextBlockMade
<1>5. new.chain = Append(c, block) /\ new.pendingTransactions = left
  BY DEF MinePendingTransactions
<1> HIDE DEF block
<1>6. /\ sel \in Seq(Signed) /\ InOrder(c, sel) /\ reward \in Transaction
      /\ reward.from = Coinbase /\ block.transactions = Append(sel, reward)
  BY <1>3 DEF MadeOf
<1>7. \A k \in 1 .. Len(sel) : \E j \in 1 .. Len(p) : sel[k] = p[j]
  BY <1>3 DEF Orders, Selections
<1> HIDE DEF p, c, new
<1>8. Agree(p, sel)
  <2> SUFFICES ASSUME NEW i \in 1 .. Len(p), NEW k \in 1 .. Len(sel),
                      p[i].from = sel[k].from, p[i].nonce = sel[k].nonce
               PROVE  p[i] = sel[k]
    BY DEF Agree
  <2>1. PICK j \in 1 .. Len(p) : sel[k] = p[j]
    BY <1>7
  <2>2. i = j
    BY <1>2, <2>1, InOrderOnce
  <2> QED BY <2>1, <2>2
<1>9. Tidy(Append(c, block), left)
  BY <1>1, <1>2, <1>4, <1>6, <1>8, BlockKeepsTidy
<1>10. TidyLedger(new)
  BY <1>1, <1>5, <1>9 DEF TidyLedger
<1> QED BY <1>10 DEF new

TidyLedgers == {led \in LedgerState : TidyLedger(led)}

LEMMA TidyIsPreserved == Preserved(TidyLedgers, Signed)
<1>1. ASSUME NEW led \in TidyLedgers, NEW t \in Signed
      PROVE  AddTransaction(led, t) \in TidyLedgers
  <2>1. TidyLedger(AddTransaction(led, t))
    BY AddTransactionKeepsTidy DEF TidyLedgers
  <2> QED BY <2>1 DEF TidyLedgers, TidyLedger, SoundLedger
<1> QED BY <1>1 DEF Preserved

LEMMA ReadmissionKeepsTidy ==
    ASSUME NEW base, TidyLedger(base), NEW txs \in Seq(Signed)
    PROVE  TidyLedger(Readmission(base, txs)[Len(txs)])
<1>1. base \in TidyLedgers
  BY DEF TidyLedgers, TidyLedger, SoundLedger
<1>2. Readmits(Readmission(base, txs), base, txs, TidyLedgers)
  BY <1>1, TidyIsPreserved, ReadmissionRuns
<1>3. Len(txs) \in 0 .. Len(txs)
  OBVIOUS
<1>4. Readmission(base, txs)[Len(txs)] \in TidyLedgers
  BY <1>2, <1>3 DEF Readmits
<1> QED BY <1>4 DEF TidyLedgers

LEMMA FreshLedgerIsTidy == TidyLedger(FreshLedger)
BY FreshLedgerIsSound, EmptyIsTidy DEF TidyLedger, FreshLedger

LEMMA LoadKeepsTidy ==
    ASSUME NEW file, SoundLedger(file)
    PROVE  TidyLedger(LoadState(file))
<1> DEFINE base == LoadBase(file)
           p == file.pendingTransactions
<1>1. p \in Seq(Signed)
  BY AcceptableSeq DEF SoundLedger
<1>2. TidyLedger(base)
  <2>1. SoundLedger(base)
    BY LoadBaseIsSound
  <2>2. base.pendingTransactions = <<>>
    BY DEF LoadBase
  <2>3. Tidy(base.chain, base.pendingTransactions)
    BY <2>2, EmptyIsTidy
  <2> HIDE DEF base
  <2> QED BY <2>1, <2>3 DEF TidyLedger
<1> HIDE DEF base, p
<1>3. TidyLedger(Readmission(base, p)[Len(p)])
  BY <1>1, <1>2, ReadmissionKeepsTidy
<1> QED BY <1>3, FreshLedgerIsTidy DEF LoadState, base, p

-----------------------------------------------------------------------------
(* Work. *)

LEMMA PowerType ==
    ASSUME NEW n \in Nat
    PROVE  PowerOfTwo(n) \in Nat \ {0}
<1> DEFINE Z == Nat \ {0}
           F == CHOOSE g : g = [i \in 0 .. n |-> IF i = 0 THEN 1 ELSE 2 * g[i - 1]]
           step == [i \in 1 .. n |-> [x \in Z |-> 2 * x]]
<1>1. 1 \in Z /\ step \in [1 .. n -> [Z -> Z]]
  OBVIOUS
<1>2. PICK f : Iterates(f, Z, 1, n, step)
  <2> HIDE DEF step, F, Z
  <2> QED BY <1>1, IterationExists
<1>3. f = [i \in 0 .. n |-> IF i = 0 THEN 1 ELSE 2 * f[i - 1]]
  <2>1. ASSUME NEW i \in 1 .. n PROVE f[i] = 2 * f[i - 1]
    <3>1. f[i - 1] \in Z /\ f[i] = step[i][f[i - 1]]
      <4> HIDE DEF step, Z
      <4> QED BY <1>2 DEF Iterates
    <3> QED BY <3>1
  <2> QED BY <1>2, <2>1 DEF Iterates
<1>4. F = [i \in 0 .. n |-> IF i = 0 THEN 1 ELSE 2 * F[i - 1]]
  BY <1>3
<1>5. PowerOfTwo(n) = F[n]
  BY DEF PowerOfTwo
<1> HIDE DEF F
<1>6. F[0] = 1 /\ \A i \in 1 .. n : F[i] = 2 * F[i - 1]
  BY <1>4
<1>7. Iterates(F, Z, 1, n, step)
  <2>1. \A i \in 1 .. n : F[i - 1] \in Z => F[i] = step[i][F[i - 1]]
    BY <1>6
  <2>2. F = [i \in 0 .. n |-> F[i]] /\ F[0] = 1
    BY <1>4, <1>6
  <2> HIDE DEF step, Z
  <2> QED BY <1>1, <2>1, <2>2, IterationTyped
<1> QED BY <1>5, <1>7 DEF Iterates

Works(chain) == [i \in DOMAIN chain |-> PowerOfTwo(chain[i].difficulty)]

LEMMA WorksType ==
    ASSUME NEW chain \in Seq(Block)
    PROVE  /\ Works(chain) \in Seq(Int) /\ Len(Works(chain)) = Len(chain)
           /\ \A i \in 1 .. Len(chain) : Works(chain)[i] = PowerOfTwo(chain[i].difficulty)
<1>1. \A i \in 1 .. Len(chain) : chain[i] \in Block
  OBVIOUS
<1>2. \A i \in 1 .. Len(chain) : PowerOfTwo(chain[i].difficulty) \in Int
  BY <1>1, BlockTransactions, PowerType
<1>3. Len(chain) \in Nat /\ DOMAIN chain = 1 .. Len(chain)
  OBVIOUS
<1> QED BY <1>2, <1>3 DEF Works

(* Every block adds work. *)
LEMMA WorkAppend ==
    ASSUME NEW chain \in Seq(Block), NEW block \in Block
    PROVE  ChainWork(Append(chain, block)) > ChainWork(chain)
<1> DEFINE x == PowerOfTwo(block.difficulty)
           s == Works(chain)
           u == Append(chain, block)
           v == Append(s, x)
           n == Len(chain)
<1>1. s \in Seq(Int) /\ Len(s) = n /\ n \in Nat
  BY WorksType
<1>2. u \in Seq(Block) /\ DOMAIN u = 1 .. n + 1 /\ Len(u) = n + 1 /\ u[n + 1] = block
      /\ (\A i \in 1 .. n : u[i] = chain[i])
  OBVIOUS
<1>3. x \in Nat \ {0}
  BY BlockTransactions, PowerType
<1>4. v \in Seq(Int) /\ Len(v) = n + 1 /\ v[n + 1] = x /\ \A i \in 1 .. n : v[i] = s[i]
  <2> HIDE DEF s, x, n
  <2> QED BY <1>1, <1>3
<1>5. Works(u) = v
  <2>1. Works(u)[n + 1] = x
    BY <1>1, <1>2 DEF Works
  <2>2. \A i \in 1 .. n : Works(u)[i] = s[i]
    BY <1>2 DEF Works
  <2>3. Works(u) = [i \in 1 .. n + 1 |-> Works(u)[i]]
    BY <1>2 DEF Works
  <2> HIDE DEF u, s, x, n
  <2>4. \A i \in 1 .. n + 1 : Works(u)[i] = v[i]
    BY <1>1, <1>4, <2>1, <2>2
  <2>5. v = [i \in 1 .. n + 1 |-> v[i]]
    <3> HIDE DEF v
    <3> QED BY <1>1, <1>4
  <2> HIDE DEF v
  <2> QED BY <2>3, <2>4, <2>5
<1>6. SumSeq(v) = SumSeq(s) + x /\ SumSeq(s) \in Int
  <2> HIDE DEF s, x
  <2> QED BY <1>1, <1>3, SumSeqAppend, SumSeqType
<1> HIDE DEF x
<1>7. SumSeq(v) > SumSeq(s)
  BY <1>3, <1>6
<1> QED BY <1>5, <1>7 DEF ChainWork, Works

-----------------------------------------------------------------------------
(* Data transactions of a sender. *)

LEMMA DataFinite ==
    ASSUME NEW p \in Seq(Transaction), NEW a
    PROVE  /\ DataIndicesFrom(p, a) = {j \in 1 .. Len(p) : p[j].from = a /\ p[j].type = "data"}
           /\ IsFiniteSet(DataIndicesFrom(p, a))
           /\ Cardinality(DataIndicesFrom(p, a)) \in Nat
<1>1. DataIndicesFrom(p, a) = {j \in 1 .. Len(p) : p[j].from = a /\ p[j].type = "data"}
  BY DEF DataIndicesFrom, IndicesFrom
<1>2. DataIndicesFrom(p, a) \in SUBSET (1 .. Len(p)) /\ Len(p) \in Nat
  BY <1>1
<1>3. IsFiniteSet(1 .. Len(p))
  BY <1>2, FS_Interval
<1>4. IsFiniteSet(DataIndicesFrom(p, a))
  BY <1>2, <1>3, FS_Subset
<1> QED BY <1>1, <1>4, FS_CardinalityType

(* What is kept of a mempool has no more of them. *)
LEMMA DataLeft ==
    ASSUME NEW p \in Seq(Transaction), NEW q \in Seq(Transaction), Distinct(q),
           \A k \in 1 .. Len(q) : \E j \in 1 .. Len(p) : q[k] = p[j], NEW a
    PROVE  Cardinality(DataIndicesFrom(q, a)) <= Cardinality(DataIndicesFrom(p, a))
<1> DEFINE S == DataIndicesFrom(q, a)
           T == DataIndicesFrom(p, a)
           f == [k \in S |-> CHOOSE j \in T : p[j] = q[k]]
<1>1. ASSUME NEW k \in S PROVE \E j \in T : p[j] = q[k]
  <2>1. k \in 1 .. Len(q) /\ q[k].from = a /\ q[k].type = "data"
    BY DataFinite
  <2>2. PICK j \in 1 .. Len(p) : q[k] = p[j]
    BY <2>1
  <2>3. j \in T
    BY <2>1, <2>2, DataFinite
  <2> QED BY <2>2, <2>3
<1>2. \A k \in S : k \in 1 .. Len(q)
  BY DataFinite
<1> HIDE DEF S, T
<1>3. \A k \in S : f[k] \in T /\ p[f[k]] = q[k]
  BY <1>1
<1>4. f \in [S -> T]
  BY <1>3
<1> HIDE DEF f
<1>5. ASSUME NEW h \in S, NEW k \in S, f[h] = f[k] PROVE h = k
  <2>1. q[h] = q[k]
    BY <1>3, <1>5
  <2> QED BY <1>2, <2>1 DEF Distinct
<1>6. f \in Injection(S, T)
  BY <1>4, <1>5 DEF Injection, IsInjective
<1>7. IsFiniteSet(T)
  BY DataFinite DEF T
<1> QED BY <1>6, <1>7, FS_Injection DEF S, T

LEMMA DataAppend ==
    ASSUME NEW p \in Seq(Transaction), NEW t \in Transaction, NEW a
    PROVE  /\ Cardinality(DataIndicesFrom(Append(p, t), a))
                <= Cardinality(DataIndicesFrom(p, a)) + 1
           /\ t.type # "data" \/ t.from # a
                => DataIndicesFrom(Append(p, t), a) = DataIndicesFrom(p, a)
<1> DEFINE q == Append(p, t)
           n == Len(p)
           S == DataIndicesFrom(q, a)
           T == DataIndicesFrom(p, a)
<1>1. /\ q \in Seq(Transaction) /\ Len(q) = n + 1 /\ n \in Nat /\ q[n + 1] = t
      /\ \A j \in 1 .. n : q[j] = p[j]
  OBVIOUS
<1> HIDE DEF q, n
<1>2. S = {j \in 1 .. n + 1 : q[j].from = a /\ q[j].type = "data"}
  BY <1>1, DataFinite
<1>3. T = {j \in 1 .. n : p[j].from = a /\ p[j].type = "data"}
  BY DataFinite DEF n
<1>4. IsFiniteSet(T) /\ Cardinality(T) \in Nat
  BY DataFinite
<1> HIDE DEF S, T
<1>5. \A j \in 1 .. n + 1 : j = n + 1 \/ j \in 1 .. n
  BY <1>1
<1>6. n + 1 \in 1 .. n + 1 /\ \A j \in 1 .. n : j \in 1 .. n + 1
  BY <1>1
<1>7. S = T \/ S = T \cup {n + 1}
  <2>1. \A j \in 1 .. n : j \in S <=> j \in T
    BY <1>1, <1>2, <1>3, <1>6
  <2>2. \A j \in S : j \in 1 .. n + 1
    BY <1>2
  <2>3. \A j \in T : j \in 1 .. n
    BY <1>3
  <2>4. CASE n + 1 \in S
    <3>1. S = T \cup {n + 1}
      BY <1>5, <2>1, <2>2, <2>3, <2>4
    <3> QED BY <3>1
  <2>5. CASE n + 1 \notin S
    <3>1. S = T
      BY <1>5, <2>1, <2>2, <2>3, <2>5
    <3> QED BY <3>1
  <2> QED BY <2>4, <2>5
<1>8. n + 1 \notin T
  BY <1>1, <1>3
<1>9. Cardinality(T \cup {n + 1}) = Cardinality(T) + 1
  BY <1>4, <1>8, FS_AddElement
<1>10. Cardinality(S) <= Cardinality(T) + 1
  <2>1. CASE S = T
    <3> DEFINE x == Cardinality(T)
    <3>1. Cardinality(S) = x
      BY <2>1
    <3> HIDE DEF x
    <3>2. x \in Nat
      BY <1>4 DEF x
    <3> QED BY <3>1, <3>2 DEF x
  <2>2. CASE S = T \cup {n + 1}
    <3> DEFINE x == Cardinality(T)
               y == Cardinality(T \cup {n + 1})
    <3>1. Cardinality(S) = y
      BY <2>2
    <3>2. x \in Nat /\ y = x + 1
      BY <1>4, <1>9
    <3> HIDE DEF x, y
    <3>3. y <= x + 1
      BY <3>2
    <3> QED BY <3>1, <3>3 DEF x
  <2> QED BY <1>7, <2>1, <2>2
<1>11. t.type # "data" \/ t.from # a => S = T
  <2>1. n + 1 \in S => t.from = a /\ t.type = "data"
    BY <1>1, <1>2
  <2> QED BY <1>7, <2>1
<1> QED BY <1>10, <1>11 DEF S, T, q

(* The limit on data transactions.  A replacement is not held to it. *)
DataCapped(p) ==
    \A a \in Address :
        Cardinality(DataIndicesFrom(p, a)) <= MaxPendingDataTransactionsPerSender

LEMMA EmptyIsCapped == DataCapped(<<>>)
<1>1. ASSUME NEW a PROVE Cardinality(DataIndicesFrom(<<>>, a)) = 0
  <2>1. DataIndicesFrom(<<>>, a) = {}
    BY DEF DataIndicesFrom, IndicesFrom
  <2> QED BY <2>1, FS_EmptySet
<1>2. 0 <= MaxPendingDataTransactionsPerSender
  BY LedgerAssumption
<1> QED BY <1>1, <1>2 DEF DataCapped

LEMMA RemoveIsCapped ==
    ASSUME NEW p \in Seq(Transaction), Distinct(p), DataCapped(p), NEW txs
    PROVE  DataCapped(RemovePending(p, txs))
<1> DEFINE keep == Range(p) \ Range(txs)
           q == Subsequence(p, keep)
<1>1. \A x \in keep : \E j \in 1 .. Len(p) : x = p[j]
  BY DEF Range
<1> HIDE DEF keep
<1>2. q \in Seq(Transaction) /\ q \in Seq(Transaction \cap keep) /\ Distinct(q)
  BY SubsequenceType, SubsequenceDistinct
<1> HIDE DEF q
<1>3. \A k \in 1 .. Len(q) : \E j \in 1 .. Len(p) : q[k] = p[j]
  <2> TAKE k \in 1 .. Len(q)
  <2>1. q[k] \in keep
    BY <1>2
  <2> QED BY <1>1, <2>1
<1>4. ASSUME NEW a \in Address
      PROVE  Cardinality(DataIndicesFrom(q, a)) <= MaxPendingDataTransactionsPerSender
  <2>1. Cardinality(DataIndicesFrom(q, a)) <= Cardinality(DataIndicesFrom(p, a))
    BY <1>2, <1>3, DataLeft
  <2>2. Cardinality(DataIndicesFrom(q, a)) \in Nat /\ Cardinality(DataIndicesFrom(p, a)) \in Nat
    BY <1>2, DataFinite
  <2>3. Cardinality(DataIndicesFrom(p, a)) <= MaxPendingDataTransactionsPerSender
    BY DEF DataCapped
  <2> QED BY <2>1, <2>2, <2>3, LedgerAssumption
<1> QED BY <1>4 DEF DataCapped, RemovePending, q, keep

LEMMA AppendIsCapped ==
    ASSUME NEW led, NEW p \in Seq(Transaction), p = led.pendingTransactions, DataCapped(p),
           NEW t \in Transaction, FitsAtTheEnd(led, t)
    PROVE  DataCapped(Append(p, t))
<1> DEFINE M == MaxPendingDataTransactionsPerSender
<1> SUFFICES ASSUME NEW a \in Address
             PROVE  Cardinality(DataIndicesFrom(Append(p, t), a)) <= M
  BY DEF DataCapped
<1> DEFINE x == Cardinality(DataIndicesFrom(p, a))
           y == Cardinality(DataIndicesFrom(Append(p, t), a))
<1>1. x \in Nat /\ y \in Nat /\ M \in Nat /\ x <= M
  <2>1. Append(p, t) \in Seq(Transaction)
    OBVIOUS
  <2> QED BY <2>1, DataFinite, LedgerAssumption DEF DataCapped
<1>2. y <= x + 1 /\ (t.type # "data" \/ t.from # a => y = x)
  BY DataAppend
<1>3. t.type = "data" /\ t.from = a => x < M
  BY DEF FitsAtTheEnd
<1> HIDE DEF x, y, M
<1>4. y <= M
  BY <1>1, <1>2, <1>3
<1> QED BY <1>4 DEF y

-----------------------------------------------------------------------------
(* What becomes of a pending transaction. *)

LEMMA AppendRange ==
    ASSUME NEW T, NEW p \in Seq(T), NEW t
    PROVE  t \in Range(Append(p, t)) /\ \A x \in Range(p) : x \in Range(Append(p, t))
<1> DEFINE q == Append(p, t)
           n == Len(p)
<1>1. /\ DOMAIN p = 1 .. n /\ DOMAIN q = 1 .. n + 1 /\ n \in Nat /\ q[n + 1] = t
      /\ \A j \in 1 .. n : q[j] = p[j]
  OBVIOUS
<1> HIDE DEF q, n
<1>2. n + 1 \in 1 .. n + 1 /\ \A j \in 1 .. n : j \in 1 .. n + 1
  BY <1>1
<1> QED BY <1>1, <1>2 DEF Range, q

(* A block removes only what it holds. *)
LEMMA RemoveLeaves ==
    ASSUME NEW T, NEW p \in Seq(T), NEW txs, NEW t \in Range(p), t \notin Range(txs)
    PROVE  t \in Range(RemovePending(p, txs))
<1> DEFINE keep == Range(p) \ Range(txs)
           left == Subsequence(p, keep)
<1>1. t \in keep
  OBVIOUS
<1>2. PICK j \in 1 .. Len(p) : p[j] = t
  BY DEF Range
<1> HIDE DEF keep
<1>3. \E k \in 1 .. Len(left) : left[k] = t
  BY <1>1, <1>2, SubsequenceCovers
<1>4. left \in Seq(T)
  BY SubsequenceType
<1> HIDE DEF left
<1>5. t \in Range(left)
  BY <1>3, <1>4 DEF Range
<1> QED BY <1>5 DEF RemovePending, left, keep

(* An admission drops only what it outbids. *)
LEMMA AddOutbids ==
    ASSUME NEW led \in LedgerState, NEW t, NEW x \in Range(led.pendingTransactions)
    PROVE  LET q == AddTransaction(led, t).pendingTransactions
           IN  \/ x \in Range(q)
               \/ \E u \in Range(q) : /\ u.from = x.from /\ u.nonce = x.nonce
                                     /\ u.fee >= x.fee + MinReplacementFeeBump
<1> DEFINE p == led.pendingTransactions
           n == Len(p)
           new == AddTransaction(led, t)
           R == Replaced(p, t)
<1>1. p \in Seq(Transaction) /\ DOMAIN p = 1 .. n
  BY DEF LedgerState
<1>2. PICK j \in 1 .. n : p[j] = x
  BY <1>1 DEF Range
<1>3. CASE ~Admissible(led, t)
  BY <1>3 DEF AddTransaction
<1>4. CASE Admissible(led, t) /\ R = {}
  <2>1. new = [led EXCEPT !.pendingTransactions = Append(@, t)]
    BY <1>4 DEF AddTransaction
  <2>2. new.pendingTransactions = Append(p, t)
    BY <2>1 DEF LedgerState
  <2>3. x \in Range(Append(p, t))
    BY <1>1, AppendRange
  <2> QED BY <2>2, <2>3
<1>5. CASE Admissible(led, t) /\ R # {}
  <2> DEFINE q == [k \in 1 .. n |-> IF k \in R THEN t ELSE p[k]]
  <2>1. new = [led EXCEPT !.pendingTransactions = [k \in DOMAIN @ |-> IF k \in Replaced(@, t) THEN t ELSE @[k]]]
    BY <1>5 DEF AddTransaction
  <2>2. new.pendingTransactions = q
    BY <1>1, <2>1 DEF LedgerState
  <2>3. DOMAIN q = 1 .. n /\ q[j] = IF j \in R THEN t ELSE p[j]
    OBVIOUS
  <2> HIDE DEF q, R
  <2>4. q[j] \in Range(q)
    BY <2>3 DEF Range
  <2>5. j \in R => t.from = x.from /\ t.nonce = x.nonce /\ t.fee >= x.fee + MinReplacementFeeBump
    BY <1>2, <1>5 DEF Admissible, OutbidsReplaced, Replaced, IndicesFrom, R
  <2> HIDE DEF new
  <2>6. \/ x \in Range(q)
        \/ \E u \in Range(q) : /\ u.from = x.from /\ u.nonce = x.nonce
                              /\ u.fee >= x.fee + MinReplacementFeeBump
    BY <1>2, <2>3, <2>4, <2>5
  <2> QED BY <2>2, <2>6 DEF new
<1> QED BY <1>3, <1>4, <1>5

-----------------------------------------------------------------------------
(* What a saved ledger needs, besides what admission has checked, for      *)
(* loadState to take it back: receivers that are addresses, since          *)
(* isValidChain asks for them and POST /mine does not, and no more data    *)
(* transactions of a sender than admission at the end allows, which a      *)
(* replacement is not held to.                                             *)
Reloadable(led) ==
    /\ ReceiversKnown(led.chain)
    /\ \A a \in Address :
          Cardinality(DataIndicesFrom(led.pendingTransactions, a))
              <= MaxPendingDataTransactionsPerSender

(* The ledger that reload has reached after i of the pending transactions. *)
Reloaded(file, i) ==
    [chain |-> file.chain, pendingTransactions |-> SubSeq(file.pendingTransactions, 1, i),
     difficulty |-> file.difficulty]

LEMMA SpentPrefix ==
    ASSUME NEW p \in Seq(Transaction), NEW a, NEW i \in 0 .. Len(p)
    PROVE  Spent(SubSeq(p, 1, i), a) <= Spent(p, a)
<1> DEFINE n == Len(p)
           V(k) == Spent(SubSeq(p, 1, k), a)
           S == {k \in 0 .. n : i <= k => V(i) <= V(k)}
<1>1. n \in Nat /\ \A k \in 0 .. n : SubSeq(p, 1, k) \in Seq(Transaction)
  BY Beginnings
<1>2. \A k \in 0 .. n : V(k) \in Nat
  BY <1>1, SpentNat
<1>3. 0 \in S
  <2>1. i <= 0 => i = 0
    OBVIOUS
  <2>2. V(0) <= V(0)
    <3> HIDE DEF V
    <3> QED BY <1>1, <1>2
  <2> HIDE DEF V
  <2> QED BY <1>1, <2>1, <2>2
<1>4. ASSUME NEW k \in 1 .. n, k - 1 \in S PROVE k \in S
  <2>1. k - 1 \in 0 .. n /\ k \in 0 .. n /\ p[k] \in Transaction
    BY <1>1
  <2>2. SubSeq(p, 1, k) = Append(SubSeq(p, 1, k - 1), p[k])
    BY PrefixAppend
  <2>3. V(k) = V(k - 1) + (IF p[k].from = a THEN Cost(p[k]) ELSE 0)
    BY <1>1, <2>1, <2>2, SpentAppend
  <2>4. Cost(p[k]) \in Nat
    BY <2>1, TransactionFields DEF Cost
  <2>5. V(k) >= V(k - 1) /\ V(k) \in Nat /\ V(k - 1) \in Nat /\ V(i) \in Nat
    <3> HIDE DEF V
    <3> QED BY <1>2, <2>1, <2>3, <2>4
  <2>6. i <= k - 1 => V(i) <= V(k - 1)
    BY <1>4
  <2> HIDE DEF V
  <2>7. ASSUME i <= k PROVE V(i) <= V(k)
    <3>1. CASE i = k
      BY <2>5, <3>1
    <3>2. CASE i # k
      <4>1. i <= k - 1
        BY <2>1, <2>7, <3>2
      <4> QED BY <2>5, <2>6, <4>1
    <3> QED BY <3>1, <3>2
  <2> QED BY <2>1, <2>7
<1>5. \A k \in 0 .. n : k \in S
  <2> HIDE DEF S, n
  <2> QED BY <1>1, <1>3, <1>4, IntervalInduction
<1>6. n \in S
  <2> HIDE DEF S
  <2> QED BY <1>1, <1>5
<1>7. V(i) <= V(n)
  <2> HIDE DEF V
  <2> QED BY <1>1, <1>6
<1> QED BY <1>7, PrefixWhole

(* Where nothing is replaced, all that is pending is reserved. *)
LEMMA ReservedIsSpent ==
    ASSUME NEW p \in Seq(Transaction), NEW t, Replaced(p, t) = {}
    PROVE  ReservedBy(p, t) = Spent(p, t.from)
BY DEF ReservedBy, Spent

(* loadState puts each pending transaction through admission, over what it *)
(* has taken already.                                                      *)
LEMMA ReloadAdmits ==
    ASSUME NEW file, GoodLedger(file), TidyLedger(file), Reloadable(file),
           NEW i \in 1 .. Len(file.pendingTransactions)
    PROVE  /\ Admissible(Reloaded(file, i - 1), file.pendingTransactions[i])
           /\ AddTransaction(Reloaded(file, i - 1), file.pendingTransactions[i])
                = Reloaded(file, i)
<1> DEFINE p == file.pendingTransactions
           c == file.chain
           n == Len(p)
           q == SubSeq(p, 1, i - 1)
           t == p[i]
           a == t.from
           led == Reloaded(file, i - 1)
           b == Balance(c, a)
<1>1. /\ p \in Seq(Acceptable) /\ p \in Seq(Transaction) /\ n \in Nat /\ c \in Seq(Block)
      /\ t \in Acceptable /\ t \in Transaction /\ a \in Address /\ IsValidTransaction(t)
      /\ InOrder(c, p) /\ ProperChain(c) /\ Distinct(p)
  <2>1. p \in Seq(Acceptable) /\ ProperChain(c) /\ Tidy(c, p)
    BY DEF TidyLedger, SoundLedger
  <2>2. p \in Seq(Transaction) /\ t \in Acceptable /\ IsValidTransaction(t)
    BY <2>1, AcceptableSeq
  <2>3. t \in Transaction /\ a \in Address
    BY <2>2 DEF Acceptable, Signed
  <2>4. InOrder(c, p)
    BY <2>1 DEF Tidy
  <2>5. Distinct(p)
    BY DEF GoodLedger
  <2>6. n \in Nat /\ c \in Seq(Block)
    BY <2>1 DEF ProperChain
  <2> QED BY <2>1, <2>2, <2>3, <2>4, <2>5, <2>6
<1>2. led.chain = c /\ led.pendingTransactions = q
  BY DEF Reloaded
<1>3. i - 1 \in 0 .. n /\ i - 1 \in Nat /\ (i - 1) + 1 = i /\ i \in 0 .. n /\ i <= n
  BY <1>1
<1>4. q \in Seq(Transaction) /\ Len(q) = i - 1 /\ \A j \in 1 .. i - 1 : q[j] = p[j]
  <2> HIDE DEF p
  <2> QED BY <1>1, <1>3, Beginnings
<1>5. \A j \in 1 .. i - 1 : j \in 1 .. n /\ j # i
  BY <1>1
<1> HIDE DEF p, c, q, t, led
<1>6. Replaced(q, t) = {}
  <2> SUFFICES ASSUME NEW j \in Replaced(q, t) PROVE FALSE
    OBVIOUS
  <2>1. j \in 1 .. i - 1 /\ q[j].from = t.from /\ q[j].nonce = t.nonce
    BY <1>4 DEF Replaced, IndicesFrom
  <2>2. j \in 1 .. Len(p) /\ i \in 1 .. Len(p) /\ p[j].from = p[i].from /\ p[j].nonce = p[i].nonce /\ j # i
    BY <1>4, <1>5, <2>1 DEF t, p
  <2> QED BY <1>1, <2>2, InOrderOnce
<1>7. IndicesFrom(q, a) = Earlier(p, a, i - 1)
  BY <1>4 DEF IndicesFrom, Earlier
<1>8. t.nonce = ConfirmedNonce(c, a) + Cardinality(IndicesFrom(q, a))
  <2>1. i \in 1 .. Len(p)
    BY DEF p
  <2> QED BY <1>1, <1>7, <2>1 DEF InOrder, t
<1>9. ~HasTransactionInChain(c, t)
  <2>1. ConfirmedNonce(c, a) \in Nat
    BY <1>1, NonceType
  <2>2. Cardinality(IndicesFrom(q, a)) \in Nat
    BY <1>3, <1>7, EarlierFinite
  <2>3. ~(t.nonce < ConfirmedNonce(c, a))
    BY <1>8, <2>1, <2>2
  <2>4. ~UsedUp(c, t)
    BY <1>1, <2>3 DEF UsedUp
  <2> QED BY <1>1, <2>4, FreshIsNotInChain
<1>10. \A j \in DOMAIN q : q[j] # t
  <2>1. i \in 1 .. Len(p) /\ DOMAIN q = 1 .. i - 1 /\ n = Len(p)
    BY <1>4 DEF p
  <2> QED BY <1>1, <1>4, <1>5, <2>1 DEF Distinct, t
<1>11. t.fee >= MinimumFee(t)
  BY DEF TidyLedger, Tidy, t, p
<1>12. Cardinality(IndicesFrom(q, a)) < MaxPendingTransactionsPerSender
  <2>1. Cardinality(Earlier(p, a, i)) = Cardinality(Earlier(p, a, i - 1)) + 1
    <3>1. Cardinality(Earlier(p, a, (i - 1) + 1))
            = Cardinality(Earlier(p, a, i - 1)) + (IF p[(i - 1) + 1].from = a THEN 1 ELSE 0)
      BY <1>3, EarlierStep
    <3>2. p[i].from = a
      BY DEF t
    <3> QED BY <1>3, <3>1, <3>2
  <2>2. Cardinality(Earlier(p, a, i)) <= Cardinality(Earlier(p, a, n))
    BY <1>1, <1>3, EarlierMonotone
  <2>3. Earlier(p, a, n) = IndicesFrom(p, a)
    BY <1>1, CountSum
  <2>4. Cardinality(IndicesFrom(p, a)) <= MaxPendingTransactionsPerSender
    BY <1>1 DEF TidyLedger, Tidy, p
  <2>5. /\ Cardinality(Earlier(p, a, i)) \in Nat /\ Cardinality(Earlier(p, a, i - 1)) \in Nat
        /\ Cardinality(Earlier(p, a, n)) \in Nat
    BY <1>1, <1>3, EarlierFinite
  <2> QED BY <1>7, <2>1, <2>2, <2>3, <2>4, <2>5, LedgerAssumption
<1>13. ASSUME t.type = "data"
       PROVE  Cardinality(DataIndicesFrom(q, a)) < MaxPendingDataTransactionsPerSender
  <2> DEFINE D == DataIndicesFrom(p, a)
             E == DataIndicesFrom(q, a)
  <2>1. i \in D
    BY <1>1, <1>13 DEF DataIndicesFrom, IndicesFrom, t, p
  <2>2. IsFiniteSet(D)
    <3>1. D \in SUBSET IndicesFrom(p, a)
      BY DEF DataIndicesFrom
    <3>2. IsFiniteSet(IndicesFrom(p, a))
      BY <1>1, CountSum
    <3> QED BY <3>1, <3>2, FS_Subset
  <2>3. E \in SUBSET (D \ {i})
    <3> SUFFICES ASSUME NEW j \in E PROVE j \in D \ {i}
      OBVIOUS
    <3>1. j \in 1 .. i - 1 /\ q[j].from = a /\ q[j].type = "data"
      BY <1>4 DEF DataIndicesFrom, IndicesFrom
    <3>2. j \in DOMAIN p /\ p[j].from = a /\ p[j].type = "data" /\ j # i
      <4>1. j \in 1 .. n /\ j # i /\ q[j] = p[j]
        BY <1>4, <1>5, <3>1
      <4>2. DOMAIN p = 1 .. n
        BY <1>1
      <4> QED BY <3>1, <4>1, <4>2
    <3> QED BY <3>2 DEF DataIndicesFrom, IndicesFrom
  <2>4. Cardinality(D) <= MaxPendingDataTransactionsPerSender
    BY <1>1 DEF Reloadable, p
  <2> HIDE DEF D, E
  <2>5. IsFiniteSet(D \ {i}) /\ Cardinality(D \ {i}) = Cardinality(D) - 1
    BY <2>1, <2>2, FS_RemoveElement
  <2>6. Cardinality(E) <= Cardinality(D \ {i}) /\ IsFiniteSet(E)
    BY <2>3, <2>5, FS_Subset
  <2>7. Cardinality(E) \in Nat /\ Cardinality(D) \in Nat
    BY <2>2, <2>6, FS_CardinalityType
  <2> QED BY <2>4, <2>5, <2>6, <2>7, LedgerAssumption DEF E
<1>14. Len(q) < MaxPendingTransactions
  <2>1. n <= MaxPendingTransactions
    BY DEF TidyLedger, Tidy, p
  <2> QED BY <1>1, <1>3, <1>4, <2>1, LedgerAssumption
<1>15. FitsAtTheEnd(led, t)
  BY <1>2, <1>8, <1>12, <1>13, <1>14 DEF FitsAtTheEnd, NextNonce
<1>16. b - ReservedBy(q, t) >= Cost(t)
  <2>1. ReservedBy(q, t) = Spent(q, a)
    BY <1>4, <1>6, ReservedIsSpent
  <2>2. SubSeq(p, 1, i) = Append(q, t)
    BY <1>1, PrefixAppend DEF q, t, p
  <2>3. Spent(SubSeq(p, 1, i), a) = Spent(q, a) + Cost(t)
    <3>1. Spent(Append(q, t), a) = Spent(q, a) + (IF t.from = a THEN Cost(t) ELSE 0)
      BY <1>1, <1>4, SpentAppend
    <3> QED BY <2>2, <3>1
  <2>4. Spent(SubSeq(p, 1, i), a) <= Spent(p, a)
    <3>1. i \in 0 .. Len(p)
      BY <1>3 DEF p
    <3> QED BY <1>1, <3>1, SpentPrefix
  <2>5. Spent(p, a) <= b
    BY <1>1 DEF GoodLedger, Funded, p, c
  <2>6. Spent(q, a) \in Nat /\ Spent(p, a) \in Nat /\ Cost(t) \in Nat /\ b \in Int
    <3>1. Cost(t) \in Nat
      BY <1>1, TransactionFields DEF Cost
    <3> QED BY <1>1, <1>4, <3>1, SpentNat, BalanceType
  <2> HIDE DEF b, a
  <2> QED BY <2>1, <2>3, <2>4, <2>5, <2>6
<1>17. Admissible(led, t)
  BY <1>1, <1>2, <1>6, <1>9, <1>10, <1>11, <1>15, <1>16 DEF Admissible
<1>18. AddTransaction(led, t) = Reloaded(file, i)
  <2>1. AddTransaction(led, t) = [led EXCEPT !.pendingTransactions = Append(q, t)]
    BY <1>2, <1>6, <1>17 DEF AddTransaction
  <2>2. SubSeq(p, 1, i) = Append(q, t)
    BY <1>1, PrefixAppend DEF q, t, p
  <2>3. led = [chain |-> c, pendingTransactions |-> q, difficulty |-> file.difficulty]
    BY DEF led, Reloaded, c, q, p
  <2>4. [led EXCEPT !.pendingTransactions = Append(q, t)]
          = [chain |-> c, pendingTransactions |-> Append(q, t), difficulty |-> file.difficulty]
    BY <2>3
  <2> QED BY <2>1, <2>2, <2>4 DEF Reloaded, c, p
<1> QED BY <1>17, <1>18 DEF led, t, p

(* loadState gives back what was saved. *)
LEMMA LoadKeepsLedger ==
    ASSUME NEW file, GoodLedger(file), TidyLedger(file), Reloadable(file)
    PROVE  LoadState(file) = file
<1> DEFINE p == file.pendingTransactions
           n == Len(p)
           base == LoadBase(file)
           run == Readmission(base, p)
           S == {i \in 0 .. n : run[i] = Reloaded(file, i)}
<1>1. /\ SoundLedger(file) /\ file \in LedgerState /\ p \in Seq(Signed) /\ n \in Nat
      /\ ProperChain(file.chain)
  BY AcceptableSeq DEF TidyLedger, SoundLedger
<1>2. base \in SoundLedgers /\ base = Reloaded(file, 0)
  <2>1. SoundLedger(base) /\ base.difficulty = file.difficulty
    BY <1>1, LoadBaseIsSound
  <2>2. base = [chain |-> file.chain, pendingTransactions |-> <<>>, difficulty |-> base.difficulty]
    BY DEF LoadBase
  <2>3. SubSeq(p, 1, 0) = <<>>
    BY <1>1
  <2>4. base = Reloaded(file, 0)
    BY <2>1, <2>2, <2>3 DEF Reloaded
  <2> HIDE DEF base
  <2> QED BY <2>1, <2>4 DEF SoundLedgers, SoundLedger
<1>3. Readmits(run, base, p, SoundLedgers)
  <2> HIDE DEF base, p
  <2> QED BY <1>1, <1>2, SoundIsPreserved, ReadmissionRuns
<1> HIDE DEF run
<1>4. 0 \in S
  <2>1. run[0] = base
    BY <1>3 DEF Readmits
  <2> QED BY <1>1, <1>2, <2>1
<1>5. ASSUME NEW i \in 1 .. n, i - 1 \in S PROVE i \in S
  <2>1. run[i] = AddTransaction(run[i - 1], p[i])
    BY <1>3 DEF Readmits
  <2>2. run[i - 1] = Reloaded(file, i - 1) /\ i \in 0 .. n
    BY <1>1, <1>5
  <2>3. run[i] = Reloaded(file, i)
    BY <2>1, <2>2, ReloadAdmits
  <2> QED BY <2>2, <2>3
<1>6. \A i \in 0 .. n : i \in S
  <2> HIDE DEF S, n
  <2> QED BY <1>1, <1>4, <1>5, IntervalInduction
<1>7. \A i \in 0 .. n : run[i] = Reloaded(file, i)
  BY <1>6
<1>8. ASSUME NEW i \in 1 .. n PROVE Admissible(run[i - 1], p[i])
  <2>1. i - 1 \in 0 .. n
    BY <1>1
  <2>2. run[i - 1] = Reloaded(file, i - 1)
    BY <1>7, <2>1
  <2> QED BY <2>2, ReloadAdmits
<1>9. Loads(file)
  <2>1. IsValidChain(file.chain)
    BY <1>1, ProperIsValid DEF Reloadable
  <2>2. DOMAIN p = 1 .. n
    BY <1>1
  <2> QED BY <1>8, <2>1, <2>2 DEF Loads, run
<1>10. run[n] = file
  <2>1. n \in 0 .. n
    BY <1>1
  <2>2. run[n] = Reloaded(file, n)
    BY <1>7, <2>1
  <2>3. SubSeq(p, 1, n) = p
    BY <1>1, PrefixWhole
  <2>4. file = [chain |-> file.chain, pendingTransactions |-> p, difficulty |-> file.difficulty]
    BY <1>1 DEF LedgerState
  <2> QED BY <2>2, <2>3, <2>4 DEF Reloaded
<1> QED BY <1>9, <1>10 DEF LoadState, run
-----------------------------------------------------------------------------
(* Money. *)

(* e names every address, and none twice. *)
Enumerates(e) ==
    /\ e \in Seq(Address)
    /\ \A a \in Address : \E k \in 1 .. Len(e) :
          e[k] = a /\ \A l \in 1 .. Len(e) : e[l] = a => l = k

(* What a transaction changes for an address, and for all of them together *)
(* where its receiver is one: the fee is gone, a reward is new.            *)
Gain(a) == [t \in Transaction |-> Paid(a)[t] - Owed(a)[t]]
Minted == [t \in Transaction |-> IF t.from \in Address THEN 0 - t.fee ELSE t.amount]

LEMMA GainType == ASSUME NEW a PROVE Gain(a) \in [Transaction -> Int]
<1>1. \A t \in Transaction : Paid(a)[t] \in Nat /\ Owed(a)[t] \in Nat
  BY PaidType, OwedType
<1> QED BY <1>1 DEF Gain

LEMMA MintedType == Minted \in [Transaction -> Int]
<1>1. \A t \in Transaction : t.fee \in Nat /\ t.amount \in Nat
  BY TransactionFields
<1> QED BY <1>1 DEF Minted

LEMMA GainSum ==
    ASSUME NEW a, NEW txs \in Seq(Transaction)
    PROVE  Received(txs, a) - Spent(txs, a) = SumSeq(Weights(Gain(a), txs))
<1> DEFINE g == Weights(Gain(a), txs)
           p == Weights(Paid(a), txs)
           o == Weights(Owed(a), txs)
           n == Len(txs)
<1>1. /\ g \in Seq(Int) /\ Len(g) = n /\ \A j \in 1 .. n : g[j] = Gain(a)[txs[j]]
      /\ p \in Seq(Int) /\ Len(p) = n /\ \A j \in 1 .. n : p[j] = Paid(a)[txs[j]]
      /\ o \in Seq(Int) /\ Len(o) = n /\ \A j \in 1 .. n : o[j] = Owed(a)[txs[j]]
  <2>1. g \in Seq(Int) /\ Len(g) = n /\ \A j \in 1 .. n : g[j] = Gain(a)[txs[j]]
    BY GainType, WeightsType
  <2>2. p \in Seq(Int) /\ Len(p) = n /\ \A j \in 1 .. n : p[j] = Paid(a)[txs[j]]
    BY PaidType, WeightsType
  <2>3. o \in Seq(Int) /\ Len(o) = n /\ \A j \in 1 .. n : o[j] = Owed(a)[txs[j]]
    BY OwedType, WeightsType
  <2> HIDE DEF g, p, o
  <2> QED BY <2>1, <2>2, <2>3
<1>2. ASSUME NEW j \in 1 .. n PROVE p[j] = g[j] + o[j]
  <2>1. txs[j] \in Transaction
    OBVIOUS
  <2>2. Paid(a)[txs[j]] \in Nat /\ Owed(a)[txs[j]] \in Nat
    BY <2>1, PaidType, OwedType
  <2>3. Gain(a)[txs[j]] = Paid(a)[txs[j]] - Owed(a)[txs[j]]
    BY <2>1 DEF Gain
  <2> HIDE DEF g, p, o
  <2> QED BY <1>1, <2>2, <2>3
<1> HIDE DEF g, p, o, n
<1>3. SumSeq(p) = SumSeq(g) + SumSeq(o)
  BY <1>1, <1>2, SumSeqPlus
<1>4. SumSeq(p) = Received(txs, a) /\ SumSeq(o) = Spent(txs, a)
  BY ReceivedSum, SpentSum DEF p, o
<1>5. SumSeq(g) \in Int /\ SumSeq(o) \in Int
  BY <1>1, SumSeqType
<1> QED BY <1>3, <1>4, <1>5 DEF g

LEMMA GainShared ==
    ASSUME NEW e, Enumerates(e), NEW t \in Transaction, t.to \in Address
    PROVE  SumSeq([k \in 1 .. Len(e) |-> Gain(e[k])[t]]) = Minted[t]
<1> DEFINE n == Len(e)
           g == [k \in 1 .. n |-> Gain(e[k])[t]]
           p == [k \in 1 .. n |-> Paid(e[k])[t]]
           o == [k \in 1 .. n |-> Owed(e[k])[t]]
<1>1. /\ n \in Nat
      /\ \A k \in 1 .. n : Gain(e[k])[t] \in Int /\ Paid(e[k])[t] \in Int /\ Owed(e[k])[t] \in Int
  BY GainType, PaidType, OwedType DEF Enumerates
<1>2. /\ g \in Seq(Int) /\ Len(g) = n
      /\ p \in Seq(Int) /\ Len(p) = n
      /\ o \in Seq(Int) /\ Len(o) = n
      /\ \A k \in 1 .. n : g[k] = Gain(e[k])[t] /\ p[k] = Paid(e[k])[t] /\ o[k] = Owed(e[k])[t]
  BY <1>1
<1>3. /\ \A k \in 1 .. n : p[k] = IF t.to = e[k] THEN t.amount ELSE 0
      /\ \A k \in 1 .. n : o[k] = IF t.from = e[k] THEN Cost(t) ELSE 0
      /\ \A k \in 1 .. n : g[k] = p[k] - o[k]
  BY <1>2 DEF Gain, Paid, Owed
<1> HIDE DEF g, p, o, n
<1>4. SumSeq(p) = SumSeq(g) + SumSeq(o)
  <2>1. g \in Seq(Int) /\ o \in Seq(Int) /\ p \in Seq(Int) /\ Len(o) = Len(g) /\ Len(p) = Len(g)
    BY <1>2
  <2>2. ASSUME NEW k \in 1 .. Len(g) PROVE p[k] = g[k] + o[k]
    <3>1. k \in 1 .. n /\ p[k] \in Int /\ o[k] \in Int
      BY <1>1, <1>2
    <3> QED BY <1>3, <3>1
  <2> QED BY <2>1, <2>2, SumSeqPlus
<1>5. SumSeq(p) = t.amount
  <2>1. PICK c \in 1 .. n : e[c] = t.to /\ \A l \in 1 .. n : e[l] = t.to => l = c
    BY DEF Enumerates, n
  <2>2. p[c] = t.amount /\ \A k \in 1 .. n : k # c => p[k] = 0
    BY <1>3, <2>1
  <2> QED BY <1>2, <2>2, SumSeqSingle
<1>6. SumSeq(o) = IF t.from \in Address THEN Cost(t) ELSE 0
  <2>1. CASE t.from \in Address
    <3>1. PICK c \in 1 .. n : e[c] = t.from /\ \A l \in 1 .. n : e[l] = t.from => l = c
      BY <2>1 DEF Enumerates, n
    <3>2. o[c] = Cost(t) /\ \A k \in 1 .. n : k # c => o[k] = 0
      BY <1>3, <3>1
    <3> QED BY <1>2, <2>1, <3>2, SumSeqSingle
  <2>2. CASE t.from \notin Address
    <3>1. \A k \in 1 .. n : e[k] \in Address
      BY DEF Enumerates, n
    <3>2. \A k \in 1 .. n : o[k] = 0
      BY <1>3, <2>2, <3>1
    <3> QED BY <1>2, <2>2, <3>2, SumSeqZeros
  <2> QED BY <2>1, <2>2
<1>7. SumSeq(g) \in Int /\ t.amount \in Nat /\ t.fee \in Nat
  BY <1>2, SumSeqType, TransactionFields
<1>8. SumSeq(g) = IF t.from \in Address THEN 0 - t.fee ELSE t.amount
  BY <1>4, <1>5, <1>6, <1>7 DEF Cost
<1> QED BY <1>8 DEF Minted, g, n

(* What a block changes for all addresses together. *)
LEMMA BlockGains ==
    ASSUME NEW e, Enumerates(e), NEW txs \in Seq(Transaction),
           \A j \in 1 .. Len(txs) : txs[j].to \in Address
    PROVE  SumSeq([k \in 1 .. Len(e) |-> Received(txs, e[k]) - Spent(txs, e[k])])
              = SumSeq(Weights(Minted, txs))
<1> DEFINE n == Len(e)
           m == Len(txs)
           M == [k \in 1 .. n |-> Weights(Gain(e[k]), txs)]
<1>1. n \in Nat /\ m \in Nat /\ \A j \in 1 .. m : txs[j] \in Transaction /\ txs[j].to \in Address
  BY DEF Enumerates
<1>2. ASSUME NEW k \in 1 .. n
      PROVE  /\ M[k] \in [1 .. m -> Int]
             /\ SumSeq(M[k]) = Received(txs, e[k]) - Spent(txs, e[k])
             /\ \A j \in 1 .. m : M[k][j] = Gain(e[k])[txs[j]]
  <2> DEFINE w == Weights(Gain(e[k]), txs)
  <2>1. w \in Seq(Int) /\ Len(w) = m /\ \A j \in 1 .. m : w[j] = Gain(e[k])[txs[j]]
    BY GainType, WeightsType
  <2>2. SumSeq(w) = Received(txs, e[k]) - Spent(txs, e[k])
    BY GainSum
  <2>3. M[k] = w
    OBVIOUS
  <2> HIDE DEF w, m, M
  <2>4. w \in [1 .. m -> Int]
    BY <2>1
  <2> QED BY <2>1, <2>2, <2>3, <2>4
<1>3. M \in [1 .. n -> [1 .. m -> Int]]
  <2>1. M = [k \in 1 .. n |-> M[k]]
    OBVIOUS
  <2> HIDE DEF M, n, m
  <2> QED BY <1>2, <2>1
<1> HIDE DEF M, n, m
<1>4. SumSeq([k \in 1 .. n |-> SumSeq(M[k])])
        = SumSeq([j \in 1 .. m |-> SumSeq([k \in 1 .. n |-> M[k][j]])])
  BY <1>1, <1>3, SumSeqSwap
<1>5. [k \in 1 .. n |-> SumSeq(M[k])]
        = [k \in 1 .. n |-> Received(txs, e[k]) - Spent(txs, e[k])]
  BY <1>2
<1>6. ASSUME NEW j \in 1 .. m
      PROVE  SumSeq([k \in 1 .. n |-> M[k][j]]) = Minted[txs[j]]
  <2>1. [k \in 1 .. n |-> M[k][j]] = [k \in 1 .. n |-> Gain(e[k])[txs[j]]]
    BY <1>2
  <2>2. SumSeq([k \in 1 .. n |-> Gain(e[k])[txs[j]]]) = Minted[txs[j]]
    BY <1>1, GainShared DEF n
  <2> QED BY <2>1, <2>2
<1>7. [j \in 1 .. m |-> SumSeq([k \in 1 .. n |-> M[k][j]])] = Weights(Minted, txs)
  BY <1>6 DEF Weights, m
<1> QED BY <1>4, <1>5, <1>7 DEF n

(* A block that minePendingTransactions makes mints the reward of its      *)
(* height: the fees that its reward transaction pays as well are those its *)
(* other transactions lose.                                                *)
LEMMA BlockMints ==
    ASSUME NEW chain, NEW block, NEW sel, NEW reward, MadeOf(chain, block, sel, reward),
           Len(chain) \in Nat
    PROVE  SumSeq(Weights(Minted, block.transactions)) = MiningReward(Len(chain))
<1> DEFINE w == Weights(Minted, sel)
           f == [j \in DOMAIN sel |-> sel[j].fee]
<1>1. /\ sel \in Seq(Transaction) /\ reward \in Transaction
      /\ block.transactions = Append(sel, reward)
      /\ reward.from \notin Address /\ reward.fee = 0
      /\ reward.amount = MiningReward(Len(chain)) + Fees(sel)
      /\ \A j \in 1 .. Len(sel) : sel[j] \in Transaction /\ sel[j].from \in Address
  BY SignedSeq, LedgerAssumption DEF MadeOf, Signed
<1>2. w \in Seq(Int) /\ Len(w) = Len(sel) /\ \A j \in 1 .. Len(sel) : w[j] = 0 - sel[j].fee
  <2>1. w \in Seq(Int) /\ Len(w) = Len(sel) /\ \A j \in 1 .. Len(sel) : w[j] = Minted[sel[j]]
    <3>1. sel \in Seq(Transaction)
      BY <1>1
    <3> QED BY <3>1, MintedType, WeightsType
  <2>2. \A j \in 1 .. Len(sel) : Minted[sel[j]] = 0 - sel[j].fee
    BY <1>1 DEF Minted
  <2> QED BY <2>1, <2>2
<1>3. \A j \in 1 .. Len(sel) : sel[j].fee \in Nat
  BY <1>1, TransactionFields
<1>4. f \in Seq(Int) /\ Len(f) = Len(sel) /\ \A j \in 1 .. Len(sel) : f[j] = sel[j].fee
  BY <1>1, <1>3
<1>5. Fees(sel) = SumSeq(f)
  BY DEF Fees
<1>6. SumSeq(w) + SumSeq(f) = 0
  <2> DEFINE z == [j \in 1 .. Len(sel) |-> 0]
  <2>1. z \in Seq(Int) /\ Len(z) = Len(sel) /\ \A j \in 1 .. Len(sel) : z[j] = 0
    BY <1>1
  <2> HIDE DEF z, w, f
  <2>2. ASSUME NEW j \in 1 .. Len(sel) PROVE z[j] = w[j] + f[j]
    <3>1. sel[j].fee \in Nat /\ z[j] = 0 /\ w[j] = 0 - sel[j].fee /\ f[j] = sel[j].fee
      BY <1>2, <1>3, <1>4, <2>1
    <3> QED BY <3>1
  <2>3. SumSeq(z) = SumSeq(w) + SumSeq(f)
    BY <1>2, <1>4, <2>1, <2>2, SumSeqPlus
  <2>4. SumSeq(z) = 0
    BY <2>1, SumSeqZeros
  <2> QED BY <2>3, <2>4
<1> HIDE DEF w, f
<1>7. SumSeq(Weights(Minted, Append(sel, reward))) = SumSeq(w) + Minted[reward]
  BY <1>1, MintedType, WeightsAppend DEF w
<1>8. Minted[reward] = reward.amount
  BY <1>1 DEF Minted
<1>9. SumSeq(w) \in Int /\ SumSeq(f) \in Int /\ MiningReward(Len(chain)) \in Nat
  BY <1>2, <1>4, SumSeqType, MiningRewardType
<1> QED BY <1>1, <1>5, <1>6, <1>7, <1>8, <1>9

(* ... and its reward transaction, the only one that nobody signed, pays   *)
(* this reward and the fees.                                               *)
LEMMA ProperBlockMints ==
    ASSUME NEW chain, ProperChain(chain), NEW i \in 1 .. Len(chain)
    PROVE  LET txs == chain[i].transactions
           IN  /\ txs \in Seq(Transaction)
               /\ SumSeq(Weights(Minted, txs)) = MiningReward(i - 1)
               /\ SumSeq([j \in DOMAIN txs |->
                      IF txs[j].from = Coinbase THEN txs[j].amount ELSE 0])
                    = MiningReward(i - 1) + Fees(txs)
<1> DEFINE txs == chain[i].transactions
           w == Weights(Minted, txs)
           f == [j \in DOMAIN txs |-> txs[j].fee]
           c == [j \in DOMAIN txs |-> IF txs[j].from = Coinbase THEN txs[j].amount ELSE 0]
<1>1. chain \in Seq(Block) /\ Len(chain) \in Nat /\ chain[1] = Genesis /\ chain[i] \in Block
  BY DEF ProperChain
<1>2. txs \in Seq(Transaction)
  BY <1>1, BlockTransactions
<1>3. /\ SumSeq(w) = MiningReward(i - 1)
      /\ \A j \in 1 .. Len(txs) : txs[j].from \in Address
                                   \/ (txs[j].from = Coinbase /\ txs[j].fee = 0)
  <2>1. CASE i = 1
    <3>1. txs = <<>>
      BY <1>1, <2>1, GenesisBlock
    <3>2. Weights(Minted, <<>>) = <<>>
      BY DEF Weights
    <3>3. MiningReward(0) = 0
      BY DEF MiningReward
    <3> HIDE DEF txs
    <3>4. SumSeq(w) = 0 /\ Len(txs) = 0
      BY <3>1, <3>2, SumSeqEmpty
    <3> HIDE DEF w
    <3> QED BY <2>1, <3>3, <3>4
  <2>2. CASE i # 1
    <3> DEFINE before == SubSeq(chain, 1, i - 1)
    <3>1. i \in 2 .. Len(chain) /\ i - 1 \in 0 .. Len(chain) /\ i - 1 \in Nat
      BY <1>1, <2>2
    <3>2. Len(before) = i - 1
      BY <1>1, <3>1, Beginnings
    <3>3. Follows(before, chain[i])
      BY <3>1 DEF ProperChain
    <3> HIDE DEF before
    <3>4. PICK sel, reward : MadeOf(before, chain[i], sel, reward)
      BY <3>3 DEF Follows
    <3>5. SumSeq(w) = MiningReward(i - 1)
      BY <3>1, <3>2, <3>4, BlockMints
    <3>6. /\ sel \in Seq(Signed) /\ txs = Append(sel, reward)
          /\ reward.from = Coinbase /\ reward.fee = 0
      BY <3>4 DEF MadeOf
    <3> HIDE DEF txs, w
    <3>7. \A j \in 1 .. Len(sel) : sel[j].from \in Address
      BY <3>6, SignedSeq DEF Signed
    <3>8. /\ Len(txs) = Len(sel) + 1 /\ Len(sel) \in Nat /\ txs[Len(sel) + 1] = reward
          /\ \A j \in 1 .. Len(sel) : txs[j] = sel[j]
      BY <3>6
    <3>9. \A j \in 1 .. Len(txs) : j = Len(sel) + 1 \/ j \in 1 .. Len(sel)
      BY <3>8
    <3> QED BY <3>5, <3>6, <3>7, <3>8, <3>9
  <2> QED BY <2>1, <2>2
<1> HIDE DEF txs
<1>4. DOMAIN txs = 1 .. Len(txs) /\ Len(txs) \in Nat
      /\ \A j \in 1 .. Len(txs) : txs[j] \in Transaction /\ txs[j].fee \in Nat
                                   /\ txs[j].amount \in Nat
  BY <1>2, TransactionFields
<1>5. w \in Seq(Int) /\ Len(w) = Len(txs) /\ \A j \in 1 .. Len(txs) : w[j] = Minted[txs[j]]
  BY <1>2, MintedType, WeightsType
<1>6. f \in Seq(Int) /\ Len(f) = Len(w) /\ \A j \in 1 .. Len(txs) : f[j] = txs[j].fee
  <2> HIDE DEF w
  <2> QED BY <1>4, <1>5
<1>7. /\ c \in Seq(Int) /\ Len(c) = Len(w)
      /\ \A j \in 1 .. Len(txs) :
            c[j] = IF txs[j].from = Coinbase THEN txs[j].amount ELSE 0
  <2> HIDE DEF w
  <2> QED BY <1>4, <1>5
<1>8. Fees(txs) = SumSeq(f)
  BY DEF Fees
<1> HIDE DEF w, f, c
<1>9. ASSUME NEW j \in 1 .. Len(w) PROVE c[j] = w[j] + f[j]
  <2>1. j \in 1 .. Len(txs) /\ txs[j] \in Transaction /\ Coinbase \notin Address
    BY <1>4, <1>5, LedgerAssumption
  <2>2. w[j] = IF txs[j].from \in Address THEN 0 - txs[j].fee ELSE txs[j].amount
    BY <1>5, <2>1 DEF Minted
  <2>3. /\ txs[j].fee \in Nat /\ txs[j].amount \in Nat /\ f[j] = txs[j].fee
        /\ c[j] = IF txs[j].from = Coinbase THEN txs[j].amount ELSE 0
    BY <1>4, <1>6, <1>7, <2>1
  <2>4. CASE txs[j].from \in Address
    BY <2>1, <2>2, <2>3, <2>4
  <2>5. CASE txs[j].from = Coinbase /\ txs[j].fee = 0
    BY <2>1, <2>2, <2>3, <2>5
  <2> QED BY <1>3, <2>1, <2>4, <2>5
<1>10. SumSeq(c) = SumSeq(w) + SumSeq(f)
  BY <1>5, <1>6, <1>7, <1>9, SumSeqPlus
<1>11. SumSeq(c) = MiningReward(i - 1) + Fees(txs)
  BY <1>3, <1>8, <1>10
<1> QED BY <1>2, <1>3, <1>11 DEF txs, w, c

(* All balances together: the rewards of all heights. *)
LEMMA BalancesTotal ==
    ASSUME NEW e, Enumerates(e), NEW chain, ProperChain(chain), ReceiversKnown(chain)
    PROVE  SumSeq([k \in 1 .. Len(e) |-> Balance(chain, e[k])])
              = SumSeq([i \in 1 .. Len(chain) |-> MiningReward(i - 1)])
<1> DEFINE n == Len(e)
           m == Len(chain)
           M == [k \in 1 .. n |-> Nets(chain, e[k])]
<1>1. n \in Nat /\ m \in Nat /\ chain \in Seq(Block) /\ DOMAIN chain = 1 .. m
  BY DEF Enumerates, ProperChain
<1>2. ASSUME NEW k \in 1 .. n
      PROVE  /\ M[k] \in [1 .. m -> Int]
             /\ SumSeq(M[k]) = Balance(chain, e[k])
             /\ \A i \in 1 .. m : M[k][i] = Received(chain[i].transactions, e[k])
                                               - Spent(chain[i].transactions, e[k])
  <2> DEFINE w == Nets(chain, e[k])
  <2>1. w \in Seq(Int) /\ Len(w) = m
    BY <1>1, NetsType
  <2>2. SumSeq(w) = Balance(chain, e[k])
    BY DEF Nets, Balance
  <2>3. \A i \in 1 .. m : w[i] = Received(chain[i].transactions, e[k])
                                    - Spent(chain[i].transactions, e[k])
    BY <1>1 DEF Nets
  <2>4. M[k] = w
    OBVIOUS
  <2> HIDE DEF w, m, M
  <2>5. w \in [1 .. m -> Int]
    BY <2>1
  <2> QED BY <2>2, <2>3, <2>4, <2>5
<1>3. M \in [1 .. n -> [1 .. m -> Int]]
  <2>1. M = [k \in 1 .. n |-> M[k]]
    OBVIOUS
  <2> HIDE DEF M, n, m
  <2> QED BY <1>2, <2>1
<1> HIDE DEF M, n, m
<1>4. SumSeq([k \in 1 .. n |-> SumSeq(M[k])])
        = SumSeq([i \in 1 .. m |-> SumSeq([k \in 1 .. n |-> M[k][i]])])
  BY <1>1, <1>3, SumSeqSwap
<1>5. [k \in 1 .. n |-> SumSeq(M[k])] = [k \in 1 .. n |-> Balance(chain, e[k])]
  BY <1>2
<1>6. ASSUME NEW i \in 1 .. m
      PROVE  SumSeq([k \in 1 .. n |-> M[k][i]]) = MiningReward(i - 1)
  <2> DEFINE txs == chain[i].transactions
  <2>1. /\ txs \in Seq(Transaction) /\ SumSeq(Weights(Minted, txs)) = MiningReward(i - 1)
    BY ProperBlockMints DEF m
  <2>2. \A j \in 1 .. Len(txs) : txs[j].to \in Address
    BY DEF ReceiversKnown, m
  <2>3. [k \in 1 .. n |-> M[k][i]]
          = [k \in 1 .. n |-> Received(txs, e[k]) - Spent(txs, e[k])]
    BY <1>2
  <2> HIDE DEF txs
  <2>4. SumSeq([k \in 1 .. n |-> Received(txs, e[k]) - Spent(txs, e[k])])
          = SumSeq(Weights(Minted, txs))
    BY <2>1, <2>2, BlockGains DEF n
  <2> QED BY <2>1, <2>3, <2>4
<1>7. [i \in 1 .. m |-> SumSeq([k \in 1 .. n |-> M[k][i]])]
        = [i \in 1 .. m |-> MiningReward(i - 1)]
  BY <1>6
<1> QED BY <1>4, <1>5, <1>7 DEF n, m

-----------------------------------------------------------------------------
(* The order of the loop and the blocks.  What a block leaves is taken in  *)
(* the order in which it would have been taken: the filtered mempool has   *)
(* the same first among the same eligible ones, and the nonces that the    *)
(* chain counts now are those the loop counted before.                     *)

LEMMA ConcatGrows ==
    ASSUME NEW T, NEW u \in Seq(T), NEW v \in Seq(T), NEW x \in T
    PROVE  /\ u \o v \in Seq(T)
           /\ u \o <<>> = u
           /\ u \o Append(v, x) = Append(u \o v, x)
OBVIOUS

LEMMA CountConcat ==
    ASSUME NEW a, NEW u \in Seq(Transaction), NEW v \in Seq(Transaction)
    PROVE  Cardinality(IndicesFrom(u \o v, a))
             = Cardinality(IndicesFrom(u, a)) + Cardinality(IndicesFrom(v, a))
<1> DEFINE n == Len(v)
           front(i) == SubSeq(v, 1, i)
           count(s) == Cardinality(IndicesFrom(s, a))
           S == {i \in 0 .. n : count(u \o front(i)) = count(u) + count(front(i))}
<1>1. n \in Nat /\ \A i \in 0 .. n : front(i) \in Seq(Transaction)
  BY Beginnings
<1>2. \A s \in Seq(Transaction) : count(s) \in Nat
  <2>1. ASSUME NEW s \in Seq(Transaction) PROVE count(s) \in Nat
    <3>1. Cardinality(IndicesFrom(s, a)) \in 0 .. Len(s)
      BY CountSum
    <3> QED BY <3>1
  <2> QED BY <2>1
<1>3. 0 \in S
  <2>1. front(0) = <<>> /\ u \o <<>> = u
    OBVIOUS
  <2>2. count(<<>>) = 0
    BY CountNothing
  <2>3. count(u) = count(u) + 0
    BY <1>2
  <2>4. count(u \o front(0)) = count(u) + count(front(0))
    <3> HIDE DEF front, count
    <3> QED BY <2>1, <2>2, <2>3
  <2> HIDE DEF front, count
  <2> QED BY <1>1, <2>4
<1>4. ASSUME NEW i \in 1 .. n, i - 1 \in S PROVE i \in S
  <2>1. i - 1 \in 0 .. n /\ i \in 0 .. n /\ v[i] \in Transaction
    BY <1>1
  <2>2. front(i) = Append(front(i - 1), v[i])
    BY PrefixAppend
  <2> DEFINE s == front(i - 1)
             x == v[i]
             one == IF x.from = a THEN 1 ELSE 0
  <2>3. s \in Seq(Transaction) /\ x \in Transaction /\ one \in Nat
    BY <1>1, <2>1
  <2>4. count(u \o s) = count(u) + count(s)
    BY <1>4
  <2> HIDE DEF front, s, x
  <2>5. u \o Append(s, x) = Append(u \o s, x) /\ u \o s \in Seq(Transaction)
    BY <2>3, ConcatGrows
  <2>6. count(Append(u \o s, x)) = count(u \o s) + one
    BY <2>3, <2>5, CountAppend
  <2>7. count(Append(s, x)) = count(s) + one
    BY <2>3, CountAppend
  <2>8. count(s) \in Nat /\ count(u) \in Nat
    BY <1>2, <2>3
  <2> HIDE DEF count, one
  <2>9. count(u \o Append(s, x)) = count(u) + count(Append(s, x))
    BY <2>3, <2>4, <2>5, <2>6, <2>7, <2>8
  <2> QED BY <2>1, <2>2, <2>9 DEF s, x
<1>5. \A i \in 0 .. n : i \in S
  <2> HIDE DEF S
  <2> QED BY <1>1, <1>3, <1>4, IntervalInduction
<1>6. front(n) = v
  BY PrefixWhole
<1>7. count(u \o front(n)) = count(u) + count(front(n))
  <2> HIDE DEF count, front
  <2> QED BY <1>1, <1>5
<1> QED BY <1>6, <1>7

(* Of two that precede each other, each is the other. *)
LEMMA PrecedesOnce ==
    ASSUME NEW p \in Seq(Transaction), NEW j \in 1 .. Len(p), NEW k \in 1 .. Len(p),
           Precedes(p, j, k), Precedes(p, k, j)
    PROVE  j = k
<1>1. /\ p[j].fee \in Nat /\ p[k].fee \in Nat
      /\ p[j].timestamp \in Nat /\ p[k].timestamp \in Nat
  BY TransactionFields
<1>2. p[j].fee = p[k].fee
  BY <1>1 DEF Precedes
<1>3. p[j].timestamp = p[k].timestamp
  BY <1>1, <1>2 DEF Precedes
<1>4. j <= k /\ k <= j
  BY <1>1, <1>2, <1>3 DEF Precedes
<1> QED BY <1>4

(* The first of some that a filter has left is the first of them before.   *)
SameBest(led, after, g, E) ==
    Best(after, E) \in E /\ Best(led, {g[k] : k \in E}) = g[Best(after, E)]

LEMMA BestLeft ==
    ASSUME NEW led \in LedgerState, NEW after \in LedgerState, NEW g, NEW keep,
           Picks(g, after.pendingTransactions, led.pendingTransactions,
                 Len(led.pendingTransactions), keep),
           NEW E, E \subseteq DOMAIN after.pendingTransactions, E # {}
    PROVE  SameBest(led, after, g, E)
<1> DEFINE p == led.pendingTransactions
           q == after.pendingTransactions
           F == {g[k] : k \in E}
           best == Best(after, E)
           first == Best(led, F)
<1>1. p \in Seq(Transaction) /\ q \in Seq(Transaction)
  BY LedgerFields
<1>2. Picks(g, q, p, Len(p), keep) /\ E \subseteq DOMAIN q
  OBVIOUS
<1>3. best \in E /\ \A k \in E : Precedes(q, best, k)
  BY BestIsEligible
<1> HIDE DEF best
<1>4. DOMAIN q = 1 .. Len(q) /\ DOMAIN p = 1 .. Len(p)
  <2> HIDE DEF p, q
  <2> QED BY <1>1
<1>5. /\ \A k \in E : k \in 1 .. Len(q) /\ g[k] \in 1 .. Len(p)
      /\ \A h, k \in E : h < k => g[h] < g[k]
      /\ \A k \in E : q[k] = p[g[k]]
  <2> HIDE DEF p, q
  <2> QED BY <1>2, <1>4 DEF Picks
<1>6. F \subseteq DOMAIN p /\ F # {} /\ g[best] \in F
  <2>1. \A k \in E : g[k] \in DOMAIN p
    BY <1>4, <1>5
  <2> HIDE DEF p
  <2> QED BY <1>3, <2>1
<1>7. first \in F /\ \A k \in F : Precedes(p, first, k)
  <2> HIDE DEF F
  <2> QED BY <1>6, BestIsEligible
<1> HIDE DEF first, p, q
<1>8. PICK k \in E : first = g[k]
  BY <1>7
<1>9. Precedes(p, g[best], g[k])
  <2>1. Precedes(q, best, k)
    BY <1>3
  <2>2. best \in 1 .. Len(q) /\ k \in 1 .. Len(q) /\ q[best] = p[g[best]] /\ q[k] = p[g[k]]
    BY <1>3, <1>5
  <2>3. Len(q) \in Nat /\ best \in Nat /\ k \in Nat
    BY <1>1, <2>2
  <2>4. best <= k => best = k \/ g[best] < g[k]
    BY <1>3, <1>5, <2>3
  <2>5. g[best] \in Nat /\ g[k] \in Nat
    BY <1>3, <1>5
  <2>6. best <= k => g[best] <= g[k]
    BY <2>4, <2>5
  <2> QED BY <2>1, <2>2, <2>6 DEF Precedes
<1>10. Precedes(p, g[k], g[best])
  BY <1>6, <1>7, <1>8
<1>11. g[best] \in 1 .. Len(p) /\ g[k] \in 1 .. Len(p)
  BY <1>3, <1>5
<1>12. g[best] = g[k]
  BY <1>1, <1>9, <1>10, <1>11, PrecedesOnce
<1> QED BY <1>3, <1>8, <1>12 DEF SameBest, best, first, F, p, q

(* t is none of txs. *)
New(t, txs) == \A k \in DOMAIN txs : txs[k] # t

LEMMA NewConcat ==
    ASSUME NEW u \in Seq(Transaction), NEW v \in Seq(Transaction), NEW t
    PROVE  New(t, u \o v) <=> New(t, u) /\ New(t, v)
<1> DEFINE m == Len(u)
           n == Len(v)
           w == u \o v
<1>1. /\ m \in Nat /\ n \in Nat
      /\ DOMAIN u = 1 .. m /\ DOMAIN v = 1 .. n /\ DOMAIN w = 1 .. m + n
      /\ \A k \in 1 .. m : w[k] = u[k]
      /\ \A k \in 1 .. n : w[m + k] = v[k]
  OBVIOUS
<1> HIDE DEF m, n, w
<1>2. \A k \in 1 .. m + n : k \in 1 .. m \/ (k - m \in 1 .. n /\ m + (k - m) = k)
  BY <1>1
<1>3. \A k \in 1 .. n : m + k \in 1 .. m + n
  BY <1>1
<1>4. \A k \in 1 .. m : k \in 1 .. m + n
  BY <1>1
<1>5. ASSUME New(t, u), New(t, v) PROVE New(t, w)
  <2>1. SUFFICES ASSUME NEW k \in 1 .. m + n PROVE w[k] # t
    BY <1>1 DEF New
  <2>2. CASE k \in 1 .. m
    BY <1>1, <1>5, <2>2 DEF New
  <2>3. CASE k - m \in 1 .. n /\ m + (k - m) = k
    <3>1. w[k] = v[k - m]
      BY <1>1, <2>3
    <3> QED BY <1>1, <1>5, <2>3, <3>1 DEF New
  <2> QED BY <1>2, <2>2, <2>3
<1>6. ASSUME New(t, w) PROVE New(t, u) /\ New(t, v)
  <2>1. \A k \in 1 .. m : u[k] # t
    BY <1>1, <1>4, <1>6 DEF New
  <2>2. \A k \in 1 .. n : v[k] # t
    BY <1>1, <1>3, <1>6 DEF New
  <2> QED BY <1>1, <2>1, <2>2 DEF New
<1> QED BY <1>5, <1>6 DEF w

LEMMA NewAppend ==
    ASSUME NEW u \in Seq(Transaction), NEW r \in Transaction, NEW t
    PROVE  t \notin Range(Append(u, r)) <=> New(t, u) /\ t # r
<1> DEFINE n == Len(u)
           w == Append(u, r)
<1>1. /\ n \in Nat /\ DOMAIN u = 1 .. n /\ DOMAIN w = 1 .. n + 1 /\ w[n + 1] = r
      /\ \A k \in 1 .. n : w[k] = u[k]
  OBVIOUS
<1> HIDE DEF n, w
<1>2. \A k : k \in 1 .. n + 1 <=> k \in 1 .. n \/ k = n + 1
  BY <1>1
<1>3. t \notin Range(w) <=> \A k \in 1 .. n + 1 : w[k] # t
  BY <1>1 DEF Range
<1>4. New(t, u) <=> \A k \in 1 .. n : u[k] # t
  BY <1>1 DEF New
<1>5. (\A k \in 1 .. n + 1 : w[k] # t) <=> (\A k \in 1 .. n : u[k] # t) /\ t # r
  BY <1>1, <1>2
<1> QED BY <1>3, <1>4, <1>5 DEF w

(* What the loop takes next once a block has taken `sel` is what it would  *)
(* have taken after them.                                                  *)
LEMMA NextAfterBlock ==
    ASSUME NEW led \in LedgerState, led.pendingTransactions \in Seq(Signed),
           NEW after \in LedgerState, NEW block \in Block, NEW sel \in Seq(Transaction),
           NEW reward \in Transaction, reward.from = Coinbase,
           block.transactions = Append(sel, reward),
           after.chain = Append(led.chain, block),
           after.pendingTransactions
               = RemovePending(led.pendingTransactions, block.transactions),
           NEW s \in Seq(Transaction),
           InOrder(after.chain, s), InOrder(led.chain, sel \o s)
    PROVE  SelectedNext(led, sel \o s) = sel \o SelectedNext(after, s)
<1> DEFINE p == led.pendingTransactions
           q == after.pendingTransactions
           txs == Append(sel, reward)
           keep == Range(p) \ Range(txs)
           u == sel \o s
           E == Eligible(after, s)
           F == Eligible(led, u)
           due(a) == ExpectedNonce(after.chain, s, a)
           dueThen(a) == ExpectedNonce(led.chain, u, a)
<1>1. /\ p \in Seq(Signed) /\ p \in Seq(Transaction) /\ q \in Seq(Transaction)
      /\ led.chain \in Seq(Block) /\ after.chain \in Seq(Block)
      /\ q = Subsequence(p, keep)
      /\ txs \in Seq(Transaction) /\ u \in Seq(Transaction)
  <2>1. q = Subsequence(p, keep)
    BY DEF RemovePending
  <2> HIDE DEF keep
  <2> QED BY <2>1, LedgerFields
<1>2. PICK g : Picks(g, q, p, Len(p), keep)
  <2> HIDE DEF keep, p, q
  <2> QED BY <1>1, SubsequencePositions
<1>3. /\ DOMAIN p = 1 .. Len(p) /\ DOMAIN q = 1 .. Len(q)
      /\ \A j \in 1 .. Len(p) : p[j] \in Signed /\ p[j] \in Range(p)
      /\ \A k \in 1 .. Len(q) : q[k] \in keep
  <2> HIDE DEF keep, p
  <2>1. q \in Seq(Signed \cap keep)
    BY <1>1, SubsequenceType
  <2> HIDE DEF q
  <2>2. \A k \in 1 .. Len(q) : q[k] \in keep
    BY <2>1
  <2>3. DOMAIN p = 1 .. Len(p) /\ DOMAIN q = 1 .. Len(q)
    BY <1>1
  <2>4. \A j \in 1 .. Len(p) : p[j] \in Signed
    BY <1>1
  <2>5. \A j \in 1 .. Len(p) : p[j] \in Range(p)
    BY <2>3 DEF Range
  <2> QED BY <2>2, <2>3, <2>4, <2>5
<1>4. ASSUME NEW a \in Address PROVE due(a) = dueThen(a)
  <2> DEFINE count(v) == Cardinality(IndicesFrom(v, a))
  <2>1. due(a) = ConfirmedNonce(after.chain, a) + count(s)
    BY <1>1, ExpectedIsNext
  <2>2. dueThen(a) = ConfirmedNonce(led.chain, a) + count(u)
    <3> HIDE DEF u
    <3> QED BY <1>1, ExpectedIsNext DEF u
  <2>3. ConfirmedNonce(after.chain, a) = ConfirmedNonce(led.chain, a) + count(txs)
    BY <1>1, NonceAppend
  <2>4. count(txs) = count(sel) + 0
    <3>1. reward.from # a
      BY LedgerAssumption
    <3>2. count(txs) = count(sel) + (IF reward.from = a THEN 1 ELSE 0)
      BY CountAppend
    <3> HIDE DEF count, txs
    <3> QED BY <3>1, <3>2
  <2>5. count(u) = count(sel) + count(s)
    BY CountConcat
  <2>6. ConfirmedNonce(led.chain, a) \in Nat
    BY <1>1, NonceType
  <2>7. \A v \in Seq(Transaction) : count(v) \in Nat
    <3>1. ASSUME NEW v \in Seq(Transaction) PROVE count(v) \in Nat
      <4>1. count(v) \in 0 .. Len(v)
        BY CountSum
      <4> HIDE DEF count
      <4> QED BY <4>1
    <3> QED BY <3>1
  <2>8. count(sel) \in Nat /\ count(s) \in Nat
    BY <2>7
  <2> HIDE DEF count, due, dueThen, u, txs
  <2> QED BY <2>1, <2>2, <2>3, <2>4, <2>5, <2>6, <2>8
<1>5. \A k \in E : k \in DOMAIN q /\ New(q[k], s) /\ q[k].nonce = due(q[k].from)
  BY DEF Eligible, New
<1>6. \A k \in DOMAIN q : New(q[k], s) /\ q[k].nonce = due(q[k].from) => k \in E
  BY DEF Eligible, New
<1>7. \A j \in F : j \in DOMAIN p /\ New(p[j], u) /\ p[j].nonce = dueThen(p[j].from)
  BY DEF Eligible, New
<1>8. \A j \in DOMAIN p : New(p[j], u) /\ p[j].nonce = dueThen(p[j].from) => j \in F
  BY DEF Eligible, New
<1>9. \A t : New(t, u) <=> New(t, sel) /\ New(t, s)
  BY NewConcat
<1>10. \A t : t \in keep <=> t \in Range(p) /\ New(t, sel) /\ t # reward
  BY NewAppend
<1>11. \A t \in Signed : t # reward /\ t.from \in Address
  BY LedgerAssumption DEF Signed
<1> HIDE DEF E, F, due, dueThen, keep, u, p, q, txs
<1>12. \A k \in 1 .. Len(q) : g[k] \in 1 .. Len(p) /\ q[k] = p[g[k]]
  BY <1>2 DEF Picks
<1>13. ASSUME NEW k \in E PROVE g[k] \in F
  <2>1. k \in 1 .. Len(q) /\ g[k] \in 1 .. Len(p) /\ q[k] = p[g[k]] /\ q[k] \in keep
    BY <1>3, <1>5, <1>12
  <2>2. New(q[k], u)
    BY <1>5, <1>9, <1>10, <2>1
  <2>3. q[k].from \in Address
    BY <1>3, <1>11, <2>1
  <2>4. q[k].nonce = dueThen(q[k].from)
    BY <1>4, <1>5, <2>3
  <2> QED BY <1>3, <1>8, <2>1, <2>2, <2>4
<1>14. ASSUME NEW j \in F PROVE \E k \in E : g[k] = j
  <2> DEFINE t == p[j]
  <2>1. j \in 1 .. Len(p) /\ t \in Signed /\ t \in Range(p) /\ New(t, u) /\ t.nonce = dueThen(t.from)
    BY <1>3, <1>7
  <2>2. t \in keep /\ New(t, s)
    BY <1>9, <1>10, <1>11, <2>1
  <2>3. PICK k \in 1 .. Len(q) : g[k] = j
    BY <1>2, <2>1, <2>2 DEF Picks
  <2>4. q[k] = t
    BY <1>12, <2>3
  <2>5. t.nonce = due(t.from)
    BY <1>4, <1>11, <2>1
  <2> HIDE DEF t
  <2>6. k \in E
    BY <1>3, <1>6, <2>2, <2>3, <2>4, <2>5
  <2> QED BY <2>3, <2>6
<1>15. F = {g[k] : k \in E}
  BY <1>13, <1>14
<1>16. CASE E = {}
  <2>1. F = {}
    BY <1>15, <1>16
  <2>2. SelectedNext(after, s) = s /\ SelectedNext(led, u) = u
    BY <1>16, <2>1 DEF SelectedNext, E, F
  <2> QED BY <2>2 DEF u
<1>17. CASE E # {}
  <2> DEFINE best == Best(after, E)
  <2>1. best \in E /\ Best(led, F) = g[best]
    <3>1. E \subseteq DOMAIN q
      BY <1>5
    <3>2. Picks(g, after.pendingTransactions, led.pendingTransactions,
                Len(led.pendingTransactions), keep)
      BY <1>2 DEF p, q
    <3>3. E \subseteq DOMAIN after.pendingTransactions
      BY <3>1 DEF q
    <3>4. SameBest(led, after, g, E)
      BY <1>17, <3>2, <3>3, BestLeft
    <3> QED BY <1>15, <3>4 DEF SameBest
  <2> HIDE DEF best
  <2>2. F # {}
    BY <1>13, <2>1
  <2>3. best \in 1 .. Len(q) /\ p[g[best]] = q[best]
    BY <1>3, <1>5, <1>12, <2>1
  <2>4. q[best] \in Transaction
    BY <1>1, <2>3
  <2>5. SelectedNext(after, s) = Append(s, q[best])
    BY <1>17 DEF SelectedNext, E, q, best
  <2>6. SelectedNext(led, u) = Append(u, p[Best(led, F)])
    BY <2>2 DEF SelectedNext, F, p
  <2>7. SelectedNext(led, u) = Append(u, q[best])
    BY <2>1, <2>3, <2>6
  <2>8. sel \o Append(s, q[best]) = Append(u, q[best])
    BY <2>4, ConcatGrows DEF u
  <2> QED BY <2>5, <2>7, <2>8 DEF u
<1> QED BY <1>16, <1>17

(* getPendingTransactionsInExecutionOrder: what blocks will take once the  *)
(* next one is mined is what is left of what they would take before.       *)
LEMMA OrderAfterBlock ==
    ASSUME NEW led \in LedgerState, led.pendingTransactions \in Seq(Signed),
           NEW miner \in Miner, NEW now \in Nat,
           NEW after \in LedgerState, after = MinePendingTransactions(led, miner, now)
    PROVE  ExecutionOrder(led, Len(led.pendingTransactions))
             = TransactionsForNextBlock(led)
                 \o ExecutionOrder(after, Len(after.pendingTransactions))
<1> DEFINE M == MaxTransactionsPerBlock
           sel == TransactionsForNextBlock(led)
           block == NextBlock(led, miner, now)
           e(n) == ExecutionOrder(led, M + n)
           f(n) == ExecutionOrder(after, n)
           m == Len(led.pendingTransactions) + Len(after.pendingTransactions)
<1>1. PICK reward : /\ sel \in Selections(led.pendingTransactions)
                    /\ reward \in Transaction /\ reward.from = Coinbase
                    /\ block \in Block /\ block.transactions = Append(sel, reward)
  BY NextBlockType
<1>2. sel \in Seq(Transaction)
  BY <1>1 DEF Selections
<1>3. /\ after.chain = Append(led.chain, block)
      /\ after.pendingTransactions = RemovePending(led.pendingTransactions, block.transactions)
  BY DEF MinePendingTransactions
<1>4. M \in Nat
  BY LedgerAssumption
<1>5. \A n \in Nat : f(n) \in Seq(Transaction) /\ InOrder(after.chain, f(n))
  BY ExecutionOrderInOrder DEF Orders, Selections
<1>6. \A n \in Nat : InOrder(led.chain, e(n))
  <2>1. \A k \in Nat : InOrder(led.chain, ExecutionOrder(led, k))
    BY ExecutionOrderInOrder DEF Orders
  <2>2. \A n \in Nat : M + n \in Nat
    BY <1>4
  <2> QED BY <2>1, <2>2
<1>7. e(0) = sel /\ f(0) = <<>>
  <2>1. M + 0 = M
    BY <1>4
  <2> QED BY <2>1, ExecutionOrderNext DEF TransactionsForNextBlock
<1>8. ASSUME NEW n \in Nat
      PROVE  e(n + 1) = SelectedNext(led, e(n)) /\ f(n + 1) = SelectedNext(after, f(n))
  <2>1. M + n \in Nat /\ (M + n) + 1 = M + (n + 1)
    BY <1>4
  <2>2. ExecutionOrder(led, (M + n) + 1) = SelectedNext(led, ExecutionOrder(led, M + n))
    BY <2>1, ExecutionOrderNext
  <2>3. f(n + 1) = SelectedNext(after, f(n))
    BY ExecutionOrderNext
  <2> QED BY <2>1, <2>2, <2>3
<1> HIDE DEF M, sel, block, e, f, m
<1> DEFINE S == {n \in Nat : e(n) = sel \o f(n)}
<1>9. 0 \in S
  <2>1. sel \o <<>> = sel
    BY <1>2, ConcatGrows
  <2> QED BY <1>7, <2>1
<1>10. ASSUME NEW n \in Nat, n \in S PROVE n + 1 \in S
  <2>1. e(n) = sel \o f(n)
    BY <1>10
  <2>2. /\ f(n) \in Seq(Transaction) /\ InOrder(after.chain, f(n))
        /\ InOrder(led.chain, sel \o f(n))
    BY <1>5, <1>6, <2>1
  <2>3. SelectedNext(led, sel \o f(n)) = sel \o SelectedNext(after, f(n))
    BY <1>1, <1>2, <1>3, <2>2, NextAfterBlock
  <2>4. e(n + 1) = sel \o f(n + 1)
    BY <1>8, <2>1, <2>3
  <2> QED BY <2>4
<1>11. S = Nat
  <2>1. S \subseteq Nat
    OBVIOUS
  <2> HIDE DEF S
  <2> QED BY <1>9, <1>10, <2>1, SetInduction
<1>12. m \in Nat /\ m >= Len(after.pendingTransactions)
       /\ M + m \in Nat /\ M + m >= Len(led.pendingTransactions)
  <2>1. Len(led.pendingTransactions) \in Nat /\ Len(after.pendingTransactions) \in Nat
    BY LedgerFields
  <2> DEFINE a == Len(led.pendingTransactions)
             b == Len(after.pendingTransactions)
  <2>2. a \in Nat /\ b \in Nat /\ m = a + b
    BY <2>1 DEF m
  <2> HIDE DEF a, b
  <2>3. m \in Nat /\ m >= b /\ M + m \in Nat /\ M + m >= a
    BY <1>4, <2>2
  <2> QED BY <2>3 DEF a, b
<1>13. e(m) = sel \o f(m)
  <2>1. m \in S
    BY <1>11, <1>12
  <2> QED BY <2>1
<1>14. e(m) = ExecutionOrder(led, Len(led.pendingTransactions))
  BY <1>12, SelectionEnds DEF e
<1>15. f(m) = ExecutionOrder(after, Len(after.pendingTransactions))
  BY <1>12, SelectionEnds DEF f
<1> QED BY <1>13, <1>14, <1>15 DEF sel

=============================================================================
