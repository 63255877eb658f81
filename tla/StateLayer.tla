----------------------------- MODULE StateLayer -----------------------------
(***************************************************************************)
(* The state layer of a node (src/core/blockchain.js): the key-value state *)
(* that the confirmed data transactions give, its history, the result of   *)
(* each execution, and the preview of what the pending ones will do.  The  *)
(* chain and the mempool are those of Ledger.tla; what the payload of a    *)
(* data transaction says is told by Payloads.tla.                          *)
(*                                                                         *)
(* A key is the record of the parts its string is joined from; an item id, *)
(* note id or registry name stands for its normalised form.  A value keeps *)
(* what a handler looks at: its JSON type, a number, a todo's `done`, a    *)
(* counter's `value`, an item's `createdBy`.                               *)
(***************************************************************************)
EXTENDS Ledger, Payloads, SequencesExt

CONSTANTS
    Id,             \* ids of todos, notes, counters; registry names; kv keys
    NoAddress,      \* in a key that has no owner part
    NoId,           \* in a profile's key, that has no id part
    NaN,
    Transactions,   \* the signed transactions the wallets may make
    Payload,        \* what each data transaction carries
    Clock,
    MaxChain        \* bound: no block without transactions past this length

VARIABLES
    ledger,
    derived,        \* state, stateHistory and executionResults
    running         \* no exception has ended the process

vars == <<ledger, derived, running>>

-----------------------------------------------------------------------------
(* Values, keys, entries and operations. *)

Null       == [type |-> "null"]
Text       == [type |-> "text"]
Number(n)  == [type |-> "number", number |-> n]
Todo(done) == [type |-> "todo", done |-> done]
Counter(n) == [type |-> "counter", value |-> n]
Item(a)    == [type |-> "item", createdBy |-> a]

Value ==
    [type : {"null", "text"}] \cup [type : {"number"}, number : Int]
        \cup [type : {"todo"}, done : BOOLEAN]
        \cup [type : {"counter"}, value : Int \cup {NaN}]
        \cup [type : {"item"}, createdBy : Address]

Key ==
    [app : {"kv", "registry"}, owner : {NoAddress}, id : Id]
        \cup [app : {"todo", "note", "counter"}, owner : Address, id : Id]
        \cup [app : {"profile"}, owner : Address, id : {NoId}]

(* The app of an operation that names no key itself. *)
AppOf(op) ==
    CASE op \in {"todo:create", "todo:toggle", "todo:delete"} -> "todo"
      [] op \in {"note:set", "note:delete"}                   -> "note"
      [] op \in {"profile:set", "profile:delete"}             -> "profile"
      [] op \in {"registry:set", "registry:delete"}           -> "registry"
      [] op \in {"counter:create", "counter:add", "counter:sub", "counter:delete"}
           -> "counter"

(* Mutant: a todo's key has no owner part, as a registry name's. *)
SharedStateKey(o, actor) ==
    IF o.op \in {"kv:set", "kv:delete", "kv:increment"} THEN o.key
    ELSE [app |-> AppOf(o.op), owner |-> NoAddress,
          id |-> IF AppOf(o.op) = "registry" THEN o.name ELSE o.id]

(* resolveStateOperationKey: a kv operation names any key at all, an app   *)
(* operation one of its actor's.                                           *)
StateKey(o, actor) ==
    IF o.op \in {"kv:set", "kv:delete", "kv:increment"} THEN o.key
    ELSE [app   |-> AppOf(o.op),
          owner |-> IF AppOf(o.op) = "registry" THEN NoAddress ELSE actor,
          id    |-> CASE AppOf(o.op) = "profile"  -> NoId
                      [] AppOf(o.op) = "registry" -> o.name
                      [] OTHER                    -> o.id]

-----------------------------------------------------------------------------
(* The handlers.  `previous` holds the entry of the key, or nothing.       *)

Rejected == [status |-> "rejected"]
Threw    == [status |-> "threw"]

ValueOf(previous) ==
    IF previous = {} THEN Null ELSE (CHOOSE e \in previous : TRUE).value

OwnerOf(previous, actor) ==
    IF previous = {} THEN actor ELSE (CHOOSE e \in previous : TRUE).owner

(* Mutant: the history forgets what a value replaced. *)
PutFromNothing(action, previous, actor, value) ==
    [status |-> "applied",
     entry  |-> {[value |-> value, owner |-> OwnerOf(previous, actor)]},
     change |-> [action |-> action, owner |-> OwnerOf(previous, actor), by |-> actor,
                 previousValue |-> Null, nextValue |-> value]]

(* createStateEntry and createStateHistoryEntry; `by` stands for the txId. *)
Put(action, previous, actor, value) ==
    [status |-> "applied",
     entry  |-> {[value |-> value, owner |-> OwnerOf(previous, actor)]},
     change |-> [action |-> action, owner |-> OwnerOf(previous, actor), by |-> actor,
                 previousValue |-> ValueOf(previous), nextValue |-> value]]

Deletion(action, previous, actor) ==
    IF previous = {} THEN Rejected
    ELSE [status |-> "applied", entry |-> {},
          change |-> [action |-> action, owner |-> OwnerOf(previous, actor), by |-> actor,
                      previousValue |-> ValueOf(previous), nextValue |-> Null]]

KvSet(o, previous, actor) == Put("set", previous, actor, o.value)

KvDelete(o, previous, actor) == Deletion("delete", previous, actor)

(* The history of a first increment starts from 0, not from null.          *)
KvIncrement(o, previous, actor) ==
    IF previous = {}
    THEN [Put("increment", previous, actor, Number(o.amount))
              EXCEPT !.change.previousValue = Number(0)]
    ELSE IF ValueOf(previous).type # "number" THEN Rejected
    ELSE Put("increment", previous, actor,
             Number(ValueOf(previous).number + o.amount))

TodoCreate(o, previous, actor) ==
    IF previous # {} THEN Rejected
    ELSE Put("todo:create", previous, actor, Todo(FALSE))

(* `done` is what the operation says, if anything, or the opposite of what *)
(* it was; anything a kv:set left there that is not done is not done, and  *)
(* null has no `done` to read.                                             *)
TodoToggle(o, previous, actor) ==
    LET current == ValueOf(previous)
    IN  IF previous = {} THEN Rejected
        ELSE IF "done" \in DOMAIN o
        THEN Put("todo:toggle", previous, actor, Todo(o.done))
        ELSE IF current = Null THEN Threw
        ELSE Put("todo:toggle", previous, actor, Todo(current # Todo(TRUE)))

TodoDelete(o, previous, actor) == Deletion("todo:delete", previous, actor)

(* Notes, profiles and registry names: created or updated, in the name of  *)
(* the one who created it.                                                 *)
ItemSet(created, updated, previous, actor) ==
    LET current == ValueOf(previous)
        creator == IF current.type = "item" THEN current.createdBy ELSE actor
        action  == IF current \in {Null, Number(0)} THEN created ELSE updated
    IN  Put(action, previous, actor, Item(creator))

NoteSet(o, previous, actor) == ItemSet("note:create", "note:update", previous, actor)

NoteDelete(o, previous, actor) == Deletion("note:delete", previous, actor)

ProfileSet(o, previous, actor) ==
    ItemSet("profile:create", "profile:update", previous, actor)

ProfileDelete(o, previous, actor) == Deletion("profile:delete", previous, actor)

RegistrySet(o, previous, actor) ==
    ItemSet("registry:create", "registry:update", previous, actor)

RegistryDelete(o, previous, actor) == Deletion("registry:delete", previous, actor)

CounterCreate(o, previous, actor) ==
    IF previous # {} THEN Rejected
    ELSE Put("counter:create", previous, actor, Counter(o.initialValue))

(* The `value` field of what stands at a counter's key: undefined, and any *)
(* sum with it NaN, when a kv:set left something else there.               *)
CountOf(current) == IF current.type = "counter" THEN current.value ELSE NaN

Shifted(count, delta) == IF count = NaN THEN NaN ELSE count + delta

CounterAdd(o, previous, actor) ==
    LET current == ValueOf(previous)
    IN  IF previous = {} THEN Rejected
        ELSE IF current = Null THEN Threw
        ELSE Put("counter:add", previous, actor,
                 Counter(Shifted(CountOf(current), o.delta)))

CounterSub(o, previous, actor) ==
    LET current == ValueOf(previous)
    IN  IF previous = {} THEN Rejected
        ELSE IF current = Null THEN Threw
        ELSE IF CountOf(current) # NaN /\ CountOf(current) - o.delta < 0 THEN Rejected
        ELSE Put("counter:sub", previous, actor,
                 Counter(Shifted(CountOf(current), -o.delta)))

CounterDelete(o, previous, actor) == Deletion("counter:delete", previous, actor)

Handler(o, previous, actor) ==
    CASE o.op = "kv:set"          -> KvSet(o, previous, actor)
      [] o.op = "kv:delete"       -> KvDelete(o, previous, actor)
      [] o.op = "kv:increment"    -> KvIncrement(o, previous, actor)
      [] o.op = "todo:create"     -> TodoCreate(o, previous, actor)
      [] o.op = "todo:toggle"     -> TodoToggle(o, previous, actor)
      [] o.op = "todo:delete"     -> TodoDelete(o, previous, actor)
      [] o.op = "note:set"        -> NoteSet(o, previous, actor)
      [] o.op = "note:delete"     -> NoteDelete(o, previous, actor)
      [] o.op = "profile:set"     -> ProfileSet(o, previous, actor)
      [] o.op = "profile:delete"  -> ProfileDelete(o, previous, actor)
      [] o.op = "registry:set"    -> RegistrySet(o, previous, actor)
      [] o.op = "registry:delete" -> RegistryDelete(o, previous, actor)
      [] o.op = "counter:create"  -> CounterCreate(o, previous, actor)
      [] o.op = "counter:add"     -> CounterAdd(o, previous, actor)
      [] o.op = "counter:sub"     -> CounterSub(o, previous, actor)
      [] o.op = "counter:delete"  -> CounterDelete(o, previous, actor)

-----------------------------------------------------------------------------
(* Executing transactions. *)

NoDerived ==
    [state   |-> [k \in {} |-> Null], history |-> [k \in {} |-> <<>>],
     results |-> [t \in {} |-> "applied"], threw |-> FALSE]

EntryAt(state, key) == IF key \in DOMAIN state THEN {state[key]} ELSE {}

HistoryOf(d, key) == IF key \in DOMAIN d.history THEN d.history[key] ELSE <<>>

Without(f, key) == Restrict(f, DOMAIN f \ {key})

(* f with value v at key. *)
With(f, key, v) ==
    [k \in DOMAIN f \cup {key} |-> IF k = key THEN v ELSE f[k]]

(* Mutant: a deletion starts the history of its key over. *)
OutcomeForgetting(d, t, key, outcome) ==
    CASE outcome.status = "threw" -> [d EXCEPT !.threw = TRUE]
      [] outcome.status = "rejected" ->
            [d EXCEPT !.results = With(@, t, "rejected")]
      [] outcome.status = "applied" ->
            [d EXCEPT
                !.state = IF outcome.entry = {} THEN Without(@, key)
                          ELSE With(@, key, CHOOSE e \in outcome.entry : TRUE),
                !.history = With(@, key, IF outcome.entry = {} THEN <<outcome.change>>
                                         ELSE Append(HistoryOf(d, key), outcome.change)),
                !.results = With(@, t, "applied")]

(* The maps once a handler has answered `outcome` for t at key. *)
Outcome(d, t, key, outcome) ==
    CASE outcome.status = "threw" -> [d EXCEPT !.threw = TRUE]
      [] outcome.status = "rejected" ->
            [d EXCEPT !.results = With(@, t, "rejected")]
      [] outcome.status = "applied" ->
            [d EXCEPT
                !.state = IF outcome.entry = {} THEN Without(@, key)
                          ELSE With(@, key, CHOOSE e \in outcome.entry : TRUE),
                !.history = With(@, key, Append(HistoryOf(d, key), outcome.change)),
                !.results = With(@, t, "applied")]

Resolved == [t \in DOMAIN Payload |-> ResolveStateOperation(Payload[t])]

Valid == {t \in DOMAIN Payload : ValidStatePayload(Payload[t])}

OperationOf(t) == CHOOSE o \in Resolved[t].operation : TRUE

(* What is no data transaction, or no operation, changes no state.         *)
IsOperation(t) == t \in DOMAIN Payload /\ Resolved[t].operation # {}

(* Mutant: anyone may change any key. *)
ExecuteForAnyone(d, t) ==
    IF d.threw THEN d
    ELSE IF ~IsOperation(t) THEN [d EXCEPT !.results = With(@, t, "applied")]
    ELSE LET key == StateKey(OperationOf(t), t.from)
         IN  Outcome(d, t, key, Handler(OperationOf(t), EntryAt(d.state, key), t.from))

(* applyStateTransactionToMaps: only its owner changes an existing key.    *)
Execute(d, t) ==
    IF d.threw THEN d
    ELSE IF ~IsOperation(t) THEN [d EXCEPT !.results = With(@, t, "applied")]
    ELSE IF t \notin Valid THEN [d EXCEPT !.results = With(@, t, "rejected")]
    ELSE LET key      == StateKey(OperationOf(t), t.from)
             previous == EntryAt(d.state, key)
         IN  IF OwnerOf(previous, t.from) # t.from
             THEN Outcome(d, t, key, Rejected)
             ELSE Outcome(d, t, key, Handler(OperationOf(t), previous, t.from))

ExecuteAll(d, txs) ==
    LET run[i \in 0 .. Len(txs)] == IF i = 0 THEN d ELSE Execute(run[i - 1], txs[i])
    IN  run[Len(txs)]

Confirmed(chain) == FlattenSeq([i \in DOMAIN chain |-> chain[i].transactions])

(* Mutant: the maps are not reset. *)
RebuildOnTop(d, chain) == ExecuteAll(d, Confirmed(chain))

(* rebuildDerivedState: reset, and the whole chain again.                  *)
RebuildDerivedState(d, chain) == ExecuteAll(NoDerived, Confirmed(chain))

(* getPendingStatePreview: the data transactions of the mempool, in the    *)
(* order in which blocks will take them, on top of a copy of the maps.     *)
PreviewOf(led, d) ==
    LET order == ExecutionOrder(led, Len(led.pendingTransactions))
    IN  ExecuteAll(d, Subsequence(order, DOMAIN Payload))

(* getTodoItems, getCounterItems and the like: what an app shows of its    *)
(* entries, with a default for what is not of its making.                  *)
Shown(app, value) ==
    CASE app = "todo"    -> value = Todo(TRUE)
      [] app = "counter" -> IF value.type = "counter" THEN value.value ELSE 0
      [] OTHER           -> IF value.type = "item" THEN value.createdBy ELSE NoAddress

AppItems(state, app, owner) ==
    {[id |-> key.id, owner |-> state[key].owner, shown |-> Shown(app, state[key].value)] :
        key \in {k \in DOMAIN state : k.app = app /\ k.owner = owner}}

-----------------------------------------------------------------------------
(* What a field of an operation is, by its name, unless it is IllTyped or, *)
(* where it is a string, Blank; a `value` is any value.                    *)
FieldTypes ==
    [key |-> Key, value |-> Value, id |-> Id, name |-> Id, done |-> BOOLEAN,
     amount |-> Int, delta |-> Int, initialValue |-> Int]

Typed(o) ==
    \A name \in DOMAIN o \cap DOMAIN FieldTypes :
        \/ o[name] \in FieldTypes[name]
        \/ name # "value" /\ o[name] = IllTyped
        \/ name \in {"key", "id", "name"} /\ o[name] = Blank

(* Only addresses sign; a payload is JSON.                                 *)
ASSUME StateLayerAssumption ==
    /\ Transactions \cup DOMAIN Payload \subseteq {t \in Transaction : t.from \in Address}
    /\ \A t \in DOMAIN Payload : \A o \in Resolved[t].operation : Typed(o)
    /\ Clock \subseteq Nat
    /\ MaxChain \in Nat
    /\ NaN \notin Int
    /\ NoAddress \notin Address

Init ==
    /\ ledger = FreshLedger
    /\ derived = NoDerived
    /\ running = TRUE

SubmitTransaction(t) ==
    /\ running
    /\ Admissible(ledger, t)
    /\ t \in DOMAIN Payload => t \in Valid
    /\ ledger' = AddTransaction(ledger, t)
    /\ UNCHANGED <<derived, running>>

(* minePendingTransactions: the block is on the chain before the state is  *)
(* rebuilt, and the mempool is cleaned after.  What the rebuild throws is  *)
(* the answer to the request.                                              *)
Mine(miner, now) ==
    LET mined   == MinePendingTransactions(ledger, miner, now)
        rebuilt == RebuildDerivedState(derived, mined.chain)
    IN  /\ running
        /\ \/ TransactionsForNextBlock(ledger) # <<>>
           \/ Len(ledger.chain) < MaxChain
        /\ derived' = rebuilt
        /\ ledger' = IF rebuilt.threw THEN [ledger EXCEPT !.chain = mined.chain]
                     ELSE mined
        /\ UNCHANGED running

(* A message handler leaves the ledger as `accepted`, unless the rebuild   *)
(* throws, which nobody catches: the process ends with the chain replaced  *)
(* and the mempool as `pendingThen`.                                       *)
Adopt(peerChain, pendingThen, accepted) ==
    LET rebuilt == RebuildDerivedState(derived, peerChain)
    IN  /\ derived' = rebuilt
        /\ running' = ~rebuilt.threw
        /\ ledger' = IF rebuilt.threw
                     THEN [ledger EXCEPT !.chain = peerChain,
                                         !.pendingTransactions = pendingThen]
                     ELSE accepted

(* The chains a peer may have that shares the first `at` blocks and mined  *)
(* n blocks more, the first with one transaction or none.                  *)
PeerChains(at, n, miner, now) ==
    LET base == [chain |-> SubSeq(ledger.chain, 1, at), pendingTransactions |-> <<>>,
                 difficulty |-> ledger.difficulty]
        chainFrom(start) ==
            LET run[i \in 0 .. n] ==
                    IF i = 0 THEN start ELSE MinePendingTransactions(run[i - 1], miner, now)
            IN  run[n].chain
    IN  {chainFrom(AddTransaction(base, t)) : t \in Transactions}

(* Mutant: the payloads of a peer's blocks are taken as they are. *)
AnyPayloads(peerChain) == peerChain # <<>>

(* isValidBlockTransactions, of payloads. *)
ValidPayloads(peerChain) ==
    Range(Confirmed(peerChain)) \cap DOMAIN Payload \subseteq Valid

(* NEW_BLOCK and CHAIN from a peer. *)
HandleNewBlock(miner, now) ==
    /\ running
    /\ Len(ledger.chain) < MaxChain
    /\ \E announced \in PeerChains(Len(ledger.chain), 1, miner, now) :
          /\ AcceptsBlock(ledger, announced)
          /\ ValidPayloads(announced)
          /\ Adopt(announced, ledger.pendingTransactions, AddBlock(ledger, announced))

HandleChain(at, miner, now) ==
    /\ running
    /\ at \in 1 .. Len(ledger.chain) - 1
    /\ Len(ledger.chain) < MaxChain
    /\ \E peerChain \in PeerChains(at, Len(ledger.chain) - at + 1, miner, now) :
          /\ AcceptsChain(ledger, peerChain)
          /\ ValidPayloads(peerChain)
          /\ Adopt(peerChain, <<>>, ReplaceChain(ledger, peerChain))

Next ==
    \/ \E t \in Transactions : SubmitTransaction(t)
    \/ \E miner \in Miner, now \in Clock : Mine(miner, now) \/ HandleNewBlock(miner, now)
    \/ \E at \in 1 .. MaxChain, miner \in Miner, now \in Clock : HandleChain(at, miner, now)

Spec == Init /\ [][Next]_vars

-----------------------------------------------------------------------------
Entry == [value : Value, owner : Address]

Deletes(change) ==
    change.action \in {"delete", "todo:delete", "note:delete", "profile:delete",
                       "registry:delete", "counter:delete"}

TypeOK ==
    /\ ledger \in LedgerState
    /\ DOMAIN derived.state \subseteq Key
    /\ Range(derived.state) \subseteq Entry
    /\ DOMAIN derived.history \subseteq Key
    /\ Range(derived.results) \subseteq {"applied", "rejected"}
    /\ derived.threw \in BOOLEAN
    /\ running \in BOOLEAN

(* "history can be traced back to specific transactions" and "no silent    *)
(* hidden writes" (docs/architecture.md:365-371): the history of a key     *)
(* ends in its entry, and each change starts from what the one before it   *)
(* left; only a first increment starts from 0.                             *)
HistoryExplainsState ==
    \A key \in DOMAIN derived.history \cup DOMAIN derived.state :
        LET h    == HistoryOf(derived, key)
            last == h[Len(h)]
        IN  /\ h # <<>>
            /\ EntryAt(derived.state, key) =
                  IF Deletes(last) THEN {}
                  ELSE {[value |-> last.nextValue, owner |-> last.owner]}
            /\ \A i \in 2 .. Len(h) :
                  \/ h[i].previousValue = h[i - 1].nextValue
                  \/ Deletes(h[i - 1]) /\ h[i].action = "increment"

(* Ownership: a key is changed by its owner alone, and gets another owner  *)
(* only after a deletion.                                                  *)
OwnersAlone ==
    \A key \in DOMAIN derived.history :
        LET h == derived.history[key]
        IN  \A i \in DOMAIN h :
              /\ h[i].by = h[i].owner
              /\ i > 1 /\ h[i].owner # h[i - 1].owner => Deletes(h[i - 1])

Below(value) == value.type = "counter" /\ value.value # NaN /\ value.value < 0

(* No sequence of counter operations brings a count below zero: it gets    *)
(* there by a kv:set of its owner, and from there goes only up.            *)
CountersNonNegative ==
    \A key \in DOMAIN derived.history :
        \A i \in DOMAIN derived.history[key] :
            LET change == derived.history[key][i]
            IN  Below(change.nextValue) /\ change.action # "set" =>
                  /\ Below(change.previousValue)
                  /\ change.nextValue.value > change.previousValue.value

(* What the operations of txs, all at the key of one counter, come to; -1  *)
(* if they leave none.                                                     *)
Tallied(n, o) ==
    CASE o.op = "counter:create" -> IF n < 0 THEN o.initialValue ELSE n
      [] o.op = "counter:add"    -> IF n < 0 THEN n ELSE n + o.delta
      [] o.op = "counter:sub"    -> IF n < o.delta THEN n ELSE n - o.delta
      [] o.op = "counter:delete" -> -1

Tally(txs) ==
    LET count[i \in 0 .. Len(txs)] ==
            IF i = 0 THEN -1 ELSE Tallied(count[i - 1], OperationOf(txs[i]))
    IN  count[Len(txs)]

OperatesOn(key) ==
    {t \in Valid : IsOperation(t) /\ StateKey(OperationOf(t), t.from) = key}

(* What the counter app shows is what the operations in the chain come to, *)
(* counted from its first block, each once, whatever was rebuilt, replaced *)
(* or refused; unless a kv operation has meddled with the counter's key.   *)
CountersAddUp ==
    \A owner \in Address, id \in Id :
        LET key   == [app |-> "counter", owner |-> owner, id |-> id]
            atKey == Subsequence(Confirmed(ledger.chain), OperatesOn(key))
        IN  /\ ~derived.threw
            /\ \A i \in DOMAIN atKey : "key" \notin DOMAIN OperationOf(atKey[i])
            => {item \in AppItems(derived.state, "counter", owner) : item.id = id}
                 = IF Tally(atKey) < 0 THEN {}
                   ELSE {[id |-> id, owner |-> owner, shown |-> Tally(atKey)]}

(* The key of an app is its owner's: another address holds it only by a kv *)
(* operation, which may name any key, until it is deleted; by whatever     *)
(* action the payload was declared to be.                                  *)
NamespaceKept ==
    \A key \in {k \in DOMAIN derived.history : k.owner \in Address} :
        LET h == derived.history[key]
        IN  \A i \in DOMAIN h : h[i].owner # key.owner =>
                \E j \in 1 .. i :
                    /\ h[j].action \in {"set", "increment"}
                    /\ \A k \in j .. i - 1 : h[k].owner = h[i].owner /\ ~Deletes(h[k])

(* The execution results are those of the transactions of the chain, also  *)
(* when another chain has replaced it; when one throws, of those before.   *)
(* A rejection is due to the state alone: what no handler takes is kept    *)
(* out of every chain, mined, announced or replaced.                       *)
ResultsOfChain ==
    LET txs == Confirmed(ledger.chain)
    IN  /\ IF ~derived.threw THEN DOMAIN derived.results = Range(txs)
           ELSE \E n \in DOMAIN txs :
                   DOMAIN derived.results = Range(SubSeq(txs, 1, n - 1))
        /\ \A t \in DOMAIN derived.results \cap DOMAIN Payload :
              derived.results[t] = "rejected" => t \in Valid

(* The preview shows what the coming blocks will do: whichever block is    *)
(* mined next, however many of the pending transactions it takes, the      *)
(* preview of state, history and results stays as it is.                   *)
PreviewStable ==
    \A miner \in Miner, now \in Clock :
        LET mined   == MinePendingTransactions(ledger, miner, now)
            before  == PreviewOf(ledger, derived)
            after   == PreviewOf(mined, RebuildDerivedState(derived, mined.chain))
        IN  /\ after.state = before.state
            /\ after.history = before.history
            /\ Restrict(after.results, DOMAIN after.results \cap DOMAIN Payload)
                  = Restrict(before.results, DOMAIN before.results \cap DOMAIN Payload)
=============================================================================
