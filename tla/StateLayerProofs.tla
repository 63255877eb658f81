-------------------------- MODULE StateLayerProofs --------------------------
(***************************************************************************)
(* The state layer: what one handler answers (Answers), what a transaction *)
(* does to the maps (Execute), what a chain makes of them (ExecuteAll),    *)
(* and that the maps are always those of the chain (IInv).  All properties *)
(* of the history of a key follow from one statement about it, Story.      *)
(***************************************************************************)
EXTENDS StateLayer, LedgerTheorems, TLAPS

-----------------------------------------------------------------------------
(* Values and operations. *)

LEMMA ValueKinds ==
    ASSUME NEW v \in Value
    PROVE  /\ v.type = "number" => v.number \in Int
           /\ v.type = "counter" => v.value \in Int \cup {NaN}
           /\ v.type = "item" => v.createdBy \in Address
BY DEF Value

LEMMA Values ==
    /\ Null \in Value
    /\ \A n \in Int : Number(n) \in Value
    /\ \A done \in BOOLEAN : Todo(done) \in Value
    /\ \A n \in Int \cup {NaN} : Counter(n) \in Value
    /\ \A a \in Address : Item(a) \in Value
<1>1. Null \in Value
  BY DEF Value, Null
<1>2. \A n \in Int : Number(n) \in Value
  BY DEF Value, Number
<1>3. \A done \in BOOLEAN : Todo(done) \in Value
  BY DEF Value, Todo
<1>4. \A n \in Int \cup {NaN} : Counter(n) \in Value
  BY DEF Value, Counter
<1>5. \A a \in Address : Item(a) \in Value
  BY DEF Value, Item
<1> QED BY <1>1, <1>2, <1>3, <1>4, <1>5

KvOperations == {"kv:set", "kv:delete", "kv:increment"}

(* What a transaction may execute: the operation of a payload that         *)
(* admission takes.                                                        *)
Executable(o) == Typed(o) /\ HandlerAllows(o)

(* The fields of an operation that its handler reads.                      *)
LEMMA Fields ==
    ASSUME NEW o, Executable(o)
    PROVE  /\ o.op \in KvOperations => o.key \in Key
           /\ o.op = "kv:set" => o.value \in Value
           /\ o.op = "kv:increment" => o.amount \in Int
           /\ o.op = "counter:create" => o.initialValue \in Nat
           /\ o.op \in {"counter:add", "counter:sub"} => o.delta \in Nat \ {0}
           /\ o.op = "todo:toggle" /\ "done" \in DOMAIN o => o.done \in BOOLEAN
           /\ o.op \in {"registry:set", "registry:delete"} => o.name \in Id
           /\ o.op \in {"todo:create", "todo:toggle", "todo:delete", "note:set",
                        "note:delete", "counter:create", "counter:add", "counter:sub",
                        "counter:delete"} => o.id \in Id
<1>1. ASSUME NEW name \in DOMAIN o, name \in DOMAIN FieldTypes,
             o[name] \notin {IllTyped, Blank} \/ name = "value"
      PROVE  o[name] \in FieldTypes[name]
  BY <1>1 DEF Executable, Typed
<1>2. ASSUME NEW name \in NeededBy(o.op)
      PROVE  name \in DOMAIN o /\ o[name] \notin {IllTyped, Blank}
  BY DEF Executable, HandlerAllows
<1>3. ASSUME NEW name \in NeededBy(o.op), name \in DOMAIN FieldTypes
      PROVE  o[name] \in FieldTypes[name]
  BY <1>1, <1>2, <1>3
<1>4. o.op \in KvOperations => o.key \in Key
  <2>1. o.op \in KvOperations => "key" \in NeededBy(o.op)
    BY DEF NeededBy, KvOperations
  <2> QED BY <2>1, <1>3 DEF FieldTypes
<1>5. o.op = "kv:set" => o.value \in Value
  <2>1. o.op = "kv:set" => "value" \in DOMAIN o
    BY DEF Executable, HandlerAllows, NumbersAllowed
  <2> QED BY <2>1, <1>1 DEF FieldTypes
<1>6. o.op = "kv:increment" => o.amount \in Int
  <2>1. o.op = "kv:increment" => "amount" \in NeededBy(o.op)
    BY DEF NeededBy
  <2> QED BY <2>1, <1>3 DEF FieldTypes
<1>7. o.op = "counter:create" => o.initialValue \in Nat
  <2>1. o.op = "counter:create" => "initialValue" \in NeededBy(o.op)
    BY DEF NeededBy
  <2>2. o.op = "counter:create" => o.initialValue >= 0
    BY DEF Executable, HandlerAllows, NumbersAllowed
  <2>3. o.op = "counter:create" => o.initialValue \in Int
    BY <2>1, <1>3 DEF FieldTypes
  <2> QED BY <2>2, <2>3
<1>8. o.op \in {"counter:add", "counter:sub"} => o.delta \in Nat \ {0}
  <2>1. o.op \in {"counter:add", "counter:sub"} => "delta" \in NeededBy(o.op)
    BY DEF NeededBy
  <2>2. o.op \in {"counter:add", "counter:sub"} => o.delta > 0
    BY DEF Executable, HandlerAllows, NumbersAllowed
  <2>3. o.op \in {"counter:add", "counter:sub"} => o.delta \in Int
    BY <2>1, <1>3 DEF FieldTypes
  <2> QED BY <2>2, <2>3
<1>9. o.op = "todo:toggle" /\ "done" \in DOMAIN o => o.done \in BOOLEAN
  <2>1. o.op = "todo:toggle" /\ "done" \in DOMAIN o => o["done"] # IllTyped
    BY DEF Executable, HandlerAllows, CheckedBy
  <2>2. "done" \in DOMAIN o => o["done"] \in FieldTypes["done"] \/ o["done"] = IllTyped
    BY DEF Executable, Typed, FieldTypes
  <2>3. FieldTypes["done"] = BOOLEAN
    BY DEF FieldTypes
  <2> QED BY <2>1, <2>2, <2>3
<1>10. o.op \in {"registry:set", "registry:delete"} => o.name \in Id
  <2>1. o.op \in {"registry:set", "registry:delete"} => "name" \in NeededBy(o.op)
    BY DEF NeededBy
  <2> QED BY <2>1, <1>3 DEF FieldTypes
<1>11. o.op \in {"todo:create", "todo:toggle", "todo:delete", "note:set",
                 "note:delete", "counter:create", "counter:add", "counter:sub",
                 "counter:delete"} => o.id \in Id
  <2>1. o.op \in {"todo:create", "todo:toggle", "todo:delete", "note:set",
                 "note:delete", "counter:create", "counter:add", "counter:sub",
                 "counter:delete"} => "id" \in NeededBy(o.op)
    BY DEF NeededBy
  <2> QED BY <2>1, <1>3 DEF FieldTypes
<1> QED BY <1>4, <1>5, <1>6, <1>7, <1>8, <1>9, <1>10, <1>11

(* Keys. *)
LEMMA KeyOfOperation ==
    ASSUME NEW o, Executable(o), NEW actor \in Address
    PROVE  /\ StateKey(o, actor) \in Key
           /\ o.op \in KvOperations \/ StateKey(o, actor).owner \in {actor, NoAddress}
<1>1. o.op \in Operations
  BY DEF Executable, HandlerAllows
<1>2. CASE o.op \in KvOperations
  BY <1>2, Fields DEF StateKey, KvOperations
<1>3. CASE o.op \in {"registry:set", "registry:delete"}
  BY <1>3, Fields DEF StateKey, AppOf, Key, KvOperations
<1>4. CASE o.op \in {"profile:set", "profile:delete"}
  BY <1>4 DEF StateKey, AppOf, Key
<1>5. CASE o.op \in {"todo:create", "todo:toggle", "todo:delete"}
  BY <1>5, Fields DEF StateKey, AppOf, Key
<1>6. CASE o.op \in {"note:set", "note:delete"}
  BY <1>6, Fields DEF StateKey, AppOf, Key
<1>7. CASE o.op \in {"counter:create", "counter:add", "counter:sub", "counter:delete"}
  BY <1>7, Fields DEF StateKey, AppOf, Key
<1> QED BY <1>1, <1>2, <1>3, <1>4, <1>5, <1>6, <1>7 DEF Operations, KvOperations

-----------------------------------------------------------------------------
(* What handlers answer. *)

AtMostOne(previous) == previous = {} \/ \E e \in Entry : previous = {e}

Deletions ==
    {"delete", "todo:delete", "note:delete", "profile:delete", "registry:delete",
     "counter:delete"}

Writes ==
    {"set", "increment", "todo:create", "todo:toggle", "note:create", "note:update",
     "profile:create", "profile:update", "registry:create", "registry:update",
     "counter:create", "counter:add", "counter:sub"}

Change ==
    [action : Deletions \cup Writes, owner : Address, by : Address, previousValue : Value,
     nextValue : Value]

(* No count gets below zero, or further below, but by a kv:set.            *)
KeepsCount(action, before, after) ==
    Below(after) /\ action # "set" => Below(before) /\ after.value > before.value

(* An applied operation is recorded as what it did to the entry of its key *)
(* and in the name of its owner.                                           *)
Answers(out, previous, actor) ==
    \/ out = Rejected
    \/ out = Threw
    \/ /\ out.status = "applied"
       /\ out.change \in Change
       /\ out.change.by = actor
       /\ out.change.owner = OwnerOf(previous, actor)
       /\ out.entry = IF Deletes(out.change) THEN {}
                      ELSE {[value |-> out.change.nextValue, owner |-> out.change.owner]}
       /\ Deletes(out.change) => previous # {} /\ out.change.nextValue = Null
       /\ \/ out.change.previousValue = ValueOf(previous)
          \/ previous = {} /\ out.change.action = "increment"
       /\ KeepsCount(out.change.action, out.change.previousValue, out.change.nextValue)

LEMMA PreviousType ==
    ASSUME NEW previous, AtMostOne(previous), NEW actor \in Address
    PROVE  ValueOf(previous) \in Value /\ OwnerOf(previous, actor) \in Address
<1>1. CASE previous = {}
  BY <1>1, Values DEF ValueOf, OwnerOf
<1>2. CASE \E e \in Entry : previous = {e}
  <2>1. PICK e \in Entry : previous = {e}
    BY <1>2
  <2>2. (CHOOSE x \in previous : TRUE) = e /\ previous # {}
    BY <2>1
  <2> QED BY <2>2 DEF ValueOf, OwnerOf, Entry
<1> QED BY <1>1, <1>2 DEF AtMostOne

LEMMA PutAnswers ==
    ASSUME NEW previous, AtMostOne(previous), NEW actor \in Address,
           NEW action \in Writes, NEW value \in Value,
           KeepsCount(action, ValueOf(previous), value)
    PROVE  Answers(Put(action, previous, actor, value), previous, actor)
<1> DEFINE out == Put(action, previous, actor, value)
           before == ValueOf(previous)
           owner == OwnerOf(previous, actor)
<1>1. before \in Value /\ owner \in Address
  BY PreviousType
<1>2. /\ out.status = "applied"
      /\ out.entry = {[value |-> value, owner |-> owner]}
      /\ out.change = [action |-> action, owner |-> owner, by |-> actor,
                       previousValue |-> before, nextValue |-> value]
  BY DEF Put
<1> HIDE DEF out, before, owner
<1>3. out.change \in Change
  BY <1>1, <1>2 DEF Change
<1>4. ~Deletes(out.change)
  BY <1>2 DEF Deletes, Writes
<1> QED BY <1>2, <1>3, <1>4 DEF Answers, out, before, owner

LEMMA DeletionAnswers ==
    ASSUME NEW previous, AtMostOne(previous), NEW actor \in Address,
           NEW action \in Deletions
    PROVE  Answers(Deletion(action, previous, actor), previous, actor)
<1>1. CASE previous = {}
  BY <1>1 DEF Deletion, Answers
<1>2. CASE previous # {}
  <2> DEFINE out == Deletion(action, previous, actor)
             before == ValueOf(previous)
             owner == OwnerOf(previous, actor)
  <2>1. before \in Value /\ owner \in Address /\ Null \in Value
    BY PreviousType, Values
  <2>2. /\ out.status = "applied"
        /\ out.entry = {}
        /\ out.change = [action |-> action, owner |-> owner, by |-> actor,
                         previousValue |-> before, nextValue |-> Null]
    BY <1>2 DEF Deletion
  <2> HIDE DEF out, before, owner
  <2>3. out.change \in Change
    BY <2>1, <2>2 DEF Change, Deletions
  <2>4. Deletes(out.change)
    BY <2>2 DEF Deletes, Deletions
  <2>5. KeepsCount(out.change.action, out.change.previousValue, out.change.nextValue)
    BY <2>2 DEF KeepsCount, Below, Null
  <2> QED BY <1>2, <2>2, <2>3, <2>4, <2>5 DEF Answers, out, before, owner
<1> QED BY <1>1, <1>2

(* A value that is no count below zero may take the place of any other.    *)
LEMMA OtherAnswers ==
    ASSUME NEW previous, AtMostOne(previous), NEW actor \in Address,
           NEW action \in Writes, NEW value \in Value,
           ~Below(value)
    PROVE  Answers(Put(action, previous, actor, value), previous, actor)
BY PutAnswers DEF KeepsCount

LEMMA KvAnswers ==
    ASSUME NEW o, Executable(o), NEW previous, AtMostOne(previous), NEW actor \in Address
    PROVE  /\ o.op = "kv:set" => Answers(KvSet(o, previous, actor), previous, actor)
           /\ o.op = "kv:delete" => Answers(KvDelete(o, previous, actor), previous, actor)
           /\ o.op = "kv:increment" => Answers(KvIncrement(o, previous, actor), previous, actor)
<1>1. ASSUME o.op = "kv:set" PROVE Answers(KvSet(o, previous, actor), previous, actor)
  <2>1. o.value \in Value
    BY <1>1, Fields
  <2>2. KeepsCount("set", ValueOf(previous), o.value)
    BY DEF KeepsCount
  <2> QED BY <2>1, <2>2, PutAnswers DEF KvSet, Writes
<1>2. Answers(KvDelete(o, previous, actor), previous, actor)
  BY DeletionAnswers DEF KvDelete, Deletions
<1>3. ASSUME o.op = "kv:increment"
      PROVE  Answers(KvIncrement(o, previous, actor), previous, actor)
  <2>1. o.amount \in Int
    BY <1>3, Fields
  <2>2. \A n \in Int : Number(n) \in Value /\ ~Below(Number(n))
    BY Values DEF Number, Below
  <2>3. CASE previous = {}
    <3> DEFINE put == Put("increment", previous, actor, Number(o.amount))
               out == [put EXCEPT !.change.previousValue = Number(0)]
               owner == OwnerOf(previous, actor)
    <3>1. KvIncrement(o, previous, actor) = out
      BY <2>3 DEF KvIncrement
    <3>2. owner \in Address /\ Number(0) \in Value /\ Number(o.amount) \in Value
          /\ ~Below(Number(o.amount))
      BY <2>1, <2>2, PreviousType
    <3>3. /\ out.status = "applied"
          /\ out.entry = {[value |-> Number(o.amount), owner |-> owner]}
          /\ out.change = [action |-> "increment", owner |-> owner, by |-> actor,
                           previousValue |-> Number(0), nextValue |-> Number(o.amount)]
      BY DEF Put
    <3> HIDE DEF put, out, owner
    <3>4. out.change \in Change /\ ~Deletes(out.change)
      BY <3>2, <3>3 DEF Change, Deletes, Writes
    <3> QED BY <2>3, <3>1, <3>2, <3>3, <3>4 DEF Answers, KeepsCount, owner
  <2>4. CASE previous # {} /\ ValueOf(previous).type # "number"
    BY <2>4 DEF KvIncrement, Answers
  <2>5. CASE previous # {} /\ ValueOf(previous).type = "number"
    <3> DEFINE n == ValueOf(previous).number + o.amount
    <3>1. ValueOf(previous).number \in Int
      BY <2>5, PreviousType, ValueKinds
    <3>2. Number(n) \in Value /\ ~Below(Number(n))
      BY <2>1, <2>2, <3>1
    <3>3. KvIncrement(o, previous, actor) = Put("increment", previous, actor, Number(n))
      BY <2>5 DEF KvIncrement
    <3> HIDE DEF n
    <3> QED BY <3>2, <3>3, OtherAnswers DEF Writes
  <2> QED BY <2>3, <2>4, <2>5
<1> QED BY <1>1, <1>2, <1>3

LEMMA TodoAnswers ==
    ASSUME NEW o, Executable(o), NEW previous, AtMostOne(previous), NEW actor \in Address
    PROVE  /\ Answers(TodoCreate(o, previous, actor), previous, actor)
           /\ o.op = "todo:toggle" => Answers(TodoToggle(o, previous, actor), previous, actor)
           /\ Answers(TodoDelete(o, previous, actor), previous, actor)
<1>1. \A done \in BOOLEAN : Todo(done) \in Value /\ ~Below(Todo(done))
  BY Values DEF Todo, Below
<1>2. Answers(TodoCreate(o, previous, actor), previous, actor)
  <2>1. Answers(Put("todo:create", previous, actor, Todo(FALSE)), previous, actor)
    BY <1>1, OtherAnswers DEF Writes
  <2>2. Answers(Rejected, previous, actor)
    BY DEF Answers
  <2> QED BY <2>1, <2>2 DEF TodoCreate
<1>3. ASSUME o.op = "todo:toggle" PROVE Answers(TodoToggle(o, previous, actor), previous, actor)
  <2>1. "done" \in DOMAIN o => o.done \in BOOLEAN
    BY <1>3, Fields
  <2>2. \A done \in BOOLEAN :
           Answers(Put("todo:toggle", previous, actor, Todo(done)), previous, actor)
    BY <1>1, OtherAnswers DEF Writes
  <2>3. Answers(Rejected, previous, actor) /\ Answers(Threw, previous, actor)
    BY DEF Answers
  <2> DEFINE other == ValueOf(previous) # Todo(TRUE)
  <2>4. other \in BOOLEAN
    OBVIOUS
  <2>5. Answers(Put("todo:toggle", previous, actor, Todo(other)), previous, actor)
    BY <2>2, <2>4
  <2>6. "done" \in DOMAIN o =>
           Answers(Put("todo:toggle", previous, actor, Todo(o.done)), previous, actor)
    BY <2>1, <2>2
  <2> QED BY <2>3, <2>5, <2>6 DEF TodoToggle
<1>4. Answers(TodoDelete(o, previous, actor), previous, actor)
  BY DeletionAnswers DEF TodoDelete, Deletions
<1> QED BY <1>2, <1>3, <1>4

LEMMA ItemAnswers ==
    ASSUME NEW previous, AtMostOne(previous), NEW actor \in Address,
           NEW created \in Writes, NEW updated \in Writes
    PROVE  Answers(ItemSet(created, updated, previous, actor), previous, actor)
<1> DEFINE current == ValueOf(previous)
           creator == IF current.type = "item" THEN current.createdBy ELSE actor
           action == IF current \in {Null, Number(0)} THEN created ELSE updated
<1>1. creator \in Address
  BY PreviousType, ValueKinds
<1>2. action \in Writes
  OBVIOUS
<1>3. ItemSet(created, updated, previous, actor) = Put(action, previous, actor, Item(creator))
  BY DEF ItemSet
<1> HIDE DEF creator, action
<1>4. Item(creator) \in Value /\ ~Below(Item(creator))
  BY <1>1, Values DEF Item, Below
<1> QED BY <1>2, <1>3, <1>4, OtherAnswers

LEMMA CounterAnswers ==
    ASSUME NEW o, Executable(o), NEW previous, AtMostOne(previous), NEW actor \in Address
    PROVE  /\ o.op = "counter:create" => Answers(CounterCreate(o, previous, actor), previous, actor)
           /\ o.op = "counter:add" => Answers(CounterAdd(o, previous, actor), previous, actor)
           /\ o.op = "counter:sub" => Answers(CounterSub(o, previous, actor), previous, actor)
           /\ Answers(CounterDelete(o, previous, actor), previous, actor)
<1> DEFINE current == ValueOf(previous)
           count == CountOf(current)
<1>1. Answers(Rejected, previous, actor) /\ Answers(Threw, previous, actor)
  BY DEF Answers
<1>2. current \in Value /\ count \in Int \cup {NaN} /\ NaN \notin Int
  BY PreviousType, ValueKinds, StateLayerAssumption DEF CountOf
<1>3. count \in Int => current.type = "counter" /\ current.value = count
  BY <1>2 DEF CountOf
<1> HIDE DEF count, current
<1>4. ASSUME o.op = "counter:create"
      PROVE  Answers(CounterCreate(o, previous, actor), previous, actor)
  <2>1. o.initialValue \in Nat
    BY <1>4, Fields
  <2>2. Counter(o.initialValue) \in Value
    BY <2>1, Values
  <2>3. ~Below(Counter(o.initialValue))
    BY <2>1 DEF Counter, Below
  <2>4. Answers(Put("counter:create", previous, actor, Counter(o.initialValue)), previous, actor)
    BY <2>2, <2>3, OtherAnswers DEF Writes
  <2> QED BY <1>1, <2>4 DEF CounterCreate
<1>5. ASSUME o.op = "counter:add"
      PROVE  Answers(CounterAdd(o, previous, actor), previous, actor)
  <2> DEFINE n == Shifted(count, o.delta)
  <2>1. o.delta \in Nat \ {0}
    BY <1>5, Fields
  <2>2. n \in Int \cup {NaN} /\ (n \in Int => count \in Int /\ n = count + o.delta)
    BY <1>2, <2>1 DEF Shifted
  <2> HIDE DEF n
  <2>3. Counter(n) \in Value
    BY <2>2, Values
  <2>4. Below(Counter(n)) => n \in Int /\ n < 0
    BY <2>2 DEF Below, Counter
  <2>5. Below(Counter(n)) => Below(current) /\ Counter(n).value > current.value
    BY <1>2, <1>3, <2>1, <2>2, <2>4 DEF Below, Counter
  <2>6. KeepsCount("counter:add", current, Counter(n))
    BY <2>5 DEF KeepsCount
  <2>7. Answers(Put("counter:add", previous, actor, Counter(n)), previous, actor)
    BY <2>3, <2>6, PutAnswers DEF Writes, current
  <2> QED BY <1>1, <2>7 DEF CounterAdd, n, count, current
<1>6. ASSUME o.op = "counter:sub"
      PROVE  Answers(CounterSub(o, previous, actor), previous, actor)
  <2> DEFINE n == Shifted(count, -o.delta)
  <2>1. o.delta \in Nat \ {0}
    BY <1>6, Fields
  <2>2. CASE count # NaN /\ count - o.delta < 0
    BY <1>1, <2>2 DEF CounterSub, count, current
  <2>3. CASE ~(count # NaN /\ count - o.delta < 0)
    <3>1. n \in Int \cup {NaN} /\ (n \in Int => n >= 0)
      BY <1>2, <2>1, <2>3 DEF Shifted
    <3>2. CounterSub(o, previous, actor)
            \in {Rejected, Threw, Put("counter:sub", previous, actor, Counter(n))}
      BY DEF CounterSub, count, current
    <3> HIDE DEF n
    <3>3. Counter(n) \in Value
      BY <3>1, Values
    <3>4. ~Below(Counter(n))
      BY <3>1 DEF Below, Counter
    <3>5. Answers(Put("counter:sub", previous, actor, Counter(n)), previous, actor)
      BY <3>3, <3>4, OtherAnswers DEF Writes
    <3> QED BY <1>1, <3>2, <3>5
  <2> QED BY <2>2, <2>3
<1>7. Answers(CounterDelete(o, previous, actor), previous, actor)
  BY DeletionAnswers DEF CounterDelete, Deletions
<1> QED BY <1>4, <1>5, <1>6, <1>7

LEMMA HandlerAnswers ==
    ASSUME NEW o, Executable(o), NEW previous, AtMostOne(previous), NEW actor \in Address
    PROVE  Answers(Handler(o, previous, actor), previous, actor)
<1> DEFINE out == Handler(o, previous, actor)
<1>1. o.op \in Operations
  BY DEF Executable, HandlerAllows
<1>2. CASE o.op \in KvOperations
  BY <1>2, KvAnswers DEF Handler, KvOperations
<1>3. CASE o.op \in {"todo:create", "todo:toggle", "todo:delete"}
  BY <1>3, TodoAnswers DEF Handler
<1>4. CASE o.op \in {"note:set", "profile:set", "registry:set"}
  <2>1. \A created, updated \in {"note:create", "note:update", "profile:create",
              "profile:update", "registry:create", "registry:update"} :
           Answers(ItemSet(created, updated, previous, actor), previous, actor)
    BY ItemAnswers DEF Writes
  <2> QED BY <1>4, <2>1 DEF Handler, NoteSet, ProfileSet, RegistrySet
<1>5. CASE o.op \in {"note:delete", "profile:delete", "registry:delete"}
  BY <1>5, DeletionAnswers DEF Handler, NoteDelete, ProfileDelete, RegistryDelete, Deletions
<1>6. CASE o.op \in {"counter:create", "counter:add", "counter:sub", "counter:delete"}
  BY <1>6, CounterAnswers DEF Handler
<1> QED BY <1>1, <1>2, <1>3, <1>4, <1>5, <1>6 DEF Operations, KvOperations

(* A kv operation is recorded as such. *)
LEMMA KvAction ==
    ASSUME NEW o, o.op \in KvOperations, NEW previous, NEW actor,
           Handler(o, previous, actor).status = "applied"
    PROVE  Handler(o, previous, actor).change.action \in {"set", "delete", "increment"}
<1>1. CASE o.op = "kv:set"
  BY <1>1 DEF Handler, KvSet, Put
<1>2. CASE o.op = "kv:delete"
  BY <1>2 DEF Handler, KvDelete, Deletion, Rejected
<1>3. CASE o.op = "kv:increment"
  <2>1. Handler(o, previous, actor) = KvIncrement(o, previous, actor)
    BY <1>3 DEF Handler
  <2> QED BY <2>1 DEF KvIncrement, Put, Rejected
<1> QED BY <1>1, <1>2, <1>3 DEF KvOperations

-----------------------------------------------------------------------------
(* The history of a key.                                                   *)

(* A change starts from what the one before it left, in the name of the    *)
(* same owner unless that one deleted the key.                             *)
Linked(c, next) ==
    /\ \/ next.previousValue = c.nextValue
       \/ Deletes(c) /\ next.action = "increment"
    /\ next.owner # c.owner => Deletes(c)

(* Change i is in the name of one who took the key by a kv operation.      *)
Claimed(h, i) ==
    \E j \in 1 .. i :
        /\ h[j].action \in {"set", "increment"}
        /\ \A k \in j .. i - 1 : h[k].owner = h[i].owner /\ ~Deletes(h[k])

Genuine(change) ==
    /\ change.by = change.owner
    /\ Deletes(change) => change.nextValue = Null
    /\ KeepsCount(change.action, change.previousValue, change.nextValue)

(* What the last change leaves at its key. *)
LeftBy(change) ==
    IF Deletes(change) THEN {} ELSE {[value |-> change.nextValue, owner |-> change.owner]}

(* h is a history of the key, and has led to the entry it has.             *)
Story(key, h, entry) ==
    /\ h \in Seq(Change)
    /\ AtMostOne(entry)
    /\ IF h = <<>> THEN entry = {} ELSE entry = LeftBy(h[Len(h)])
    /\ \A i \in 2 .. Len(h) : Linked(h[i - 1], h[i])
    /\ \A i \in 1 .. Len(h) : Genuine(h[i])
    /\ key.owner \in Address =>
          \A i \in 1 .. Len(h) : h[i].owner # key.owner => Claimed(h, i)

LEMMA ClaimedAppend ==
    ASSUME NEW h \in Seq(Change), NEW c \in Change, NEW i \in 1 .. Len(h), Claimed(h, i)
    PROVE  Claimed(Append(h, c), i)
<1>1. PICK j \in 1 .. i :
         /\ h[j].action \in {"set", "increment"}
         /\ \A k \in j .. i - 1 : h[k].owner = h[i].owner /\ ~Deletes(h[k])
  BY DEF Claimed
<1>2. \A k \in 1 .. Len(h) : Append(h, c)[k] = h[k]
  OBVIOUS
<1>3. Len(h) \in Nat /\ (\A k \in j .. i - 1 : k \in 1 .. Len(h)) /\ j \in 1 .. Len(h)
  OBVIOUS
<1> DEFINE g == Append(h, c)
<1> HIDE DEF g
<1>4. g[j].action \in {"set", "increment"}
      /\ \A k \in j .. i - 1 : g[k].owner = g[i].owner /\ ~Deletes(g[k])
  BY <1>1, <1>2, <1>3 DEF g
<1>5. Claimed(g, i)
  BY <1>4 DEF Claimed
<1> QED BY <1>5 DEF g

(* What an applied operation of the owner does to the history of the key.  *)
LEMMA StoryGoesOn ==
    ASSUME NEW key, NEW h, NEW entry, Story(key, h, entry), NEW actor \in Address,
           OwnerOf(entry, actor) = actor, NEW out, Answers(out, entry, actor),
           out.status = "applied",
           key.owner \in Address =>
               key.owner = actor \/ out.change.action \in {"set", "delete", "increment"}
    PROVE  Story(key, Append(h, out.change), out.entry)
<1> DEFINE n == Len(h)
           c == out.change
           g == Append(h, c)
           last == h[n]
<1>1. /\ c \in Change /\ c.by = actor /\ c.owner = actor
      /\ out.entry = LeftBy(c)
      /\ Deletes(c) => entry # {} /\ c.nextValue = Null
      /\ c.previousValue = ValueOf(entry) \/ (entry = {} /\ c.action = "increment")
      /\ KeepsCount(c.action, c.previousValue, c.nextValue)
  BY DEF Answers, Rejected, Threw, LeftBy
<1>2. h \in Seq(Change) /\ n \in Nat
  BY DEF Story
<1> HIDE DEF c
<1>3. /\ g \in Seq(Change) /\ Len(g) = n + 1 /\ g[n + 1] = c /\ g # <<>>
      /\ \A i \in 1 .. n : g[i] = h[i]
  BY <1>1, <1>2
<1> HIDE DEF g
<1>4. AtMostOne(out.entry)
  <2>1. CASE Deletes(c)
    BY <1>1, <2>1 DEF AtMostOne, LeftBy
  <2>2. CASE ~Deletes(c)
    <3>1. [value |-> c.nextValue, owner |-> c.owner] \in Entry
      BY <1>1 DEF Entry, Change
    <3> QED BY <1>1, <2>2, <3>1 DEF AtMostOne, LeftBy
  <2> QED BY <2>1, <2>2
<1>5. Genuine(c)
  BY <1>1 DEF Genuine
<1>6. ASSUME h # <<>>
      PROVE  /\ n \in 1 .. n /\ entry = LeftBy(last) /\ Genuine(last)
             /\ ~Deletes(last) => /\ last.owner = actor
                                  /\ ValueOf(entry) = last.nextValue
             /\ Deletes(last) => entry = {}
  <2>1. n \in 1 .. n
    BY <1>2, <1>6
  <2>2. entry = LeftBy(last) /\ Genuine(last)
    BY <1>6, <2>1 DEF Story
  <2>3. ASSUME ~Deletes(last)
        PROVE  last.owner = actor /\ ValueOf(entry) = last.nextValue
    <3> DEFINE e == [value |-> last.nextValue, owner |-> last.owner]
    <3>1. entry = {e} /\ e.owner = last.owner /\ e.value = last.nextValue
      BY <2>2, <2>3 DEF LeftBy
    <3> HIDE DEF e
    <3>2. entry # {} /\ (CHOOSE x \in entry : TRUE) = e
      BY <3>1
    <3>3. OwnerOf(entry, actor) = e.owner /\ ValueOf(entry) = e.value
      BY <3>2 DEF OwnerOf, ValueOf
    <3> QED BY <3>1, <3>3
  <2>4. Deletes(last) => entry = {}
    BY <2>2 DEF LeftBy
  <2> QED BY <2>1, <2>2, <2>3, <2>4
<1>7. ASSUME h # <<>> PROVE Linked(last, c)
  <2>1. CASE Deletes(last)
    <3>1. entry = {} /\ last.nextValue = Null
      BY <1>6, <1>7, <2>1 DEF Genuine
    <3>2. ValueOf(entry) = Null
      BY <3>1 DEF ValueOf
    <3> QED BY <1>1, <2>1, <3>1, <3>2 DEF Linked
  <2>2. CASE ~Deletes(last)
    <3>1. entry # {}
      BY <1>6, <1>7, <2>2 DEF LeftBy
    <3> QED BY <1>1, <1>6, <1>7, <2>2, <3>1 DEF Linked
  <2> QED BY <2>1, <2>2
<1>8. \A i \in 1 .. n + 1 : Genuine(g[i])
  <2>1. \A i \in 1 .. n : Genuine(h[i])
    BY DEF Story
  <2>2. \A i \in 1 .. n + 1 : i = n + 1 \/ i \in 1 .. n
    BY <1>2
  <2> QED BY <1>3, <1>5, <2>1, <2>2
<1>9. \A i \in 2 .. n + 1 : Linked(g[i - 1], g[i])
  <2>1. SUFFICES ASSUME NEW i \in 2 .. n + 1 PROVE Linked(g[i - 1], g[i])
    OBVIOUS
  <2>2. CASE i = n + 1
    <3>1. h # <<>> /\ n \in 1 .. n /\ i - 1 = n
      BY <1>2, <2>2
    <3>2. g[i - 1] = last /\ g[i] = c
      BY <1>3, <2>2, <3>1
    <3> QED BY <1>7, <3>1, <3>2
  <2>3. CASE i # n + 1
    <3>1. i \in 2 .. n /\ i \in 1 .. n /\ i - 1 \in 1 .. n
      BY <1>2, <2>3
    <3>2. Linked(h[i - 1], h[i])
      BY <3>1 DEF Story
    <3> QED BY <1>3, <3>1, <3>2
  <2> QED BY <2>2, <2>3
<1>10. ASSUME key.owner \in Address, NEW i \in 1 .. n + 1, g[i].owner # key.owner
       PROVE  Claimed(g, i)
  <2>1. CASE i \in 1 .. n
    <3>1. h[i].owner # key.owner
      BY <1>3, <1>10, <2>1
    <3>2. Claimed(h, i)
      BY <1>10, <2>1, <3>1 DEF Story
    <3> QED BY <1>1, <1>2, <2>1, <3>2, ClaimedAppend DEF g
  <2>2. CASE i = n + 1
    <3>1. g[i] = c /\ key.owner # actor
      BY <1>1, <1>3, <1>10, <2>2
    <3>2. c.action \in {"set", "delete", "increment"}
      BY <1>10, <3>1 DEF c
    <3>3. CASE c.action \in {"set", "increment"}
      <4>1. i \in 1 .. i /\ \A k \in i .. i - 1 : FALSE
        BY <1>2, <2>2
      <4> QED BY <3>1, <3>3, <4>1 DEF Claimed
    <3>4. CASE c.action = "delete"
      <4>1. Deletes(c)
        BY <3>4 DEF Deletes
      <4>2. entry # {} /\ h # <<>>
        BY <1>1, <4>1 DEF Story
      <4>3. n \in 1 .. n /\ ~Deletes(last) /\ last.owner = actor
        BY <1>6, <4>2
      <4>4. Claimed(h, n)
        BY <1>10, <3>1, <4>3 DEF Story
      <4>5. PICK j \in 1 .. n :
               /\ h[j].action \in {"set", "increment"}
               /\ \A k \in j .. n - 1 : h[k].owner = last.owner /\ ~Deletes(h[k])
        BY <4>4 DEF Claimed
      <4>6. j \in 1 .. i /\ g[j].action \in {"set", "increment"}
        BY <1>2, <1>3, <2>2, <4>5
      <4>7. ASSUME NEW k \in j .. i - 1
            PROVE  g[k].owner = g[i].owner /\ ~Deletes(g[k])
        <5>1. k \in 1 .. n /\ (k = n \/ k \in j .. n - 1)
          BY <1>2, <2>2, <4>5
        <5>2. g[k] = h[k] /\ g[i].owner = actor
          BY <1>1, <1>3, <3>1, <5>1
        <5> QED BY <4>3, <4>5, <5>1, <5>2
      <4> QED BY <4>6, <4>7 DEF Claimed
    <3> QED BY <3>2, <3>3, <3>4
  <2>3. i \in 1 .. n \/ i = n + 1
    BY <1>2
  <2> QED BY <2>1, <2>2, <2>3
<1>11. Story(key, g, out.entry)
  BY <1>1, <1>3, <1>4, <1>8, <1>9, <1>10 DEF Story
<1> QED BY <1>11 DEF g, c

-----------------------------------------------------------------------------
(* The three maps. *)

Maps(A, V) == UNION {[K -> V] : K \in SUBSET A}

LEMMA MapsDef ==
    ASSUME NEW A, NEW V, NEW f
    PROVE  f \in Maps(A, V) <=>
              /\ f = [k \in DOMAIN f |-> f[k]]
              /\ DOMAIN f \subseteq A
              /\ \A k \in DOMAIN f : f[k] \in V
<1>1. ASSUME f \in Maps(A, V)
      PROVE  /\ f = [k \in DOMAIN f |-> f[k]]
             /\ DOMAIN f \subseteq A
             /\ \A k \in DOMAIN f : f[k] \in V
  <2>1. PICK K \in SUBSET A : f \in [K -> V]
    BY <1>1 DEF Maps
  <2> QED BY <2>1
<1>2. ASSUME f = [k \in DOMAIN f |-> f[k]], DOMAIN f \subseteq A,
             \A k \in DOMAIN f : f[k] \in V
      PROVE  f \in Maps(A, V)
  <2>1. f \in [DOMAIN f -> V]
    BY <1>2
  <2> QED BY <1>2, <2>1 DEF Maps
<1> QED BY <1>1, <1>2

LEMMA WithMaps ==
    ASSUME NEW A, NEW V, NEW f \in Maps(A, V), NEW key \in A, NEW v \in V
    PROVE  /\ With(f, key, v) \in Maps(A, V)
           /\ DOMAIN With(f, key, v) = DOMAIN f \cup {key}
           /\ With(f, key, v)[key] = v
           /\ \A k \in DOMAIN f : k # key => With(f, key, v)[k] = f[k]
<1> DEFINE g == With(f, key, v)
<1>1. DOMAIN f \subseteq A /\ \A k \in DOMAIN f : f[k] \in V
  BY MapsDef
<1>2. /\ g = [k \in DOMAIN g |-> g[k]]
      /\ DOMAIN g = DOMAIN f \cup {key}
      /\ g[key] = v
      /\ \A k \in DOMAIN f : k # key => g[k] = f[k]
  BY DEF With
<1> HIDE DEF g
<1>3. g \in Maps(A, V)
  <2>1. DOMAIN g \subseteq A /\ \A k \in DOMAIN g : g[k] \in V
    BY <1>1, <1>2
  <2> QED BY <1>2, <2>1, MapsDef
<1> QED BY <1>2, <1>3 DEF g

LEMMA WithoutMaps ==
    ASSUME NEW A, NEW V, NEW f \in Maps(A, V), NEW key \in A
    PROVE  /\ Without(f, key) \in Maps(A, V)
           /\ DOMAIN Without(f, key) = DOMAIN f \ {key}
           /\ \A k \in DOMAIN f : k # key => Without(f, key)[k] = f[k]
<1> DEFINE g == Without(f, key)
<1>1. DOMAIN f \subseteq A /\ \A k \in DOMAIN f : f[k] \in V
  BY MapsDef
<1>2. /\ g = [k \in DOMAIN g |-> g[k]]
      /\ DOMAIN g = DOMAIN f \ {key}
      /\ \A k \in DOMAIN f : k # key => g[k] = f[k]
  BY DEF Without, Restrict
<1> HIDE DEF g
<1>3. g \in Maps(A, V)
  <2>1. DOMAIN g \subseteq A /\ \A k \in DOMAIN g : g[k] \in V
    BY <1>1, <1>2
  <2> QED BY <1>2, <2>1, MapsDef
<1> QED BY <1>2, <1>3 DEF g

(* The transactions of chains and mempools: a payload among them is one    *)
(* that validateStateTransaction takes.                                    *)
Lawful == {t \in Transaction : t \in DOMAIN Payload => t \in Valid}

DerivedType ==
    [state : Maps(Key, Entry), history : Maps(Key, Seq(Change)),
     results : Maps(Lawful, {"applied", "rejected"}), threw : BOOLEAN]

(* The maps tell the story of every key. *)
Derived ==
    {d \in DerivedType :
        /\ \A key \in Key : Story(key, HistoryOf(d, key), EntryAt(d.state, key))
        /\ \A key \in DOMAIN d.history : d.history[key] # <<>>}

LEMMA DerivedFields ==
    ASSUME NEW d \in Derived
    PROVE  /\ d = [state |-> d.state, history |-> d.history, results |-> d.results,
                   threw |-> d.threw]
           /\ d.state \in Maps(Key, Entry)
           /\ d.history \in Maps(Key, Seq(Change))
           /\ d.results \in Maps(Lawful, {"applied", "rejected"})
           /\ d.threw \in BOOLEAN
           /\ \A key \in Key : Story(key, HistoryOf(d, key), EntryAt(d.state, key))
           /\ \A key \in DOMAIN d.history : d.history[key] # <<>>
BY DEF Derived, DerivedType

LEMMA NoDerivedIsDerived == NoDerived \in Derived
<1>1. \A A, V, v : [k \in {} |-> v] \in Maps(A, V)
  <2>1. SUFFICES ASSUME NEW A, NEW V, NEW v PROVE [k \in {} |-> v] \in Maps(A, V)
    OBVIOUS
  <2> DEFINE f == [k \in {} |-> v]
  <2>2. DOMAIN f = {} /\ f = [k \in DOMAIN f |-> f[k]]
    OBVIOUS
  <2> HIDE DEF f
  <2>3. f \in Maps(A, V)
    BY <2>2, MapsDef
  <2> QED BY <2>3 DEF f
<1>2. NoDerived \in DerivedType
  BY <1>1 DEF NoDerived, DerivedType
<1>3. \A key : HistoryOf(NoDerived, key) = <<>> /\ EntryAt(NoDerived.state, key) = {}
  BY DEF NoDerived, HistoryOf, EntryAt
<1>4. \A key : Story(key, <<>>, {})
  BY DEF Story, AtMostOne
<1>5. DOMAIN NoDerived.history = {}
  BY DEF NoDerived
<1> QED BY <1>2, <1>3, <1>4, <1>5 DEF Derived

(* A result is recorded and nothing else changes. *)
LEMMA ResultKept ==
    ASSUME NEW d \in Derived, NEW t \in Lawful, NEW r \in {"applied", "rejected"}
    PROVE  [d EXCEPT !.results = With(@, t, r)] \in Derived
<1> DEFINE new == [d EXCEPT !.results = With(@, t, r)]
           w == With(d.results, t, r)
<1>1. w \in Maps(Lawful, {"applied", "rejected"})
  BY DerivedFields, WithMaps
<1> HIDE DEF w
<1>2. new = [state |-> d.state, history |-> d.history, results |-> w, threw |-> d.threw]
  <2>1. new = [d EXCEPT !.results = w]
    BY DEF w
  <2> HIDE DEF new
  <2> QED BY <2>1, DerivedFields
<1> HIDE DEF new
<1>3. new.state = d.state /\ new.history = d.history
  BY <1>2
<1>4. \A key : HistoryOf(new, key) = HistoryOf(d, key)
  BY <1>3 DEF HistoryOf
<1>5. new \in DerivedType
  BY <1>1, <1>2, DerivedFields DEF DerivedType
<1>6. new \in Derived
  BY <1>3, <1>4, <1>5, DerivedFields DEF Derived
<1> QED BY <1>6 DEF new

LEMMA ThrowKept ==
    ASSUME NEW d \in Derived
    PROVE  [d EXCEPT !.threw = TRUE] \in Derived
<1> DEFINE new == [d EXCEPT !.threw = TRUE]
<1>1. d \in DerivedType
  BY DEF Derived
<1>2. new.state = d.state /\ new.history = d.history
  BY <1>1 DEF DerivedType
<1>4. new \in DerivedType
  BY <1>1 DEF DerivedType
<1> HIDE DEF new
<1>3. \A key : HistoryOf(new, key) = HistoryOf(d, key)
  BY <1>2 DEF HistoryOf
<1>5. new \in Derived
  BY <1>2, <1>3, <1>4, DerivedFields DEF Derived
<1> QED BY <1>5 DEF new

(* The state once an operation has left `entry` at `key`. *)
StateWith(state, key, entry) ==
    IF entry = {} THEN Without(state, key)
    ELSE With(state, key, CHOOSE e \in entry : TRUE)

LEMMA StateAfter ==
    ASSUME NEW state \in Maps(Key, Entry), NEW key \in Key, NEW entry, AtMostOne(entry),
           NEW new, new = StateWith(state, key, entry)
    PROVE  /\ new \in Maps(Key, Entry)
           /\ EntryAt(new, key) = entry
           /\ \A k : k # key => EntryAt(new, k) = EntryAt(state, k)
<1>1. CASE entry = {}
  <2>1. new = Without(state, key)
    BY <1>1 DEF StateWith
  <2> DEFINE g == Without(state, key)
  <2>2. /\ g \in Maps(Key, Entry)
        /\ DOMAIN g = DOMAIN state \ {key}
        /\ \A k \in DOMAIN state : k # key => g[k] = state[k]
    <3> DEFINE A == Key
               V == Entry
    <3>1. state \in Maps(A, V) /\ key \in A
      OBVIOUS
    <3> HIDE DEF A, V
    <3>2. /\ Without(state, key) \in Maps(A, V)
          /\ DOMAIN Without(state, key) = DOMAIN state \ {key}
          /\ \A k \in DOMAIN state : k # key => Without(state, key)[k] = state[k]
      BY <3>1, WithoutMaps
    <3> QED BY <3>2 DEF A, V
  <2> HIDE DEF g
  <2>3. new = g
    BY <2>1 DEF g
  <2> QED BY <1>1, <2>2, <2>3 DEF EntryAt
<1>2. CASE entry # {}
  <2>1. PICK e \in Entry : entry = {e}
    BY <1>2 DEF AtMostOne
  <2>2. (CHOOSE x \in entry : TRUE) = e
    BY <2>1
  <2>3. new = With(state, key, e)
    BY <1>2, <2>2 DEF StateWith
  <2> DEFINE g == With(state, key, e)
  <2>4. /\ g \in Maps(Key, Entry)
        /\ DOMAIN g = DOMAIN state \cup {key}
        /\ g[key] = e
        /\ \A k \in DOMAIN state : k # key => g[k] = state[k]
    <3> DEFINE A == Key
               V == Entry
    <3>1. state \in Maps(A, V) /\ key \in A /\ e \in V
      OBVIOUS
    <3> HIDE DEF A, V
    <3>2. /\ With(state, key, e) \in Maps(A, V)
          /\ DOMAIN With(state, key, e) = DOMAIN state \cup {key}
          /\ With(state, key, e)[key] = e
          /\ \A k \in DOMAIN state : k # key => With(state, key, e)[k] = state[k]
      BY <3>1, WithMaps
    <3> QED BY <3>2 DEF A, V
  <2> HIDE DEF g
  <2>5. new = g
    BY <2>3 DEF g
  <2> QED BY <2>1, <2>4, <2>5 DEF EntryAt
<1> QED BY <1>1, <1>2

(* g is f but for its value v at key. *)
Updates(g, f, key, v) ==
    /\ DOMAIN g = DOMAIN f \cup {key}
    /\ g[key] = v
    /\ \A k \in DOMAIN f : k # key => g[k] = f[k]

LEMMA WithUpdates ==
    ASSUME NEW A, NEW V, NEW f \in Maps(A, V), NEW key \in A, NEW v \in V
    PROVE  With(f, key, v) \in Maps(A, V) /\ Updates(With(f, key, v), f, key, v)
BY WithMaps DEF Updates

Histories == Seq(Change)

LEMMA HistoryAfter ==
    ASSUME NEW f \in Maps(Key, Histories), NEW key \in Key, NEW h \in Histories,
           NEW g, g = With(f, key, h)
    PROVE  g \in Maps(Key, Histories) /\ Updates(g, f, key, h)
BY WithUpdates

(* What the owner of a key, or whoever takes it, may make of it. *)
Allowed(d, key, actor, out) ==
    /\ key \in Key
    /\ actor \in Address
    /\ OwnerOf(EntryAt(d.state, key), actor) = actor
    /\ Answers(out, EntryAt(d.state, key), actor)
    /\ out.status = "applied" /\ key.owner \in Address =>
          key.owner = actor \/ out.change.action \in {"set", "delete", "increment"}

LEMMA OutcomeKept ==
    ASSUME NEW d \in Derived, NEW t \in Lawful, NEW key, NEW actor, NEW out,
           Allowed(d, key, actor, out)
    PROVE  Outcome(d, t, key, out) \in Derived
<1>0. /\ key \in Key /\ actor \in Address
      /\ OwnerOf(EntryAt(d.state, key), actor) = actor
      /\ Answers(out, EntryAt(d.state, key), actor)
      /\ out.status = "applied" /\ key.owner \in Address =>
            key.owner = actor \/ out.change.action \in {"set", "delete", "increment"}
  BY DEF Allowed
<1>1. CASE out = Threw
  <2>1. Outcome(d, t, key, out) = [d EXCEPT !.threw = TRUE]
    BY <1>1 DEF Outcome, Threw
  <2> QED BY <2>1, ThrowKept
<1>2. CASE out = Rejected
  <2>1. Outcome(d, t, key, out) = [d EXCEPT !.results = With(@, t, "rejected")]
    BY <1>2 DEF Outcome, Rejected
  <2> QED BY <2>1, ResultKept
<1>3. CASE out.status = "applied"
  <2> DEFINE h == HistoryOf(d, key)
             longer == Append(h, out.change)
             state == StateWith(d.state, key, out.entry)
             history == With(d.history, key, longer)
             results == With(d.results, t, "applied")
             new == Outcome(d, t, key, out)
  <2>1. new = [d EXCEPT !.state = state, !.history = history, !.results = results]
    BY <1>3 DEF Outcome, StateWith
  <2>2. Story(key, h, EntryAt(d.state, key))
    BY <1>0, DerivedFields
  <2>3. Story(key, longer, out.entry)
    <3> HIDE DEF h
    <3> QED BY <1>0, <1>3, <2>2, StoryGoesOn
  <2> HIDE DEF h, new
  <2>4. longer \in Seq(Change) /\ longer # <<>> /\ AtMostOne(out.entry)
    <3> HIDE DEF longer
    <3>1. h \in Seq(Change) /\ longer \in Seq(Change) /\ AtMostOne(out.entry)
      BY <2>2, <2>3 DEF Story
    <3>2. longer # <<>>
      BY <3>1 DEF longer
    <3> QED BY <3>1, <3>2
  <2> HIDE DEF longer
  <2>5. /\ state \in Maps(Key, Entry)
        /\ EntryAt(state, key) = out.entry
        /\ \A k : k # key => EntryAt(state, k) = EntryAt(d.state, k)
    <3> DEFINE before == d.state
    <3>1. before \in Maps(Key, Entry)
      BY DerivedFields
    <3>2. state = StateWith(before, key, out.entry)
      OBVIOUS
    <3> HIDE DEF before, state
    <3>3. /\ state \in Maps(Key, Entry)
          /\ EntryAt(state, key) = out.entry
          /\ \A k : k # key => EntryAt(state, k) = EntryAt(before, k)
      BY <1>0, <2>4, <3>1, <3>2, StateAfter
    <3> QED BY <3>3 DEF before
  <2> HIDE DEF state
  <2>6. /\ history \in Maps(Key, Seq(Change))
        /\ DOMAIN history = DOMAIN d.history \cup {key}
        /\ history[key] = longer
        /\ \A k \in DOMAIN d.history : k # key => history[k] = d.history[k]
    <3>1. d.history \in Maps(Key, Histories) /\ longer \in Histories
      BY <2>4, DerivedFields DEF Histories
    <3>2. history \in Maps(Key, Histories) /\ Updates(history, d.history, key, longer)
      BY <1>0, <3>1, HistoryAfter
    <3> QED BY <3>2 DEF Histories, Updates
  <2>7. results \in Maps(Lawful, {"applied", "rejected"})
    BY DerivedFields, WithMaps
  <2> HIDE DEF history, results
  <2>8. new = [state |-> state, history |-> history, results |-> results, threw |-> d.threw]
    <3>1. d = [state |-> d.state, history |-> d.history, results |-> d.results,
               threw |-> d.threw]
      BY DerivedFields
    <3> QED BY <2>1, <3>1
  <2>9. new \in DerivedType
    BY <2>5, <2>6, <2>7, <2>8, DerivedFields DEF DerivedType
  <2>10. new.state = state /\ new.history = history
    BY <2>8
  <2>11. HistoryOf(new, key) = longer /\ \A k : k # key => HistoryOf(new, k) = HistoryOf(d, k)
    BY <2>6, <2>10 DEF HistoryOf
  <2>12. \A k \in Key : Story(k, HistoryOf(new, k), EntryAt(new.state, k))
    <3>1. SUFFICES ASSUME NEW k \in Key PROVE Story(k, HistoryOf(new, k), EntryAt(new.state, k))
      OBVIOUS
    <3>2. CASE k = key
      BY <2>3, <2>5, <2>10, <2>11, <3>2
    <3>3. CASE k # key
      <4>1. HistoryOf(new, k) = HistoryOf(d, k) /\ EntryAt(new.state, k) = EntryAt(d.state, k)
        BY <2>5, <2>10, <2>11, <3>3
      <4> QED BY <4>1, DerivedFields
    <3> QED BY <3>2, <3>3
  <2>13. \A k \in DOMAIN new.history : new.history[k] # <<>>
    BY <2>4, <2>6, <2>10, DerivedFields
  <2>14. new \in Derived
    BY <2>9, <2>12, <2>13 DEF Derived
  <2> QED BY <2>14 DEF new
<1> QED BY <1>0, <1>1, <1>2, <1>3 DEF Answers

(* The operation of a transaction, the key it names, and what its handler  *)
(* makes of the entry there.                                               *)
KeyOf(t) == StateKey(OperationOf(t), t.from)

AnswerTo(d, t) == Handler(OperationOf(t), EntryAt(d.state, KeyOf(t)), t.from)

MayChange(d, t) == OwnerOf(EntryAt(d.state, KeyOf(t)), t.from) = t.from

LEMMA OperationFields ==
    ASSUME NEW t \in Lawful, IsOperation(t)
    PROVE  /\ t \in DOMAIN Payload /\ t \in Valid /\ t.from \in Address
           /\ Executable(OperationOf(t))
           /\ KeyOf(t) \in Key
           /\ OperationOf(t).op \in KvOperations \/ KeyOf(t).owner \in {t.from, NoAddress}
<1> DEFINE o == OperationOf(t)
           actor == t.from
<1>1. t \in DOMAIN Payload /\ t \in Valid /\ actor \in Address
  BY StateLayerAssumption DEF IsOperation, Lawful
<1>2. o \in ResolveStateOperation(Payload[t]).operation /\ Typed(o)
  <2>1. Resolved[t] = ResolveStateOperation(Payload[t])
    BY <1>1 DEF Resolved
  <2>2. o \in Resolved[t].operation
    BY DEF OperationOf, IsOperation
  <2> HIDE DEF o
  <2> QED BY <1>1, <2>1, <2>2, StateLayerAssumption
<1>3. Executable(o)
  <2> HIDE DEF o
  <2>1. HandlerAllows(o)
    BY <1>1, <1>2 DEF Valid, ValidStatePayload
  <2> QED BY <1>2, <2>1 DEF Executable
<1>4. /\ StateKey(o, actor) \in Key
      /\ o.op \in KvOperations \/ StateKey(o, actor).owner \in {actor, NoAddress}
  <2> HIDE DEF o, actor
  <2> QED BY <1>1, <1>3, KeyOfOperation
<1> QED BY <1>1, <1>3, <1>4 DEF KeyOf

LEMMA ExecuteOperation ==
    ASSUME NEW d \in Derived, NEW t \in Lawful, IsOperation(t), ~d.threw
    PROVE  /\ ~MayChange(d, t) => Execute(d, t) = [d EXCEPT !.results = With(@, t, "rejected")]
           /\ MayChange(d, t) =>
                 /\ Allowed(d, KeyOf(t), t.from, AnswerTo(d, t))
                 /\ Execute(d, t) = Outcome(d, t, KeyOf(t), AnswerTo(d, t))
<1> DEFINE o == OperationOf(t)
           actor == t.from
           key == KeyOf(t)
           entry == EntryAt(d.state, key)
           out == AnswerTo(d, t)
<1>1. /\ t \in DOMAIN Payload /\ t \in Valid /\ actor \in Address
      /\ Executable(o)
      /\ key \in Key
      /\ o.op \in KvOperations \/ key.owner \in {actor, NoAddress}
  BY OperationFields
<1>2. out = Handler(o, entry, actor) /\ (MayChange(d, t) <=> OwnerOf(entry, actor) = actor)
  BY DEF AnswerTo, MayChange
<1>3. Execute(d, t) = IF OwnerOf(entry, actor) # actor THEN Outcome(d, t, key, Rejected)
                      ELSE Outcome(d, t, key, out)
  BY <1>1 DEF Execute, KeyOf, AnswerTo
<1> HIDE DEF o, actor, key, out
<1>4. ASSUME ~MayChange(d, t)
      PROVE  Execute(d, t) = [d EXCEPT !.results = With(@, t, "rejected")]
  <2>1. Outcome(d, t, key, Rejected) = [d EXCEPT !.results = With(@, t, "rejected")]
    BY DEF Outcome, Rejected
  <2> QED BY <1>2, <1>3, <1>4, <2>1
<1>5. ASSUME MayChange(d, t)
      PROVE  Allowed(d, key, actor, out) /\ Execute(d, t) = Outcome(d, t, key, out)
  <2>1. AtMostOne(entry)
    BY <1>1, DerivedFields DEF Story
  <2>2. Answers(out, entry, actor)
    <3> HIDE DEF entry
    <3> QED BY <1>1, <1>2, <2>1, HandlerAnswers
  <2>3. out.status = "applied" /\ key.owner \in Address =>
           key.owner = actor \/ out.change.action \in {"set", "delete", "increment"}
    <3> HIDE DEF entry
    <3> QED BY <1>1, <1>2, KvAction, StateLayerAssumption
  <2>4. Allowed(d, key, actor, out)
    BY <1>1, <1>2, <1>5, <2>2, <2>3 DEF Allowed
  <2> QED BY <1>2, <1>3, <1>5, <2>4
<1> QED BY <1>4, <1>5 DEF key, actor, out

(* applyStateTransactionToMaps: it does nothing, records a result, or lets *)
(* a handler answer for the owner of the key.                              *)
LEMMA ExecuteCases ==
    ASSUME NEW d \in Derived, NEW t \in Lawful
    PROVE  \/ d.threw /\ Execute(d, t) = d
           \/ ~d.threw /\ \E r \in {"applied", "rejected"} :
                 Execute(d, t) = [d EXCEPT !.results = With(@, t, r)]
           \/ ~d.threw /\ \E key, actor, out :
                 Allowed(d, key, actor, out) /\ Execute(d, t) = Outcome(d, t, key, out)
<1>1. CASE d.threw
  BY <1>1 DEF Execute
<1>2. CASE ~d.threw /\ ~IsOperation(t)
  <2>1. Execute(d, t) = [d EXCEPT !.results = With(@, t, "applied")]
    BY <1>2 DEF Execute
  <2> QED BY <1>2, <2>1
<1>3. CASE ~d.threw /\ IsOperation(t)
  BY <1>3, ExecuteOperation
<1>4. d.threw \in BOOLEAN
  BY DerivedFields
<1> QED BY <1>1, <1>2, <1>3, <1>4

LEMMA ExecuteKept ==
    ASSUME NEW d \in Derived, NEW t \in Lawful
    PROVE  Execute(d, t) \in Derived
<1>1. CASE d.threw /\ Execute(d, t) = d
  BY <1>1
<1>2. CASE \E r \in {"applied", "rejected"} :
              Execute(d, t) = [d EXCEPT !.results = With(@, t, r)]
  <2>1. PICK r \in {"applied", "rejected"} :
               Execute(d, t) = [d EXCEPT !.results = With(@, t, r)]
    BY <1>2
  <2> QED BY <2>1, ResultKept
<1>3. CASE \E key, actor, out :
              Allowed(d, key, actor, out) /\ Execute(d, t) = Outcome(d, t, key, out)
  <2>1. PICK key, actor, out :
               Allowed(d, key, actor, out) /\ Execute(d, t) = Outcome(d, t, key, out)
    BY <1>3
  <2> QED BY <2>1, OutcomeKept
<1> QED BY <1>1, <1>2, <1>3, ExecuteCases

-----------------------------------------------------------------------------
(* The execution of a sequence of transactions. *)

Executes(run, d, txs, Z) ==
    /\ run[0] = d
    /\ \A i \in 0 .. Len(txs) : run[i] \in Z
    /\ \A i \in 1 .. Len(txs) : run[i] = Execute(run[i - 1], txs[i])

LEMMA ExecuteAllRuns ==
    ASSUME NEW d \in Derived, NEW txs \in Seq(Lawful)
    PROVE  \E run : Executes(run, d, txs, Derived) /\ ExecuteAll(d, txs) = run[Len(txs)]
<1> DEFINE n == Len(txs)
           Z == Derived
           F == CHOOSE g : g = [i \in 0 .. Len(txs) |->
                                   IF i = 0 THEN d ELSE Execute(g[i - 1], txs[i])]
           step == [i \in 1 .. n |-> [x \in Z |-> Execute(x, txs[i])]]
<1>1. n \in Nat /\ d \in Z /\ \A i \in 1 .. n : txs[i] \in Lawful
  OBVIOUS
<1>2. step \in [1 .. n -> [Z -> Z]]
  <2>1. \A x \in Z, t \in Lawful : Execute(x, t) \in Z
    BY ExecuteKept
  <2> HIDE DEF n, Z
  <2> QED BY <1>1, <2>1
<1> HIDE DEF Z
<1>3. PICK f : Iterates(f, Z, d, n, step)
  <2> HIDE DEF step, n, F
  <2> QED BY <1>1, <1>2, IterationExists
<1>4. f = [i \in 0 .. n |-> IF i = 0 THEN d ELSE Execute(f[i - 1], txs[i])]
  <2>1. ASSUME NEW i \in 1 .. n PROVE f[i] = Execute(f[i - 1], txs[i])
    <3>1. f[i - 1] \in Z /\ f[i] = step[i][f[i - 1]]
      <4> HIDE DEF step, n
      <4> QED BY <1>3 DEF Iterates
    <3> QED BY <3>1, <1>1
  <2>2. f[0] = d /\ f \in [0 .. n -> Z]
    BY <1>3 DEF Iterates
  <2> HIDE DEF n
  <2> QED BY <1>1, <2>1, <2>2
<1>5. F = [i \in 0 .. n |-> IF i = 0 THEN d ELSE Execute(F[i - 1], txs[i])]
  BY <1>4
<1>6. ExecuteAll(d, txs) = F[n]
  BY DEF ExecuteAll
<1> HIDE DEF F, n
<1>7. F[0] = d /\ \A i \in 1 .. n : F[i] = Execute(F[i - 1], txs[i])
  BY <1>1, <1>5
<1>8. Iterates(F, Z, d, n, step)
  <2>1. \A i \in 1 .. n : F[i - 1] \in Z => F[i] = step[i][F[i - 1]]
    BY <1>7
  <2>2. F = [i \in 0 .. n |-> F[i]] /\ F[0] = d
    BY <1>5, <1>7
  <2> HIDE DEF step
  <2> QED BY <1>1, <1>2, <2>1, <2>2, IterationTyped
<1>9. \A i \in 0 .. n : F[i] \in Z
  BY <1>8 DEF Iterates
<1>10. Executes(F, d, txs, Derived)
  BY <1>7, <1>9 DEF n, Z, Executes
<1> QED BY <1>6, <1>10 DEF n

LEMMA ExecuteAllKept ==
    ASSUME NEW d \in Derived, NEW txs \in Seq(Lawful)
    PROVE  ExecuteAll(d, txs) \in Derived
<1>1. Len(txs) \in 0 .. Len(txs)
  OBVIOUS
<1> QED BY <1>1, ExecuteAllRuns DEF Executes

(* A transaction gets a result unless the execution throws. *)
LEMMA ExecuteResults ==
    ASSUME NEW d \in Derived, NEW t \in Lawful
    PROVE  /\ d.threw => Execute(d, t) = d
           /\ ~d.threw /\ Execute(d, t).threw => Execute(d, t).results = d.results
           /\ ~d.threw /\ ~Execute(d, t).threw
                 => DOMAIN Execute(d, t).results = DOMAIN d.results \cup {t}
<1> DEFINE e == Execute(d, t)
           Recorded(r) == [d EXCEPT !.results = With(@, t, r)]
<1>1. d \in DerivedType /\ d.threw \in BOOLEAN
  BY DerivedFields DEF Derived
<1>2. d.threw => e = d
  BY DEF Execute
<1>3. ASSUME NEW r PROVE /\ Recorded(r).threw = d.threw
                         /\ DOMAIN Recorded(r).results = DOMAIN d.results \cup {t}
  <2>1. Recorded(r).threw = d.threw /\ Recorded(r).results = With(d.results, t, r)
    BY <1>1 DEF DerivedType
  <2>2. DOMAIN With(d.results, t, r) = DOMAIN d.results \cup {t}
    BY DEF With
  <2> QED BY <2>1, <2>2
<1>4. ASSUME NEW key, NEW out,
             out.status = "applied" \/ out.status = "rejected" \/ out.status = "threw"
      PROVE  LET new == Outcome(d, t, key, out)
             IN  /\ new.threw \in {d.threw, TRUE}
                 /\ ~d.threw /\ new.threw => new.results = d.results
                 /\ ~new.threw => DOMAIN new.results = DOMAIN d.results \cup {t}
  <2> DEFINE new == Outcome(d, t, key, out)
  <2>1. CASE out.status = "threw"
    <3>1. new = [d EXCEPT !.threw = TRUE]
      BY <2>1 DEF Outcome
    <3> QED BY <1>1, <3>1 DEF DerivedType
  <2>2. CASE out.status = "rejected"
    <3>1. new = Recorded("rejected")
      BY <2>2 DEF Outcome
    <3> HIDE DEF new, Recorded
    <3> QED BY <1>1, <1>3, <3>1 DEF new
  <2>3. CASE out.status = "applied"
    <3> DEFINE s == IF out.entry = {} THEN Without(d.state, key)
                    ELSE With(d.state, key, CHOOSE x \in out.entry : TRUE)
               h == With(d.history, key, Append(HistoryOf(d, key), out.change))
               w == With(d.results, t, "applied")
    <3>1. new = [d EXCEPT !.state = s, !.history = h, !.results = w]
      BY <2>3 DEF Outcome
    <3>2. DOMAIN w = DOMAIN d.results \cup {t}
      BY DEF With
    <3> HIDE DEF new, s, h, w
    <3>3. new.threw = d.threw /\ new.results = w
      BY <1>1, <3>1 DEF DerivedType
    <3> QED BY <1>1, <3>2, <3>3 DEF new
  <2> QED BY <1>4, <2>1, <2>2, <2>3
<1>5. \A key, actor, out : Allowed(d, key, actor, out) =>
         out.status = "applied" \/ out.status = "rejected" \/ out.status = "threw"
  BY DEF Allowed, Answers, Rejected, Threw
<1>6. CASE d.threw
  BY <1>2, <1>6
<1>7. CASE ~d.threw /\ \E r \in {"applied", "rejected"} : e = Recorded(r)
  <2> HIDE DEF e, Recorded
  <2> QED BY <1>3, <1>7 DEF e
<1>8. CASE ~d.threw /\ \E key, actor, out :
              Allowed(d, key, actor, out) /\ e = Outcome(d, t, key, out)
  <2> HIDE DEF e
  <2> QED BY <1>4, <1>5, <1>8 DEF e
<1> QED
  <2> HIDE DEF e
  <2>1. \/ d.threw
        \/ ~d.threw /\ \E r \in {"applied", "rejected"} : e = Recorded(r)
        \/ ~d.threw /\ \E key, actor, out :
                Allowed(d, key, actor, out) /\ e = Outcome(d, t, key, out)
    BY ExecuteCases DEF e
  <2> QED BY <1>6, <1>7, <1>8, <2>1

(* The first n of txs, and the results there are once i of txs have been   *)
(* executed.                                                               *)
Taken(txs, n) == {txs[j] : j \in 1 .. n}

Told(d, txs, i) ==
    IF d.threw THEN \E n \in 1 .. i : DOMAIN d.results = Taken(txs, n - 1)
    ELSE DOMAIN d.results = Taken(txs, i)

LEMMA ToldGoesOn ==
    ASSUME NEW txs \in Seq(Lawful), NEW i \in 1 .. Len(txs), NEW d \in Derived,
           Told(d, txs, i - 1)
    PROVE  Told(Execute(d, txs[i]), txs, i)
<1> DEFINE t == txs[i]
           e == Execute(d, t)
<1>1. t \in Lawful /\ Len(txs) \in Nat
  OBVIOUS
<1>2. /\ d.threw => e = d
      /\ ~d.threw /\ e.threw => e.results = d.results
      /\ ~d.threw /\ ~e.threw => DOMAIN e.results = DOMAIN d.results \cup {t}
  <2> HIDE DEF t
  <2> QED BY <1>1, ExecuteResults
<1>3. d.threw \in BOOLEAN
  BY DerivedFields
<1> HIDE DEF e
<1>4. CASE d.threw
  <2>1. PICK n \in 1 .. i - 1 : DOMAIN d.results = Taken(txs, n - 1)
    BY <1>4 DEF Told
  <2>2. n \in 1 .. i
    OBVIOUS
  <2>3. e = d
    BY <1>2, <1>4
  <2>4. Told(d, txs, i)
    BY <1>4, <2>1, <2>2 DEF Told
  <2> QED BY <2>3, <2>4 DEF e
<1>5. CASE ~d.threw /\ e.threw
  <2>1. DOMAIN e.results = Taken(txs, i - 1)
    BY <1>2, <1>5 DEF Told
  <2>2. i \in 1 .. i
    OBVIOUS
  <2>3. Told(e, txs, i)
    BY <1>5, <2>1, <2>2 DEF Told
  <2> QED BY <2>3 DEF e
<1>6. CASE ~d.threw /\ ~e.threw
  <2>1. DOMAIN e.results = Taken(txs, i - 1) \cup {t}
    BY <1>2, <1>6 DEF Told
  <2>2. Taken(txs, i) = Taken(txs, i - 1) \cup {t}
    <3>1. \A j : j \in 1 .. i <=> j \in 1 .. i - 1 \/ j = i
      OBVIOUS
    <3> QED BY <3>1 DEF Taken
  <2>3. Told(e, txs, i)
    BY <1>6, <2>1, <2>2 DEF Told
  <2> QED BY <2>3 DEF e
<1> QED BY <1>4, <1>5, <1>6

LEMMA ResultsOf ==
    ASSUME NEW txs \in Seq(Lawful)
    PROVE  Told(ExecuteAll(NoDerived, txs), txs, Len(txs))
<1>1. NoDerived \in Derived /\ Len(txs) \in Nat
  BY NoDerivedIsDerived
<1>2. PICK run : /\ Executes(run, NoDerived, txs, Derived)
                 /\ ExecuteAll(NoDerived, txs) = run[Len(txs)]
  BY <1>1, ExecuteAllRuns
<1> DEFINE S == {i \in Nat : Told(run[i], txs, i)}
<1>3. 0 \in S
  <2>1. run[0] = NoDerived
    BY <1>2 DEF Executes
  <2>2. ~NoDerived.threw /\ DOMAIN NoDerived.results = {} /\ Taken(txs, 0) = {}
    BY DEF NoDerived, Taken
  <2>3. Told(NoDerived, txs, 0)
    BY <2>2 DEF Told
  <2> QED BY <2>1, <2>3
<1>4. ASSUME NEW i \in 1 .. Len(txs), i - 1 \in S PROVE i \in S
  <2>1. i \in Nat /\ i - 1 \in 0 .. Len(txs)
    OBVIOUS
  <2>2. run[i] = Execute(run[i - 1], txs[i]) /\ run[i - 1] \in Derived
    BY <1>2, <2>1 DEF Executes
  <2>3. Told(run[i - 1], txs, i - 1)
    BY <1>4
  <2>4. Told(Execute(run[i - 1], txs[i]), txs, i)
    BY <2>2, <2>3, ToldGoesOn
  <2> QED BY <2>1, <2>2, <2>4
<1>5. \A i \in 0 .. Len(txs) : i \in S
  <2> HIDE DEF S
  <2> QED BY <1>1, <1>3, <1>4, IntervalInduction
<1>6. Len(txs) \in 0 .. Len(txs)
  BY <1>1
<1> QED BY <1>2, <1>5, <1>6

-----------------------------------------------------------------------------
(* What the operations at the key of a counter come to.                    *)

CounterOperations == {"counter:create", "counter:add", "counter:sub", "counter:delete"}

CounterKeyOf(owner, id) == [app |-> "counter", owner |-> owner, id |-> id]

(* Those at this key that are no kv operations. *)
Counting(key) == {t \in OperatesOn(key) : "key" \notin DOMAIN OperationOf(t)}

CountValues == {n \in Int : n >= -1}

(* The entry of a counter, and none for -1. *)
Holds(owner, n) == IF n < 0 THEN {} ELSE {[value |-> Counter(n), owner |-> owner]}

CountsBy(o) ==
    /\ o.op \in CounterOperations
    /\ o.op = "counter:create" => o.initialValue \in Nat
    /\ o.op \in {"counter:add", "counter:sub"} => o.delta \in Nat \ {0}

LEMMA CountingFields ==
    ASSUME NEW owner \in Address, NEW id, NEW t \in Counting(CounterKeyOf(owner, id)),
           t \in Lawful
    PROVE  IsOperation(t) /\ t.from = owner /\ KeyOf(t) = CounterKeyOf(owner, id)
           /\ CountsBy(OperationOf(t))
<1> DEFINE o == OperationOf(t)
           actor == t.from
<1>1. IsOperation(t) /\ KeyOf(t) = CounterKeyOf(owner, id) /\ "key" \notin DOMAIN o
  BY DEF Counting, OperatesOn, KeyOf
<1>2. Executable(o) /\ KeyOf(t) = StateKey(o, actor)
  BY <1>1, OperationFields DEF KeyOf
<1> HIDE DEF o
<1>3. o.op \in Operations
  BY <1>2 DEF Executable, HandlerAllows
<1>4. o.op \notin KvOperations
  <2>1. o.op \in KvOperations => "key" \in NeededBy(o.op)
    BY DEF NeededBy, KvOperations
  <2>2. NeededBy(o.op) \subseteq DOMAIN o
    BY <1>2 DEF Executable, HandlerAllows
  <2> QED BY <1>1, <2>1, <2>2
<1>5. /\ StateKey(o, actor).app = AppOf(o.op)
      /\ StateKey(o, actor).owner = IF AppOf(o.op) = "registry" THEN NoAddress ELSE actor
  BY <1>4 DEF StateKey, KvOperations
<1>6. AppOf(o.op) = "counter" /\ actor = owner
  BY <1>1, <1>2, <1>5 DEF CounterKeyOf
<1>7. o.op \in CounterOperations
  BY <1>3, <1>4, <1>6 DEF AppOf, Operations, KvOperations, CounterOperations
<1>8. CountsBy(o)
  BY <1>2, <1>7, Fields DEF CountsBy
<1> QED BY <1>1, <1>6, <1>8 DEF o

LEMMA TalliedType ==
    ASSUME NEW o, CountsBy(o), NEW n \in CountValues
    PROVE  Tallied(n, o) \in CountValues
<1>1. CASE o.op = "counter:create"
  BY <1>1 DEF CountsBy, Tallied, CountValues
<1>2. CASE o.op = "counter:add"
  BY <1>2 DEF CountsBy, Tallied, CountValues
<1>3. CASE o.op = "counter:sub"
  BY <1>3 DEF CountsBy, Tallied, CountValues
<1>4. CASE o.op = "counter:delete"
  BY <1>4 DEF Tallied, CountValues
<1> QED BY <1>1, <1>2, <1>3, <1>4 DEF CountsBy, CounterOperations

LEMMA HoldsOwner ==
    ASSUME NEW owner, NEW n
    PROVE  OwnerOf(Holds(owner, n), owner) = owner
<1>1. CASE n < 0
  BY <1>1 DEF OwnerOf, Holds
<1>2. CASE ~(n < 0)
  <2> DEFINE e == [value |-> Counter(n), owner |-> owner]
             entry == Holds(owner, n)
  <2>1. entry = {e} /\ e.owner = owner
    BY <1>2 DEF Holds
  <2> HIDE DEF e, entry
  <2>2. (CHOOSE x \in entry : TRUE) = e
    BY <2>1
  <2>3. OwnerOf(entry, owner) = owner
    BY <2>1, <2>2 DEF OwnerOf
  <2> QED BY <2>3 DEF entry
<1> QED BY <1>1, <1>2

(* A counter's handler does to the entry what Tallied does to the count.   *)
LEMMA CounterCounts ==
    ASSUME NEW owner \in Address, NEW o, CountsBy(o), NEW n \in CountValues,
           NEW out, out = Handler(o, Holds(owner, n), owner)
    PROVE  \/ out = Rejected /\ Tallied(n, o) = n
           \/ out.status = "applied" /\ out.entry = Holds(owner, Tallied(n, o))
<1> DEFINE entry == Holds(owner, n)
           m == Tallied(n, o)
<1>1. n \in Int /\ NaN \notin Int
  BY StateLayerAssumption DEF CountValues
<1>2. n < 0 => entry = {}
  BY DEF Holds
<1>3. n >= 0 => /\ entry # {}
                /\ ValueOf(entry) = Counter(n)
  <2>1. SUFFICES ASSUME n >= 0 PROVE entry # {} /\ ValueOf(entry) = Counter(n)
    OBVIOUS
  <2> DEFINE e == [value |-> Counter(n), owner |-> owner]
  <2>2. entry = {e} /\ e.value = Counter(n)
    BY <1>1, <2>1 DEF Holds
  <2> HIDE DEF e, entry
  <2>3. (CHOOSE x \in entry : TRUE) = e
    BY <2>2
  <2> QED BY <2>2, <2>3 DEF ValueOf
<1>4. OwnerOf(entry, owner) = owner
  BY HoldsOwner
<1>5. Counter(n) # Null /\ CountOf(Counter(n)) = n
  BY DEF Counter, Null, CountOf
<1> HIDE DEF entry, m
<1>6. ASSUME NEW action, NEW k \in Nat
      PROVE  LET put == Put(action, entry, owner, Counter(k))
             IN  put.status = "applied" /\ put.entry = Holds(owner, k)
  BY <1>4 DEF Put, Holds
<1>7. CASE o.op = "counter:create"
  <2>1. out = CounterCreate(o, entry, owner) /\ m = IF n < 0 THEN o.initialValue ELSE n
    BY <1>7 DEF Handler, Tallied, entry, m
  <2>2. o.initialValue \in Nat
    BY <1>7 DEF CountsBy
  <2> QED BY <1>1, <1>2, <1>3, <1>6, <2>1, <2>2 DEF CounterCreate, m, entry
<1>8. CASE o.op = "counter:add"
  <2>1. out = CounterAdd(o, entry, owner) /\ m = IF n < 0 THEN n ELSE n + o.delta
    BY <1>8 DEF Handler, Tallied, entry, m
  <2>2. o.delta \in Nat
    BY <1>8 DEF CountsBy
  <2>3. CASE n < 0
    BY <1>2, <2>1, <2>3 DEF CounterAdd, m
  <2>4. CASE ~(n < 0)
    <3>1. entry # {} /\ ValueOf(entry) = Counter(n)
      BY <1>1, <1>3, <2>4
    <3>2. Shifted(n, o.delta) = n + o.delta /\ n + o.delta \in Nat
      BY <1>1, <2>2, <2>4 DEF Shifted
    <3>3. out = Put("counter:add", entry, owner, Counter(n + o.delta))
      BY <1>5, <2>1, <3>1, <3>2 DEF CounterAdd
    <3>4. m = n + o.delta
      BY <2>1, <2>4
    <3> QED BY <1>6, <3>2, <3>3, <3>4 DEF m
  <2> QED BY <2>3, <2>4
<1>9. CASE o.op = "counter:sub"
  <2>1. out = CounterSub(o, entry, owner) /\ m = IF n < o.delta THEN n ELSE n - o.delta
    BY <1>9 DEF Handler, Tallied, entry, m
  <2>2. o.delta \in Nat \ {0}
    BY <1>9 DEF CountsBy
  <2>3. CASE n < 0
    BY <1>1, <1>2, <2>1, <2>2, <2>3 DEF CounterSub, m
  <2>4. CASE ~(n < 0)
    <3>1. entry # {} /\ ValueOf(entry) = Counter(n)
      BY <1>1, <1>3, <2>4
    <3>2. CASE n - o.delta < 0
      <4>1. out = Rejected
        BY <1>1, <1>5, <2>1, <3>1, <3>2 DEF CounterSub
      <4> QED BY <1>1, <2>1, <2>2, <3>2, <4>1 DEF m
    <3>3. CASE ~(n - o.delta < 0)
      <4>1. Shifted(n, -o.delta) = n - o.delta /\ n - o.delta \in Nat
        BY <1>1, <2>2, <3>3 DEF Shifted
      <4>2. out = Put("counter:sub", entry, owner, Counter(n - o.delta))
        BY <1>5, <2>1, <3>1, <3>3, <4>1 DEF CounterSub
      <4>3. m = n - o.delta
        BY <1>1, <2>1, <2>2, <3>3
      <4> QED BY <1>6, <4>1, <4>2, <4>3 DEF m
    <3> QED BY <3>2, <3>3
  <2> QED BY <2>3, <2>4
<1>10. CASE o.op = "counter:delete"
  <2>1. out = Deletion("counter:delete", entry, owner) /\ m = -1
    BY <1>10 DEF Handler, CounterDelete, Tallied, entry, m
  <2>2. CASE n < 0
    <3>1. n = -1
      BY <2>2 DEF CountValues
    <3>2. out = Rejected
      BY <1>2, <2>1, <2>2 DEF Deletion
    <3> QED BY <2>1, <3>1, <3>2 DEF m
  <2>3. CASE ~(n < 0)
    <3>1. entry # {}
      BY <1>1, <1>3, <2>3
    <3>2. out.status = "applied" /\ out.entry = {}
      BY <2>1, <3>1 DEF Deletion
    <3>3. Holds(owner, m) = {}
      BY <2>1 DEF Holds
    <3> QED BY <3>2, <3>3 DEF m
  <2> QED BY <2>2, <2>3
<1> QED BY <1>7, <1>8, <1>9, <1>10 DEF CountsBy, CounterOperations

(* The counts after each of txs. *)
Tallies(f, txs) ==
    /\ f[0] = -1
    /\ \A i \in 0 .. Len(txs) : f[i] \in CountValues
    /\ \A i \in 1 .. Len(txs) : f[i] = Tallied(f[i - 1], OperationOf(txs[i]))

Countable(C) == \A t \in C : CountsBy(OperationOf(t))

LEMMA TallyRuns ==
    ASSUME NEW C, Countable(C), NEW txs \in Seq(C)
    PROVE  \E f : Tallies(f, txs) /\ Tally(txs) = f[Len(txs)]
<1> DEFINE n == Len(txs)
           Z == CountValues
           zero == -1
           Step(i, x) == Tallied(x, OperationOf(txs[i]))
           F == CHOOSE g : g = [i \in 0 .. Len(txs) |->
                                   IF i = 0 THEN -1 ELSE Tallied(g[i - 1], OperationOf(txs[i]))]
           step == [i \in 1 .. n |-> [x \in Z |-> Step(i, x)]]
<1>1. n \in Nat /\ zero \in Z /\ \A i \in 1 .. n : txs[i] \in C
  BY DEF CountValues
<1>2. \A i \in 1 .. n : \A x \in Z : Step(i, x) \in Z
  BY <1>1, TalliedType DEF Countable
<1>3. F = CHOOSE g : g = [i \in 0 .. n |-> IF i = 0 THEN zero ELSE Step(i, g[i - 1])]
  OBVIOUS
<1>4. Tally(txs) = F[n]
  BY DEF Tally
<1> HIDE DEF Z, Step, F, zero
<1>5. step \in [1 .. n -> [Z -> Z]]
  BY <1>2
<1>6. PICK f : Iterates(f, Z, zero, n, step)
  <2> HIDE DEF step, n
  <2> QED BY <1>1, <1>5, IterationExists
<1>7. f = [i \in 0 .. n |-> IF i = 0 THEN zero ELSE Step(i, f[i - 1])]
  <2>1. ASSUME NEW i \in 1 .. n PROVE f[i] = Step(i, f[i - 1])
    <3>1. f[i - 1] \in Z /\ f[i] = step[i][f[i - 1]]
      <4> HIDE DEF step, n
      <4> QED BY <1>6 DEF Iterates
    <3> QED BY <3>1, <1>1
  <2>2. f[0] = zero /\ f \in [0 .. n -> Z]
    BY <1>6 DEF Iterates
  <2> HIDE DEF n
  <2> QED BY <1>1, <2>1, <2>2
<1>8. F = [i \in 0 .. n |-> IF i = 0 THEN zero ELSE Step(i, F[i - 1])]
  BY <1>3, <1>7
<1> HIDE DEF n
<1>9. F[0] = zero /\ \A i \in 1 .. n : F[i] = Step(i, F[i - 1])
  BY <1>1, <1>8
<1>10. Iterates(F, Z, zero, n, step)
  <2>1. \A i \in 1 .. n : F[i - 1] \in Z => F[i] = step[i][F[i - 1]]
    BY <1>9
  <2>2. F = [i \in 0 .. n |-> F[i]] /\ F[0] = zero
    BY <1>8, <1>9
  <2> HIDE DEF step
  <2> QED BY <1>1, <1>5, <2>1, <2>2, IterationTyped
<1>11. \A i \in 0 .. n : F[i] \in Z
  BY <1>10 DEF Iterates
<1>12. Tallies(F, txs)
  BY <1>9, <1>11 DEF n, Z, zero, Step, Tallies
<1> QED BY <1>4, <1>12 DEF n

LEMMA TallyAppend ==
    ASSUME NEW C, Countable(C), NEW txs \in Seq(C), NEW t \in C
    PROVE  /\ Tally(txs) \in CountValues
           /\ Tally(Append(txs, t)) = Tallied(Tally(txs), OperationOf(t))
<1> DEFINE n == Len(txs)
           more == Append(txs, t)
<1>1. /\ n \in Nat /\ more \in Seq(C) /\ Len(more) = n + 1 /\ more[n + 1] = t
      /\ \A i \in 1 .. n : more[i] = txs[i]
  OBVIOUS
<1> HIDE DEF more
<1>2. PICK f : Tallies(f, txs) /\ Tally(txs) = f[n]
  BY TallyRuns
<1>3. PICK g : Tallies(g, more) /\ Tally(more) = g[n + 1]
  BY <1>1, TallyRuns
<1> HIDE DEF n
<1>4. /\ f[0] = -1 /\ \A i \in 0 .. n : f[i] \in CountValues
      /\ \A i \in 1 .. n : f[i] = Tallied(f[i - 1], OperationOf(txs[i]))
  BY <1>2 DEF Tallies, n
<1>5. /\ g[0] = -1
      /\ \A i \in 1 .. n + 1 : g[i] = Tallied(g[i - 1], OperationOf(more[i]))
  BY <1>1, <1>3 DEF Tallies
<1> DEFINE S == {i \in Nat : g[i] = f[i]}
<1>6. \A i \in 0 .. n : i \in S
  <2>1. 0 \in S
    BY <1>4, <1>5
  <2>2. ASSUME NEW i \in 1 .. n, i - 1 \in S PROVE i \in S
    <3>1. i \in Nat /\ i \in 1 .. n + 1 /\ g[i - 1] = f[i - 1]
      BY <1>1, <2>2
    <3>2. g[i] = Tallied(g[i - 1], OperationOf(more[i]))
      BY <1>5, <3>1
    <3>3. f[i] = Tallied(f[i - 1], OperationOf(txs[i]))
      BY <1>4
    <3> QED BY <1>1, <3>1, <3>2, <3>3
  <2> HIDE DEF S
  <2> QED BY <1>1, <2>1, <2>2, IntervalInduction
<1>7. n \in 0 .. n /\ n + 1 \in 1 .. n + 1 /\ (n + 1) - 1 = n
  BY <1>1
<1>8. g[n] = f[n] /\ f[n] \in CountValues
  BY <1>4, <1>6, <1>7
<1>9. g[n + 1] = Tallied(g[n], OperationOf(more[n + 1]))
  BY <1>5, <1>7
<1> QED BY <1>1, <1>2, <1>3, <1>8, <1>9 DEF more

LEMMA TallyNothing == Tally(<<>>) = -1
<1> DEFINE C == {}
<1>1. Countable(C) /\ <<>> \in Seq(C)
  BY DEF Countable
<1> HIDE DEF C
<1>2. PICK f : Tallies(f, <<>>) /\ Tally(<<>>) = f[Len(<<>>)]
  BY <1>1, TallyRuns
<1> QED BY <1>2 DEF Tallies

(* What an answer leaves at its key, and that it leaves the others alone.  *)
LEMMA OutcomeAt ==
    ASSUME NEW d \in Derived, NEW t, NEW key, NEW actor, NEW out,
           Allowed(d, key, actor, out), ~Outcome(d, t, key, out).threw,
           NEW other
    PROVE  EntryAt(Outcome(d, t, key, out).state, other) =
              IF other = key /\ out # Rejected THEN out.entry ELSE EntryAt(d.state, other)
<1> DEFINE new == Outcome(d, t, key, out)
<1>1. key \in Key /\ Answers(out, EntryAt(d.state, key), actor)
  BY DEF Allowed
<1>2. d \in DerivedType /\ d.state \in Maps(Key, Entry)
  BY DerivedFields DEF Derived
<1>3. CASE out = Threw
  <2>1. new = [d EXCEPT !.threw = TRUE]
    BY <1>3 DEF Outcome, Threw
  <2>2. new.threw
    BY <1>2, <2>1 DEF DerivedType
  <2> QED BY <2>2
<1>4. CASE out = Rejected
  <2>1. new = [d EXCEPT !.results = With(@, t, "rejected")]
    BY <1>4 DEF Outcome, Rejected
  <2>2. new.state = d.state
    BY <1>2, <2>1 DEF DerivedType
  <2> QED BY <1>4, <2>2
<1>5. CASE out.status = "applied"
  <2> DEFINE before == d.state
             after == StateWith(before, key, out.entry)
             history == With(d.history, key, Append(HistoryOf(d, key), out.change))
             results == With(d.results, t, "applied")
  <2>1. new = [d EXCEPT !.state = after, !.history = history, !.results = results]
    BY <1>5 DEF Outcome, StateWith
  <2>2. AtMostOne(out.entry)
    <3>1. /\ out.change \in Change
          /\ out.entry = IF Deletes(out.change) THEN {}
                         ELSE {[value |-> out.change.nextValue, owner |-> out.change.owner]}
      BY <1>1, <1>5 DEF Answers, Rejected, Threw
    <3>2. [value |-> out.change.nextValue, owner |-> out.change.owner] \in Entry
      BY <3>1 DEF Change, Entry
    <3> QED BY <3>1, <3>2 DEF AtMostOne
  <2> HIDE DEF new, after, history, results
  <2>3. new.state = after
    BY <1>2, <2>1 DEF DerivedType
  <2>4. after = StateWith(before, key, out.entry) /\ before \in Maps(Key, Entry)
    BY <1>2 DEF after
  <2> HIDE DEF before
  <2>5. /\ EntryAt(after, key) = out.entry
        /\ \A k : k # key => EntryAt(after, k) = EntryAt(before, k)
    BY <1>1, <2>2, <2>4, StateAfter
  <2>6. out # Rejected
    BY <1>5 DEF Rejected
  <2> QED BY <2>3, <2>5, <2>6 DEF new, before
<1> QED BY <1>1, <1>3, <1>4, <1>5 DEF Answers

(* A transaction changes the entry of a counter as it changes its count.   *)
LEMMA ExecuteCounts ==
    ASSUME NEW d \in Derived, NEW t \in Lawful, NEW owner \in Address, NEW id,
           NEW key, key = CounterKeyOf(owner, id), NEW n \in CountValues,
           t \in OperatesOn(key) => t \in Counting(key),
           ~Execute(d, t).threw,
           EntryAt(d.state, key) = Holds(owner, n)
    PROVE  EntryAt(Execute(d, t).state, key) =
              IF t \in OperatesOn(key) THEN Holds(owner, Tallied(n, OperationOf(t)))
              ELSE Holds(owner, n)
<1> DEFINE new == Execute(d, t)
           entry == Holds(owner, n)
<1>1. ~d.threw
  <2>1. d.threw => new = d
    BY DEF Execute
  <2> QED BY <2>1
<1>2. ASSUME NEW r, new = [d EXCEPT !.results = With(@, t, r)]
      PROVE  EntryAt(new.state, key) = entry
  <2>1. d \in DerivedType
    BY DEF Derived
  <2>2. new.state = d.state
    BY <1>2, <2>1 DEF DerivedType
  <2> QED BY <2>2
<1>3. t \in OperatesOn(key) => IsOperation(t) /\ KeyOf(t) = key
  BY DEF OperatesOn, KeyOf
<1> HIDE DEF entry
<1>4. CASE ~IsOperation(t)
  <2>1. new = [d EXCEPT !.results = With(@, t, "applied")]
    BY <1>1, <1>4 DEF Execute
  <2> QED BY <1>2, <1>3, <1>4, <2>1 DEF entry
<1>5. CASE IsOperation(t) /\ t \notin OperatesOn(key)
  <2>1. KeyOf(t) # key
    BY <1>5, OperationFields DEF OperatesOn, KeyOf
  <2>2. CASE ~MayChange(d, t)
    <3>1. new = [d EXCEPT !.results = With(@, t, "rejected")]
      BY <1>1, <1>5, <2>2, ExecuteOperation
    <3> QED BY <1>2, <1>5, <3>1 DEF entry
  <2>3. CASE MayChange(d, t)
    <3> DEFINE out == AnswerTo(d, t)
               k == KeyOf(t)
               actor == t.from
    <3>1. Allowed(d, k, actor, out) /\ new = Outcome(d, t, k, out)
      BY <1>1, <1>5, <2>3, ExecuteOperation
    <3>2. ~Outcome(d, t, k, out).threw
      BY <3>1
    <3> HIDE DEF out, k, actor
    <3>3. EntryAt(Outcome(d, t, k, out).state, key) =
             IF key = k /\ out # Rejected THEN out.entry ELSE EntryAt(d.state, key)
      BY <3>1, <3>2, OutcomeAt
    <3>4. EntryAt(new.state, key) = EntryAt(d.state, key)
      BY <2>1, <3>1, <3>3 DEF k
    <3> QED BY <1>5, <3>4
  <2> QED BY <2>2, <2>3
<1>6. CASE t \in OperatesOn(key)
  <2> DEFINE o == OperationOf(t)
             out == Handler(o, entry, owner)
             m == Tallied(n, o)
  <2>1. /\ IsOperation(t) /\ t.from = owner /\ KeyOf(t) = key /\ CountsBy(o)
    BY <1>6, CountingFields
  <2>2. AnswerTo(d, t) = out
    BY <2>1 DEF AnswerTo, entry
  <2>3. \/ out = Rejected /\ m = n
        \/ out.status = "applied" /\ out.entry = Holds(owner, m)
    <3> HIDE DEF o
    <3> QED BY <2>1, CounterCounts DEF entry
  <2>4. MayChange(d, t)
    <3>1. OwnerOf(entry, owner) = owner
      BY HoldsOwner DEF entry
    <3> QED BY <2>1, <3>1 DEF MayChange, entry
  <2>5. Allowed(d, key, owner, out) /\ new = Outcome(d, t, key, out)
    BY <1>1, <2>1, <2>2, <2>4, ExecuteOperation
  <2> HIDE DEF out, m
  <2>6. ~Outcome(d, t, key, out).threw
    BY <2>5
  <2>7. EntryAt(Outcome(d, t, key, out).state, key) =
           IF key = key /\ out # Rejected THEN out.entry ELSE EntryAt(d.state, key)
    BY <2>5, <2>6, OutcomeAt
  <2>8. EntryAt(new.state, key) = Holds(owner, m)
    <3>1. out.status = "applied" => out # Rejected
      BY DEF Rejected
    <3> QED BY <2>3, <2>5, <2>7, <3>1
  <2> QED BY <1>6, <2>8 DEF m
<1> QED BY <1>4, <1>5, <1>6

(* Along a chain, the entry at the key of a counter is what its operations *)
(* come to.                                                                *)
LEMMA CounterAlong ==
    ASSUME NEW owner \in Address, NEW id \in Id, NEW key, key = CounterKeyOf(owner, id),
           NEW txs \in Seq(Lawful), NEW at, at = Subsequence(txs, OperatesOn(key)),
           \A i \in 1 .. Len(at) : at[i] \in Counting(key),
           ~ExecuteAll(NoDerived, txs).threw
    PROVE  /\ Tally(at) \in CountValues
           /\ EntryAt(ExecuteAll(NoDerived, txs).state, key) = Holds(owner, Tally(at))
<1> DEFINE n == Len(txs)
           keep == OperatesOn(key)
           T == Lawful
           C == Counting(key) \cap Lawful
<1>1. n \in Nat /\ \A i \in 1 .. n : txs[i] \in Lawful
  OBVIOUS
<1>2. PICK run : Executes(run, NoDerived, txs, Derived) /\ ExecuteAll(NoDerived, txs) = run[n]
  BY NoDerivedIsDerived, ExecuteAllRuns
<1>3. PICK f : Filters(f, T, txs, keep) /\ at = f[n]
  <2> HIDE DEF T, keep, n
  <2>1. txs \in Seq(T) /\ at = Subsequence(txs, keep)
    BY DEF T, keep
  <2> QED BY <2>1, SubsequenceDef DEF n
<1>4. /\ run[0] = NoDerived
      /\ \A i \in 1 .. n : run[i - 1] \in Derived /\ run[i] = Execute(run[i - 1], txs[i])
  <2>1. \A i \in 1 .. n : i - 1 \in 0 .. n
    BY <1>1
  <2> QED BY <1>2, <2>1 DEF Executes
<1>5. /\ f[0] = <<>>
      /\ \A i \in 1 .. n : f[i] = IF txs[i] \in keep THEN Append(f[i - 1], txs[i]) ELSE f[i - 1]
  BY <1>3 DEF Filters
<1>6. \A i \in 1 .. n : txs[i] \in keep => txs[i] \in Counting(key)
  <2>1. SUFFICES ASSUME NEW i \in 1 .. n, txs[i] \in keep PROVE txs[i] \in Counting(key)
    OBVIOUS
  <2>2. \E k \in 1 .. Len(at) : at[k] = txs[i]
    <3> HIDE DEF T, keep
    <3>1. txs \in Seq(T) /\ at = Subsequence(txs, keep)
      BY DEF T, keep
    <3> QED BY <2>1, <3>1, SubsequenceCovers
  <2> QED BY <2>2
<1>7. Countable(C)
  BY CountingFields DEF Countable
<1> DEFINE Agrees(i) == /\ f[i] \in Seq(C) /\ Tally(f[i]) \in CountValues
                        /\ ~run[i].threw => EntryAt(run[i].state, key) = Holds(owner, Tally(f[i]))
           S == {i \in Nat : Agrees(i)}
<1> HIDE DEF C, keep, n, T
<1>8. Agrees(0)
  <2>1. f[0] = <<>> /\ <<>> \in Seq(C)
    BY <1>5
  <2>2. Tally(<<>>) = -1 /\ -1 \in CountValues
    BY TallyNothing DEF CountValues
  <2>3. EntryAt(NoDerived.state, key) = {} /\ Holds(owner, -1) = {}
    BY DEF NoDerived, EntryAt, Holds
  <2> QED BY <1>4, <2>1, <2>2, <2>3
<1>9. ASSUME NEW i \in 1 .. n, Agrees(i - 1) PROVE Agrees(i)
  <2> DEFINE t == txs[i]
             d == run[i - 1]
             q == f[i - 1]
  <2>1. d \in Derived /\ t \in Lawful /\ run[i] = Execute(d, t)
    BY <1>1, <1>4
  <2>2. q \in Seq(C) /\ Tally(q) \in CountValues
        /\ (~d.threw => EntryAt(d.state, key) = Holds(owner, Tally(q)))
    BY <1>9
  <2>3. f[i] = (IF t \in keep THEN Append(q, t) ELSE q) /\ (t \in keep => t \in C)
    BY <1>5, <1>6, <2>1 DEF C
  <2>4. ~run[i].threw => ~d.threw
    <3>1. d.threw => Execute(d, t) = d
      BY DEF Execute
    <3> QED BY <2>1, <3>1
  <2> HIDE DEF t, d, q
  <2>5. CASE t \in keep
    <3>1. Tally(Append(q, t)) = Tallied(Tally(q), OperationOf(t))
      BY <1>7, <2>2, <2>3, <2>5, TallyAppend
    <3>2. Tallied(Tally(q), OperationOf(t)) \in CountValues
      BY <1>7, <2>2, <2>3, <2>5, TalliedType DEF Countable
    <3>3. Append(q, t) \in Seq(C)
      BY <2>2, <2>3, <2>5
    <3>4. ASSUME ~run[i].threw
          PROVE  EntryAt(run[i].state, key) = Holds(owner, Tallied(Tally(q), OperationOf(t)))
      <4>1. t \in OperatesOn(key) /\ t \in Counting(key)
        BY <2>3, <2>5 DEF keep, C
      <4>2. ~Execute(d, t).threw /\ EntryAt(d.state, key) = Holds(owner, Tally(q))
        BY <2>1, <2>2, <2>4, <3>4
      <4> DEFINE m == Tally(q)
      <4>3. m \in CountValues /\ EntryAt(d.state, key) = Holds(owner, m)
        BY <2>2, <4>2
      <4> HIDE DEF m
      <4>4. EntryAt(Execute(d, t).state, key) = Holds(owner, Tallied(m, OperationOf(t)))
        BY <2>1, <4>1, <4>2, <4>3, ExecuteCounts
      <4> QED BY <2>1, <4>4 DEF m
    <3> QED BY <2>3, <2>5, <3>1, <3>2, <3>3, <3>4
  <2>6. CASE t \notin keep
    <3>1. ASSUME ~run[i].threw
          PROVE  EntryAt(run[i].state, key) = Holds(owner, Tally(q))
      <4>1. t \notin OperatesOn(key)
        BY <2>6 DEF keep
      <4>2. ~Execute(d, t).threw
        BY <2>1, <3>1
      <4> DEFINE m == Tally(q)
      <4>3. m \in CountValues /\ EntryAt(d.state, key) = Holds(owner, m)
        BY <2>2, <2>4, <3>1
      <4> HIDE DEF m
      <4>4. EntryAt(Execute(d, t).state, key) = Holds(owner, m)
        BY <2>1, <4>1, <4>2, <4>3, ExecuteCounts
      <4> QED BY <2>1, <4>4 DEF m
    <3> QED BY <2>2, <2>3, <2>6, <3>1
  <2> QED BY <2>5, <2>6
<1>10. \A i \in 0 .. n : i \in S
  <2>1. 0 \in S
    BY <1>8
  <2>2. ASSUME NEW i \in 1 .. n, i - 1 \in S PROVE i \in S
    <3>1. Agrees(i - 1) /\ i \in Nat
      BY <2>2
    <3> HIDE DEF Agrees
    <3> QED BY <1>9, <3>1
  <2> HIDE DEF S
  <2> QED BY <1>1, <2>1, <2>2, IntervalInduction
<1>11. n \in 0 .. n
  BY <1>1
<1>12. Agrees(n)
  <2> HIDE DEF Agrees
  <2> QED BY <1>10, <1>11
<1> QED BY <1>2, <1>3, <1>12

-----------------------------------------------------------------------------
(* Executions that differ only in what is no data transaction: the same    *)
(* state and history, and the same results of the data transactions.       *)

SameResults(f, g) ==
    /\ DOMAIN f \cap DOMAIN Payload = DOMAIN g \cap DOMAIN Payload
    /\ \A t \in DOMAIN f \cap DOMAIN Payload : f[t] = g[t]

SameToApps(d, e) ==
    /\ d.state = e.state /\ d.history = e.history /\ d.threw = e.threw
    /\ SameResults(d.results, e.results)

LEMMA SameRefl == ASSUME NEW d PROVE SameToApps(d, d)
BY DEF SameToApps, SameResults

LEMMA SameResultsRestrict ==
    ASSUME NEW f, NEW g, SameResults(f, g)
    PROVE  Restrict(f, DOMAIN f \cap DOMAIN Payload) = Restrict(g, DOMAIN g \cap DOMAIN Payload)
BY DEF SameResults, Restrict

LEMMA SameResultsJoin ==
    ASSUME NEW f, NEW g, NEW h, SameResults(f, g), SameResults(f, h)
    PROVE  SameResults(g, h)
BY DEF SameResults

LEMMA SameJoin ==
    ASSUME NEW d, NEW e, NEW f, SameToApps(d, e), SameToApps(d, f)
    PROVE  SameToApps(e, f)
<1>1. SameResults(e.results, f.results)
  BY SameResultsJoin DEF SameToApps
<1> QED BY <1>1 DEF SameToApps

LEMMA WithSame ==
    ASSUME NEW f, NEW g, SameResults(f, g), NEW t, NEW r
    PROVE  /\ SameResults(With(f, t, r), With(g, t, r))
           /\ t \notin DOMAIN Payload => SameResults(With(f, t, r), g)
<1>1. /\ DOMAIN With(f, t, r) = DOMAIN f \cup {t}
      /\ \A k \in DOMAIN f \cup {t} : With(f, t, r)[k] = IF k = t THEN r ELSE f[k]
  BY DEF With
<1>2. /\ DOMAIN With(g, t, r) = DOMAIN g \cup {t}
      /\ \A k \in DOMAIN g \cup {t} : With(g, t, r)[k] = IF k = t THEN r ELSE g[k]
  BY DEF With
<1> DEFINE u == With(f, t, r)
           v == With(g, t, r)
<1> HIDE DEF u, v
<1>3. SameResults(u, v)
  <2>1. DOMAIN u \cap DOMAIN Payload = DOMAIN v \cap DOMAIN Payload
    BY <1>1, <1>2 DEF u, v, SameResults
  <2>2. ASSUME NEW k \in DOMAIN u \cap DOMAIN Payload PROVE u[k] = v[k]
    <3>1. k = t \/ k \in DOMAIN f \cap DOMAIN Payload
      BY <1>1 DEF u
    <3>2. CASE k = t
      BY <1>1, <1>2, <3>2 DEF u, v
    <3>3. CASE k # t
      <4>1. k \in DOMAIN f /\ k \in DOMAIN g /\ f[k] = g[k]
        BY <3>1, <3>3 DEF SameResults
      <4> QED BY <1>1, <1>2, <3>3, <4>1 DEF u, v
    <3> QED BY <3>2, <3>3
  <2> QED BY <2>1, <2>2 DEF SameResults
<1>4. ASSUME t \notin DOMAIN Payload PROVE SameResults(u, g)
  <2>1. DOMAIN u \cap DOMAIN Payload = DOMAIN g \cap DOMAIN Payload
    BY <1>1, <1>4 DEF u, SameResults
  <2>2. ASSUME NEW k \in DOMAIN u \cap DOMAIN Payload PROVE u[k] = g[k]
    <3>1. k # t /\ k \in DOMAIN f \cap DOMAIN Payload
      BY <1>1, <1>4 DEF u
    <3>2. u[k] = f[k] /\ f[k] = g[k]
      BY <1>1, <3>1 DEF u, SameResults
    <3> QED BY <3>2
  <2> QED BY <2>1, <2>2 DEF SameResults
<1> QED BY <1>3, <1>4 DEF u, v

(* The fields of what an execution makes of d. *)
Becomes(new, state, history, results, threw) ==
    new.state = state /\ new.history = history /\ new.results = results /\ new.threw = threw

LEMMA ResultBecomes ==
    ASSUME NEW d \in Derived, NEW t, NEW r
    PROVE  Becomes([d EXCEPT !.results = With(@, t, r)],
                   d.state, d.history, With(d.results, t, r), d.threw)
<1> DEFINE w == With(d.results, t, r)
           new == [d EXCEPT !.results = w]
<1> HIDE DEF w
<1>1. d = [state |-> d.state, history |-> d.history, results |-> d.results, threw |-> d.threw]
  BY DerivedFields
<1>2. Becomes(new, d.state, d.history, w, d.threw)
  BY <1>1 DEF Becomes
<1> QED BY <1>2 DEF w

LEMMA OutcomeBecomes ==
    ASSUME NEW d \in Derived, NEW t, NEW key, NEW out
    PROVE  /\ out = Threw =>
                Becomes(Outcome(d, t, key, out), d.state, d.history, d.results, TRUE)
           /\ out = Rejected =>
                Becomes(Outcome(d, t, key, out), d.state, d.history,
                        With(d.results, t, "rejected"), d.threw)
           /\ out.status = "applied" =>
                Becomes(Outcome(d, t, key, out), StateWith(d.state, key, out.entry),
                        With(d.history, key, Append(HistoryOf(d, key), out.change)),
                        With(d.results, t, "applied"), d.threw)
<1> DEFINE new == Outcome(d, t, key, out)
<1>1. d = [state |-> d.state, history |-> d.history, results |-> d.results, threw |-> d.threw]
  BY DerivedFields
<1>2. ASSUME out = Threw PROVE Becomes(new, d.state, d.history, d.results, TRUE)
  <2>1. new = [d EXCEPT !.threw = TRUE]
    BY <1>2 DEF Outcome, Threw
  <2> HIDE DEF new
  <2> QED BY <1>1, <2>1 DEF Becomes
<1>3. ASSUME out = Rejected
      PROVE  Becomes(new, d.state, d.history, With(d.results, t, "rejected"), d.threw)
  <2>1. new = [d EXCEPT !.results = With(@, t, "rejected")]
    BY <1>3 DEF Outcome, Rejected
  <2> HIDE DEF new
  <2> QED BY <2>1, ResultBecomes
<1>4. ASSUME out.status = "applied"
      PROVE  Becomes(new, StateWith(d.state, key, out.entry),
                     With(d.history, key, Append(HistoryOf(d, key), out.change)),
                     With(d.results, t, "applied"), d.threw)
  <2> DEFINE state == StateWith(d.state, key, out.entry)
             history == With(d.history, key, Append(HistoryOf(d, key), out.change))
             results == With(d.results, t, "applied")
  <2>1. new = [d EXCEPT !.state = state, !.history = history, !.results = results]
    BY <1>4 DEF Outcome, StateWith
  <2> HIDE DEF new, state, history, results
  <2>2. Becomes(new, state, history, results, d.threw)
    BY <1>1, <2>1 DEF Becomes
  <2> QED BY <2>2 DEF state, history, results
<1> QED BY <1>2, <1>3, <1>4

LEMMA OutcomeSame ==
    ASSUME NEW d \in Derived, NEW e \in Derived, SameToApps(d, e), NEW t, NEW key,
           NEW actor, NEW out, Allowed(d, key, actor, out)
    PROVE  SameToApps(Outcome(d, t, key, out), Outcome(e, t, key, out))
<1>1. out = Threw \/ out = Rejected \/ out.status = "applied"
  BY DEF Allowed, Answers
<1>2. /\ d.state = e.state /\ d.history = e.history /\ d.threw = e.threw
      /\ SameResults(d.results, e.results)
      /\ HistoryOf(d, key) = HistoryOf(e, key)
  BY DEF SameToApps, HistoryOf
<1>3. \A r : SameResults(With(d.results, t, r), With(e.results, t, r))
  BY <1>2, WithSame
<1>4. CASE out = Threw
  <2>1. /\ Becomes(Outcome(d, t, key, out), d.state, d.history, d.results, TRUE)
        /\ Becomes(Outcome(e, t, key, out), e.state, e.history, e.results, TRUE)
    BY <1>4, OutcomeBecomes
  <2> QED BY <1>2, <2>1 DEF Becomes, SameToApps
<1>5. CASE out = Rejected
  <2>1. /\ Becomes(Outcome(d, t, key, out), d.state, d.history,
                   With(d.results, t, "rejected"), d.threw)
        /\ Becomes(Outcome(e, t, key, out), e.state, e.history,
                   With(e.results, t, "rejected"), e.threw)
    BY <1>5, OutcomeBecomes
  <2> QED BY <1>2, <1>3, <2>1 DEF Becomes, SameToApps
<1>6. CASE out.status = "applied"
  <2>1. /\ Becomes(Outcome(d, t, key, out), StateWith(d.state, key, out.entry),
                   With(d.history, key, Append(HistoryOf(d, key), out.change)),
                   With(d.results, t, "applied"), d.threw)
        /\ Becomes(Outcome(e, t, key, out), StateWith(e.state, key, out.entry),
                   With(e.history, key, Append(HistoryOf(e, key), out.change)),
                   With(e.results, t, "applied"), e.threw)
    BY <1>6, OutcomeBecomes
  <2> QED BY <1>2, <1>3, <2>1 DEF Becomes, SameToApps
<1> QED BY <1>1, <1>4, <1>5, <1>6

(* A data transaction does the same to both; another changes nothing that  *)
(* an application looks at.                                                *)
LEMMA ExecuteSame ==
    ASSUME NEW d \in Derived, NEW e \in Derived, SameToApps(d, e), NEW t \in Lawful
    PROVE  /\ SameToApps(Execute(d, t), Execute(e, t))
           /\ t \notin DOMAIN Payload => SameToApps(Execute(d, t), e)
<1>1. /\ d.state = e.state /\ d.history = e.history /\ d.threw = e.threw
      /\ SameResults(d.results, e.results)
      /\ d.threw \in BOOLEAN
  BY DerivedFields DEF SameToApps
<1>2. ASSUME NEW r
      PROVE  /\ SameToApps([d EXCEPT !.results = With(@, t, r)],
                           [e EXCEPT !.results = With(@, t, r)])
             /\ t \notin DOMAIN Payload => SameToApps([d EXCEPT !.results = With(@, t, r)], e)
  <2> DEFINE u == [d EXCEPT !.results = With(@, t, r)]
             v == [e EXCEPT !.results = With(@, t, r)]
  <2>1. Becomes(u, d.state, d.history, With(d.results, t, r), d.threw)
    BY ResultBecomes
  <2>2. Becomes(v, e.state, e.history, With(e.results, t, r), e.threw)
    BY ResultBecomes
  <2>3. /\ SameResults(With(d.results, t, r), With(e.results, t, r))
        /\ t \notin DOMAIN Payload => SameResults(With(d.results, t, r), e.results)
    BY <1>1, WithSame
  <2> HIDE DEF u, v
  <2>4. SameToApps(u, v) /\ (t \notin DOMAIN Payload => SameToApps(u, e))
    BY <1>1, <2>1, <2>2, <2>3 DEF Becomes, SameToApps
  <2> QED BY <2>4 DEF u, v
<1>3. CASE d.threw
  <2>1. Execute(d, t) = d /\ Execute(e, t) = e
    BY <1>1, <1>3 DEF Execute
  <2> QED BY <2>1
<1>4. CASE ~d.threw /\ ~IsOperation(t)
  <2>1. /\ Execute(d, t) = [d EXCEPT !.results = With(@, t, "applied")]
        /\ Execute(e, t) = [e EXCEPT !.results = With(@, t, "applied")]
    BY <1>1, <1>4 DEF Execute
  <2> QED BY <1>2, <2>1
<1>5. CASE ~d.threw /\ IsOperation(t)
  <2>1. AnswerTo(d, t) = AnswerTo(e, t) /\ (MayChange(d, t) <=> MayChange(e, t))
    BY <1>1 DEF AnswerTo, MayChange
  <2>2. t \in DOMAIN Payload
    BY <1>5 DEF IsOperation
  <2>3. ~e.threw
    BY <1>1, <1>5
  <2>4. CASE ~MayChange(d, t)
    <3>1. /\ Execute(d, t) = [d EXCEPT !.results = With(@, t, "rejected")]
          /\ Execute(e, t) = [e EXCEPT !.results = With(@, t, "rejected")]
      BY <1>5, <2>1, <2>3, <2>4, ExecuteOperation
    <3> QED BY <1>2, <2>2, <3>1
  <2>5. CASE MayChange(d, t)
    <3>1. /\ Allowed(d, KeyOf(t), t.from, AnswerTo(d, t))
          /\ Execute(d, t) = Outcome(d, t, KeyOf(t), AnswerTo(d, t))
      BY <1>5, <2>5, ExecuteOperation
    <3>2. Execute(e, t) = Outcome(e, t, KeyOf(t), AnswerTo(d, t))
      BY <1>5, <2>1, <2>3, <2>5, ExecuteOperation
    <3>3. SameToApps(Execute(d, t), Execute(e, t))
      BY <3>1, <3>2, OutcomeSame
    <3> QED BY <2>2, <3>3
  <2> QED BY <2>4, <2>5
<1> QED BY <1>1, <1>3, <1>4, <1>5

LEMMA ExecuteNothing ==
    ASSUME NEW d \in Derived
    PROVE  ExecuteAll(d, <<>>) = d
<1>1. <<>> \in Seq(Lawful) /\ Len(<<>>) = 0
  OBVIOUS
<1>2. PICK run : Executes(run, d, <<>>, Derived) /\ ExecuteAll(d, <<>>) = run[0]
  BY <1>1, ExecuteAllRuns
<1> QED BY <1>2 DEF Executes

LEMMA ExecuteAllNext ==
    ASSUME NEW d \in Derived, NEW txs \in Seq(Lawful), NEW t \in Lawful
    PROVE  ExecuteAll(d, Append(txs, t)) = Execute(ExecuteAll(d, txs), t)
<1> DEFINE n == Len(txs)
           more == Append(txs, t)
<1>1. /\ n \in Nat /\ more \in Seq(Lawful) /\ Len(more) = n + 1 /\ more[n + 1] = t
      /\ \A i \in 1 .. n : more[i] = txs[i]
  OBVIOUS
<1>2. PICK f : Executes(f, d, txs, Derived) /\ ExecuteAll(d, txs) = f[n]
  BY ExecuteAllRuns
<1>3. PICK h : Executes(h, d, more, Derived) /\ ExecuteAll(d, more) = h[n + 1]
  <2> HIDE DEF more
  <2>1. \E h : Executes(h, d, more, Derived) /\ ExecuteAll(d, more) = h[Len(more)]
    BY <1>1, ExecuteAllRuns
  <2> QED BY <1>1, <2>1
<1> HIDE DEF n, more
<1>4. f[0] = d /\ \A i \in 1 .. n : f[i] = Execute(f[i - 1], txs[i])
  BY <1>2 DEF Executes, n
<1>5. h[0] = d /\ \A i \in 1 .. n + 1 : h[i] = Execute(h[i - 1], more[i])
  BY <1>1, <1>3 DEF Executes
<1> DEFINE S == {i \in 0 .. n : f[i] = h[i]}
<1>6. 0 \in S
  BY <1>1, <1>4, <1>5
<1>7. ASSUME NEW i \in 1 .. n, i - 1 \in S PROVE i \in S
  <2>1. i \in 0 .. n /\ i \in 1 .. n + 1 /\ f[i - 1] = h[i - 1]
    BY <1>1, <1>7
  <2>2. f[i] = h[i]
    BY <1>1, <1>4, <1>5, <2>1
  <2> QED BY <2>1, <2>2
<1>8. \A i \in 0 .. n : i \in S
  <2> HIDE DEF S
  <2> QED BY <1>1, <1>6, <1>7, IntervalInduction
<1>9. f[n] = h[n]
  <2>1. n \in 0 .. n
    BY <1>1
  <2> QED BY <1>8, <2>1
<1>10. h[n + 1] = Execute(h[n], t)
  <2>1. n + 1 \in 1 .. n + 1 /\ (n + 1) - 1 = n
    BY <1>1
  <2> QED BY <1>1, <1>5, <2>1
<1> QED BY <1>2, <1>3, <1>9, <1>10 DEF more

LEMMA ExecuteAllConcat ==
    ASSUME NEW d \in Derived, NEW u \in Seq(Lawful), NEW v \in Seq(Lawful)
    PROVE  ExecuteAll(d, u \o v) = ExecuteAll(ExecuteAll(d, u), v)
<1> DEFINE n == Len(v)
           L == Lawful
           front(i) == SubSeq(v, 1, i)
           e == ExecuteAll(d, u)
           S == {i \in 0 .. n : ExecuteAll(d, u \o front(i)) = ExecuteAll(e, front(i))}
<1>1. n \in Nat /\ u \in Seq(L) /\ \A i \in 0 .. n : front(i) \in Seq(L)
  <2> HIDE DEF L
  <2>1. v \in Seq(L) /\ u \in Seq(L)
    BY DEF L
  <2> QED BY <2>1, Beginnings
<1>2. e \in Derived
  BY ExecuteAllKept
<1> HIDE DEF e
<1>3. 0 \in S
  <2>1. front(0) = <<>> /\ u \o <<>> = u
    OBVIOUS
  <2>2. ExecuteAll(e, <<>>) = e
    BY <1>2, ExecuteNothing
  <2>3. ExecuteAll(d, u \o front(0)) = ExecuteAll(e, front(0))
    <3> HIDE DEF front
    <3> QED BY <2>1, <2>2 DEF e
  <2> HIDE DEF front
  <2> QED BY <1>1, <2>3
<1>4. ASSUME NEW i \in 1 .. n, i - 1 \in S PROVE i \in S
  <2> DEFINE s == front(i - 1)
             x == v[i]
  <2>1. i - 1 \in 0 .. n /\ i \in 0 .. n /\ x \in L
    BY <1>1
  <2>2. front(i) = Append(s, x)
    BY PrefixAppend
  <2>3. s \in Seq(L)
    <3> HIDE DEF front
    <3> QED BY <1>1, <2>1
  <2>4. ExecuteAll(d, u \o s) = ExecuteAll(e, s)
    BY <1>4
  <2> HIDE DEF front, s, x
  <2>5. u \o Append(s, x) = Append(u \o s, x) /\ u \o s \in Seq(L)
    <3> HIDE DEF L
    <3> QED BY <1>1, <2>1, <2>3, ConcatGrows
  <2>6. ExecuteAll(d, Append(u \o s, x)) = Execute(ExecuteAll(d, u \o s), x)
    BY <2>1, <2>5, ExecuteAllNext
  <2>7. ExecuteAll(e, Append(s, x)) = Execute(ExecuteAll(e, s), x)
    BY <1>2, <2>1, <2>3, ExecuteAllNext
  <2>8. ExecuteAll(d, u \o front(i)) = ExecuteAll(e, front(i))
    BY <2>2, <2>4, <2>5, <2>6, <2>7
  <2> QED BY <2>1, <2>8
<1>5. \A i \in 0 .. n : i \in S
  <2> HIDE DEF S
  <2> QED BY <1>1, <1>3, <1>4, IntervalInduction
<1>6. front(n) = v
  BY PrefixWhole
<1>7. ExecuteAll(d, u \o front(n)) = ExecuteAll(e, front(n))
  <2> HIDE DEF front
  <2> QED BY <1>1, <1>5
<1> QED BY <1>6, <1>7 DEF e

(* getPendingStatePreview executes the data transactions only, a block all *)
(* of them: no application sees the difference.                            *)
LEMMA ExecuteDataSame ==
    ASSUME NEW d \in Derived, NEW e \in Derived, SameToApps(d, e), NEW txs \in Seq(Lawful)
    PROVE  /\ SameToApps(ExecuteAll(d, txs), ExecuteAll(e, Subsequence(txs, DOMAIN Payload)))
           /\ ExecuteAll(e, Subsequence(txs, DOMAIN Payload)) \in Derived
<1> DEFINE n == Len(txs)
           L == Lawful
           D == DOMAIN Payload
           front(i) == SubSeq(txs, 1, i)
<1>1. n \in Nat /\ txs \in Seq(L) /\ \A i \in 0 .. n : front(i) \in Seq(L)
  <2> HIDE DEF L
  <2>1. txs \in Seq(L)
    BY DEF L
  <2> QED BY <2>1, Beginnings
<1>2. PICK f : Filters(f, L, txs, D) /\ Subsequence(txs, D) = f[n]
  <2> HIDE DEF L, n, D
  <2> QED BY <1>1, SubsequenceDef DEF n
<1>3. /\ f[0] = <<>>
      /\ \A i \in 1 .. n :
            /\ f[i - 1] \in Seq(L \cap D)
            /\ txs[i] \in D => f[i] = Append(f[i - 1], txs[i])
            /\ txs[i] \notin D => f[i] = f[i - 1]
  BY <1>2 DEF Filters
<1> DEFINE left(i) == ExecuteAll(d, front(i))
           right(i) == ExecuteAll(e, f[i])
           S == {i \in 0 .. n : f[i] \in Seq(L) /\ SameToApps(left(i), right(i))}
<1>4. 0 \in S
  <2>1. front(0) = <<>> /\ f[0] \in Seq(L)
    BY <1>3
  <2>2. ExecuteAll(d, <<>>) = d /\ ExecuteAll(e, <<>>) = e
    BY ExecuteNothing
  <2>3. left(0) = d /\ right(0) = e
    <3> HIDE DEF front
    <3> QED BY <1>3, <2>1, <2>2
  <2> HIDE DEF left, right, L
  <2> QED BY <1>1, <2>1, <2>3
<1>5. ASSUME NEW i \in 1 .. n, i - 1 \in S PROVE i \in S
  <2> DEFINE s == front(i - 1)
             q == f[i - 1]
             x == txs[i]
  <2>1. i - 1 \in 0 .. n /\ i \in 0 .. n /\ x \in L
    BY <1>1
  <2>2. front(i) = Append(s, x)
    BY PrefixAppend
  <2>3. s \in Seq(L)
    <3> HIDE DEF front
    <3> QED BY <1>1, <2>1
  <2>4. q \in Seq(L) /\ SameToApps(left(i - 1), right(i - 1))
    <3> HIDE DEF left, right, L
    <3> QED BY <1>5
  <2>5. left(i - 1) = ExecuteAll(d, s) /\ right(i - 1) = ExecuteAll(e, q)
    OBVIOUS
  <2>6. left(i) = ExecuteAll(d, Append(s, x))
    <3> HIDE DEF front, s, x
    <3> QED BY <2>2
  <2>7. ExecuteAll(d, Append(s, x)) = Execute(ExecuteAll(d, s), x)
    <3> HIDE DEF s, x
    <3> QED BY <2>1, <2>3, ExecuteAllNext
  <2>8. ExecuteAll(d, s) \in Derived
    <3> HIDE DEF s
    <3> QED BY <2>3, ExecuteAllKept
  <2>9. ExecuteAll(e, q) \in Derived
    <3> HIDE DEF q
    <3> QED BY <2>4, ExecuteAllKept
  <2> DEFINE dd == ExecuteAll(d, s)
             ee == ExecuteAll(e, q)
  <2>10. /\ SameToApps(Execute(dd, x), Execute(ee, x))
         /\ x \notin D => SameToApps(Execute(dd, x), ee)
    <3>1. SameToApps(dd, ee)
      BY <2>4, <2>5
    <3>2. dd \in Derived /\ ee \in Derived /\ x \in Lawful
      BY <2>1, <2>8, <2>9
    <3> HIDE DEF dd, ee, x
    <3> QED BY <3>1, <3>2, ExecuteSame
  <2>11. CASE x \in D
    <3>1. f[i] = Append(q, x)
      BY <1>3, <2>11
    <3>2. right(i) = Execute(ee, x)
      <4>1. right(i) = ExecuteAll(e, Append(q, x))
        <5> HIDE DEF q, x
        <5> QED BY <3>1
      <4> HIDE DEF q, x, right
      <4> QED BY <2>1, <2>4, <4>1, ExecuteAllNext
    <3>3. f[i] \in Seq(L)
      <4> HIDE DEF q, x, L
      <4> QED BY <2>1, <2>4, <3>1
    <3> HIDE DEF left, right, L
    <3> QED BY <2>1, <2>6, <2>7, <2>10, <3>2, <3>3
  <2>12. CASE x \notin D
    <3>1. f[i] = q
      BY <1>3, <2>12
    <3>2. right(i) = ee /\ f[i] \in Seq(L)
      <4> HIDE DEF q, L
      <4> QED BY <2>4, <3>1
    <3> HIDE DEF left, right, L
    <3> QED BY <2>1, <2>6, <2>7, <2>10, <2>12, <3>2
  <2> QED BY <2>11, <2>12
<1>6. \A i \in 0 .. n : i \in S
  <2> HIDE DEF S, n
  <2> QED BY <1>1, <1>4, <1>5, IntervalInduction
<1>7. f[n] \in Seq(L) /\ SameToApps(left(n), right(n))
  <2>1. n \in S
    <3> HIDE DEF S, n
    <3> QED BY <1>1, <1>6
  <2> HIDE DEF left, right, L
  <2> QED BY <2>1
<1>8. front(n) = txs
  BY PrefixWhole
<1>9. left(n) = ExecuteAll(d, txs) /\ right(n) = ExecuteAll(e, Subsequence(txs, D))
  <2> HIDE DEF front, n
  <2> QED BY <1>2, <1>8
<1>10. right(n) \in Derived
  <2> HIDE DEF n
  <2> QED BY <1>7, ExecuteAllKept
<1> QED BY <1>7, <1>9, <1>10

-----------------------------------------------------------------------------
(* The transactions of a chain, one block after the other. *)

LEMMA FlattenDef ==
    ASSUME NEW T, NEW ss \in Seq(Seq(T)), ss # <<>>
    PROVE  \E f : /\ \A i \in 1 .. Len(ss) : f[i] \in Seq(T)
                  /\ f[1] = ss[1]
                  /\ \A i \in 2 .. Len(ss) : f[i] = f[i - 1] \o ss[i]
                  /\ FlattenSeq(ss) = f[Len(ss)]
<1> DEFINE m == Len(ss) - 1
           Z == Seq(T)
           F == CHOOSE g : g = [i \in 1 .. Len(ss) |-> IF i = 1 THEN ss[i] ELSE g[i - 1] \o ss[i]]
           step == [i \in 1 .. m |-> [x \in Z |-> x \o ss[i + 1]]]
<1>1. /\ m \in Nat /\ Len(ss) = m + 1
      /\ \A i \in 1 .. Len(ss) : ss[i] \in Z
  OBVIOUS
<1>2. ss[1] \in Z
  BY <1>1
<1>3. step \in [1 .. m -> [Z -> Z]]
  <2>1. \A i \in 1 .. m : i + 1 \in 1 .. Len(ss)
    <3> HIDE DEF m
    <3> QED BY <1>1
  <2>2. \A x, y \in Z : x \o y \in Z
    OBVIOUS
  <2> HIDE DEF Z, m
  <2> QED BY <1>1, <2>1, <2>2
<1> HIDE DEF m, Z
<1>4. PICK h : Iterates(h, Z, ss[1], m, step)
  <2> HIDE DEF step, F
  <2> QED BY <1>1, <1>2, <1>3, IterationExists
<1> DEFINE f == [i \in 1 .. Len(ss) |-> h[i - 1]]
<1>5. \A i \in 1 .. Len(ss) : f[i] \in Z /\ f[i] = h[i - 1]
  <2>1. \A i \in 1 .. Len(ss) : i - 1 \in 0 .. m
    BY <1>1
  <2> QED BY <1>4, <2>1 DEF Iterates
<1>6. f[1] = ss[1]
  BY <1>1, <1>4 DEF Iterates
<1>7. ASSUME NEW i \in 2 .. Len(ss) PROVE f[i] = f[i - 1] \o ss[i]
  <2>1. i \in 1 .. Len(ss) /\ i - 1 \in 1 .. Len(ss) /\ i - 1 \in 1 .. m /\ (i - 1) + 1 = i
    BY <1>1
  <2>2. h[i - 2] \in Z /\ h[i - 1] = step[i - 1][h[i - 2]]
    <3>1. (i - 1) - 1 = i - 2
      BY <2>1
    <3> HIDE DEF step
    <3> QED BY <1>4, <2>1, <3>1 DEF Iterates
  <2>3. h[i - 1] = h[i - 2] \o ss[i]
    BY <2>1, <2>2
  <2>4. f[i] = h[i - 1] /\ f[i - 1] = h[i - 2]
    BY <2>1
  <2> QED BY <2>3, <2>4
<1>8. f = [i \in 1 .. Len(ss) |-> IF i = 1 THEN ss[i] ELSE f[i - 1] \o ss[i]]
  <2>1. \A i \in 1 .. Len(ss) : i = 1 \/ i \in 2 .. Len(ss)
    BY <1>1
  <2>2. \A i \in 1 .. Len(ss) : f[i] = IF i = 1 THEN ss[i] ELSE f[i - 1] \o ss[i]
    <3> HIDE DEF f
    <3> QED BY <1>6, <1>7, <2>1
  <2>3. f = [i \in 1 .. Len(ss) |-> f[i]]
    OBVIOUS
  <2> HIDE DEF f
  <2> QED BY <2>2, <2>3
<1> HIDE DEF f
<1>9. F = [i \in 1 .. Len(ss) |-> IF i = 1 THEN ss[i] ELSE F[i - 1] \o ss[i]]
  BY <1>8
<1>10. FlattenSeq(ss) = F[Len(ss)]
  <2>1. Len(ss) # 0
    BY <1>1
  <2> QED BY <2>1 DEF FlattenSeq
<1> HIDE DEF F
<1>11. /\ F[1] = ss[1]
       /\ \A i \in 2 .. Len(ss) : F[i] = F[i - 1] \o ss[i]
  <2>1. \A i \in 1 .. Len(ss) : F[i] = IF i = 1 THEN ss[i] ELSE F[i - 1] \o ss[i]
    BY <1>9, Zenon
  <2>2. 1 \in 1 .. Len(ss) /\ \A i \in 2 .. Len(ss) : i \in 1 .. Len(ss) /\ i # 1
    BY <1>1
  <2> QED BY <2>1, <2>2, Zenon
<1> DEFINE S == {i \in Nat : F[i + 1] \in Z}
<1>12. \A i \in 0 .. m : i \in S
  <2>1. 0 \in S
    BY <1>2, <1>11
  <2>2. ASSUME NEW i \in 1 .. m, i - 1 \in S PROVE i \in S
    <3>1. i \in Nat /\ i + 1 \in 2 .. Len(ss) /\ i + 1 \in 1 .. Len(ss) /\ (i + 1) - 1 = i
      BY <1>1
    <3>2. F[i] \in Z
      BY <2>2
    <3>3. F[i + 1] = F[i] \o ss[i + 1]
      BY <1>11, <3>1
    <3>4. F[i + 1] \in Z
      BY <1>1, <3>1, <3>2, <3>3 DEF Z
    <3> QED BY <3>1, <3>4
  <2> HIDE DEF S
  <2> QED BY <1>1, <2>1, <2>2, IntervalInduction
<1>13. \A i \in 1 .. Len(ss) : F[i] \in Z
  <2>1. \A i \in 1 .. Len(ss) : i - 1 \in 0 .. m /\ (i - 1) + 1 = i
    BY <1>1
  <2> QED BY <1>12, <2>1
<1> QED BY <1>10, <1>11, <1>13 DEF Z

(* The transactions of each block of a chain. *)
Bodies(chain) == [i \in DOMAIN chain |-> chain[i].transactions]

LEMMA FlattenMore ==
    ASSUME NEW T, NEW ss \in Seq(Seq(T)), ss # <<>>, NEW s \in Seq(T)
    PROVE  FlattenSeq(Append(ss, s)) = FlattenSeq(ss) \o s
<1> DEFINE m == Len(ss)
           more == Append(ss, s)
<1>1. /\ m \in Nat \ {0}
      /\ more \in Seq(Seq(T)) /\ Len(more) = m + 1 /\ more # <<>>
      /\ more[m + 1] = s /\ \A i \in 1 .. m : more[i] = ss[i]
  <2>1. m \in Nat \ {0} /\ more \in Seq(Seq(T)) /\ Len(more) = m + 1
    OBVIOUS
  <2>2. more[m + 1] = s /\ \A i \in 1 .. m : more[i] = ss[i]
    OBVIOUS
  <2>3. more # <<>>
    BY <2>1
  <2> QED BY <2>1, <2>2, <2>3
<1>2. PICK f : /\ f[1] = ss[1]
               /\ \A i \in 2 .. m : f[i] = f[i - 1] \o ss[i]
               /\ FlattenSeq(ss) = f[m]
  BY FlattenDef
<1> HIDE DEF more
<1>3. PICK g : /\ g[1] = more[1]
               /\ \A i \in 2 .. Len(more) : g[i] = g[i - 1] \o more[i]
               /\ FlattenSeq(more) = g[Len(more)]
  BY <1>1, FlattenDef
<1> DEFINE S == {i \in Nat : i <= m - 1 /\ g[i + 1] = f[i + 1]}
           n == m - 1
<1>4. 0 \in S
  BY <1>1, <1>2, <1>3
<1>5. ASSUME NEW i \in 1 .. n, i - 1 \in S PROVE i \in S
  <2>1. /\ i \in Nat /\ i <= m - 1 /\ i + 1 \in 2 .. m /\ i + 1 \in 2 .. Len(more)
        /\ i + 1 \in 1 .. m /\ (i + 1) - 1 = i /\ (i - 1) + 1 = i
    BY <1>1
  <2>2. g[i] = f[i]
    BY <1>5, <2>1
  <2>3. f[i + 1] = f[i] \o ss[i + 1]
    BY <1>2, <2>1
  <2>4. g[i + 1] = g[i] \o more[i + 1] /\ more[i + 1] = ss[i + 1]
    BY <1>1, <1>3, <2>1
  <2> QED BY <2>1, <2>2, <2>3, <2>4
<1>6. \A i \in 0 .. n : i \in S
  <2>1. n \in Nat
    BY <1>1
  <2> HIDE DEF S, n
  <2> QED BY <1>4, <1>5, <2>1, IntervalInduction
<1>7. g[m] = f[m]
  <2>1. m - 1 \in 0 .. n /\ (m - 1) + 1 = m
    BY <1>1
  <2> QED BY <1>6, <2>1
<1>8. g[m + 1] = g[m] \o s
  <2>1. m + 1 \in 2 .. Len(more) /\ (m + 1) - 1 = m
    BY <1>1
  <2>2. g[m + 1] = g[(m + 1) - 1] \o more[m + 1]
    BY <1>3, <2>1
  <2> QED BY <1>1, <2>1, <2>2
<1>9. FlattenSeq(more) = FlattenSeq(ss) \o s
  BY <1>1, <1>2, <1>3, <1>7, <1>8
<1> QED BY <1>9 DEF more

LEMMA BodiesType ==
    ASSUME NEW chain \in Seq(Block)
    PROVE  /\ Bodies(chain) \in Seq(Seq(Transaction))
           /\ Len(Bodies(chain)) = Len(chain)
           /\ \A i \in 1 .. Len(chain) : Bodies(chain)[i] = chain[i].transactions
<1>1. DOMAIN chain = 1 .. Len(chain) /\ Len(chain) \in Nat
  OBVIOUS
<1>2. ASSUME NEW i \in 1 .. Len(chain) PROVE chain[i].transactions \in Seq(Transaction)
  <2> DEFINE b == chain[i]
  <2>1. b \in Block
    OBVIOUS
  <2> HIDE DEF b
  <2>2. b.transactions \in Seq(Transaction)
    BY <2>1 DEF Block
  <2> QED BY <2>2 DEF b
<1>3. Bodies(chain) = [i \in 1 .. Len(chain) |-> chain[i].transactions]
  BY <1>1 DEF Bodies
<1>4. Bodies(chain) \in [1 .. Len(chain) -> Seq(Transaction)]
  BY <1>2, <1>3
<1>5. Bodies(chain) \in Seq(Seq(Transaction))
  <2> DEFINE n == Len(chain)
             b == Bodies(chain)
             T == Seq(Transaction)
  <2>1. n \in Nat /\ b \in [1 .. n -> T]
    BY <1>1, <1>4
  <2> HIDE DEF n, b, T
  <2>2. b \in Seq(T)
    BY <2>1
  <2> QED BY <2>2 DEF b, T
<1> QED BY <1>1, <1>3, <1>5

(* A chain with one more block has its transactions after the others; and  *)
(* what a shorter chain confirms comes first.                              *)
LEMMA ConfirmedAppend ==
    ASSUME NEW chain \in Seq(Block), chain # <<>>, NEW b \in Block
    PROVE  Confirmed(Append(chain, b)) = Confirmed(chain) \o b.transactions
<1> DEFINE more == Append(chain, b)
           ss == Bodies(chain)
           s == b.transactions
<1>1. /\ more \in Seq(Block) /\ Len(more) = Len(chain) + 1 /\ Len(chain) \in Nat \ {0}
      /\ more[Len(chain) + 1] = b /\ \A i \in 1 .. Len(chain) : more[i] = chain[i]
  OBVIOUS
<1> HIDE DEF more
<1>2. /\ Bodies(more) \in Seq(Seq(Transaction)) /\ Len(Bodies(more)) = Len(chain) + 1
      /\ \A i \in 1 .. Len(chain) + 1 : Bodies(more)[i] = more[i].transactions
  BY <1>1, BodiesType
<1>3. /\ ss \in Seq(Seq(Transaction)) /\ Len(ss) = Len(chain)
      /\ \A i \in 1 .. Len(chain) : ss[i] = chain[i].transactions
  BY BodiesType
<1>4. s \in Seq(Transaction)
  BY DEF Block
<1> HIDE DEF ss, s
<1>5. Bodies(more) = Append(ss, s)
  <2> DEFINE u == Bodies(more)
             v == Append(ss, s)
             n == Len(chain)
  <2>1. v \in Seq(Seq(Transaction)) /\ Len(v) = n + 1 /\ v[n + 1] = s
        /\ \A i \in 1 .. n : v[i] = ss[i]
    BY <1>3, <1>4
  <2>2. u[n + 1] = s /\ \A i \in 1 .. n : u[i] = ss[i]
    <3>1. n + 1 \in 1 .. n + 1 /\ \A i \in 1 .. n : i \in 1 .. n + 1
      BY <1>1
    <3>2. u[n + 1] = more[n + 1].transactions
      BY <1>2, <3>1
    <3>3. more[n + 1].transactions = s
      BY <1>1 DEF s
    <3>4. \A i \in 1 .. n : u[i] = more[i].transactions
      BY <1>2, <3>1
    <3>5. \A i \in 1 .. n : more[i].transactions = ss[i]
      BY <1>1, <1>3
    <3> QED BY <3>2, <3>3, <3>4, <3>5
  <2>3. \A i \in 1 .. n + 1 : u[i] = v[i]
    <3>1. \A i \in 1 .. n + 1 : i = n + 1 \/ i \in 1 .. n
      BY <1>1
    <3> HIDE DEF u, v, n
    <3> QED BY <2>1, <2>2, <3>1
  <2>4. u \in Seq(Seq(Transaction)) /\ Len(u) = n + 1
    BY <1>2
  <2> HIDE DEF u, v, n
  <2>5. u = v
    BY <2>1, <2>3, <2>4
  <2> QED BY <2>5 DEF u, v
<1>6. ss # <<>>
  BY <1>1, <1>3
<1>7. FlattenSeq(Append(ss, s)) = FlattenSeq(ss) \o s
  BY <1>3, <1>4, <1>6, FlattenMore
<1> QED BY <1>5, <1>7 DEF Confirmed, Bodies, more, ss, s

LEMMA ConfirmedType ==
    ASSUME NEW chain \in Seq(Block), chain # <<>>
    PROVE  Confirmed(chain) \in Seq(Transaction)
<1> DEFINE ss == Bodies(chain)
<1>1. ss \in Seq(Seq(Transaction)) /\ Len(ss) = Len(chain) /\ Len(chain) \in Nat \ {0}
  BY BodiesType
<1> HIDE DEF ss
<1>2. ss # <<>> /\ Len(ss) \in 1 .. Len(ss)
  BY <1>1
<1>3. FlattenSeq(ss) \in Seq(Transaction)
  BY <1>1, <1>2, FlattenDef
<1> QED BY <1>3 DEF Confirmed, Bodies, ss

LEMMA GenesisConfirms == Confirmed(<<Genesis>>) = <<>>
<1> DEFINE chain == <<Genesis>>
           ss == Bodies(chain)
<1>1. chain \in Seq(Block) /\ Len(chain) = 1 /\ chain[1] = Genesis
  BY GenesisBlock
<1> HIDE DEF chain
<1>2. ss \in Seq(Seq(Transaction)) /\ Len(ss) = 1 /\ ss[1] = <<>>
  <2>1. /\ ss \in Seq(Seq(Transaction)) /\ Len(ss) = Len(chain)
        /\ \A i \in 1 .. Len(chain) : ss[i] = chain[i].transactions
    BY <1>1, BodiesType
  <2>2. 1 \in 1 .. Len(chain) /\ chain[1].transactions = <<>>
    BY <1>1, GenesisBlock
  <2> HIDE DEF ss
  <2> QED BY <1>1, <2>1, <2>2
<1> HIDE DEF ss
<1>3. ss # <<>>
  <2>1. Len(ss) = 1
    BY <1>2
  <2> QED BY <2>1
<1>4. FlattenSeq(ss) = <<>>
  BY <1>2, <1>3, FlattenDef
<1> QED BY <1>4 DEF Confirmed, Bodies, ss, chain

(* What the validation of a chain's payloads makes of its transactions. *)
LEMMA ValidPayloadsLawful ==
    ASSUME NEW txs \in Seq(Transaction), Range(txs) \cap DOMAIN Payload \subseteq Valid
    PROVE  txs \in Seq(Lawful)
<1>1. Len(txs) \in Nat /\ DOMAIN txs = 1 .. Len(txs) /\ txs \in [1 .. Len(txs) -> Transaction]
  OBVIOUS
<1>2. \A i \in 1 .. Len(txs) : txs[i] \in Lawful
  BY <1>1 DEF Lawful, Range
<1> DEFINE n == Len(txs)
           L == Lawful
<1> HIDE DEF L
<1>3. txs \in [1 .. n -> L]
  BY <1>1, <1>2 DEF L
<1>4. txs \in Seq(L)
  <2> HIDE DEF n
  <2> QED BY <1>1, <1>3 DEF n
<1> QED BY <1>4 DEF L

-----------------------------------------------------------------------------
(* Typed ledgers. *)

(* What is pending has been submitted by a wallet. *)
Sent == {t \in Lawful : t.from \in Address}

LEMMA SentFields == Sent \subseteq Transaction /\ Sent \subseteq Signed /\ Sent \subseteq Lawful
BY DEF Sent, Lawful, Signed

LEMMA SeqWider ==
    ASSUME NEW A, NEW B, A \subseteq B, NEW s \in Seq(A)
    PROVE  s \in Seq(B)
<1>1. Len(s) \in Nat /\ s \in [1 .. Len(s) -> A]
  OBVIOUS
<1> DEFINE n == Len(s)
<1> HIDE DEF n
<1>2. n \in Nat /\ s \in [1 .. n -> B]
  BY <1>1 DEF n
<1> QED BY <1>2

LEMMA SentSeq ==
    ASSUME NEW s \in Seq(Sent)
    PROVE  s \in Seq(Transaction) /\ s \in Seq(Signed) /\ s \in Seq(Lawful)
<1>1. s \in Seq(Transaction)
  BY SentFields, SeqWider
<1>2. s \in Seq(Signed)
  BY SentFields, SeqWider
<1>3. s \in Seq(Lawful)
  BY SentFields, SeqWider
<1> QED BY <1>1, <1>2, <1>3

LEMMA AddTransactionTyped ==
    ASSUME NEW T, T \subseteq Transaction, NEW led \in LedgerState,
           led.pendingTransactions \in Seq(T), NEW t \in T
    PROVE  /\ AddTransaction(led, t) \in LedgerState
           /\ AddTransaction(led, t).chain = led.chain
           /\ AddTransaction(led, t).pendingTransactions \in Seq(T)
<1> DEFINE p == led.pendingTransactions
           new == AddTransaction(led, t)
           q == [j \in DOMAIN p |-> IF j \in Replaced(p, t) THEN t ELSE p[j]]
<1>1. led \in LedgerState /\ p \in Seq(T) /\ led = [chain |-> led.chain,
         pendingTransactions |-> p, difficulty |-> led.difficulty]
  BY DEF LedgerState
<1>2. new \in {led, [led EXCEPT !.pendingTransactions = Append(p, t)],
               [led EXCEPT !.pendingTransactions = q]}
  BY DEF AddTransaction
<1>3. q \in Seq(T)
  <2> DEFINE n == Len(p)
  <2>1. n \in Nat /\ DOMAIN p = 1 .. n /\ \A j \in 1 .. n : p[j] \in T
    BY <1>1
  <2> HIDE DEF p, n
  <2>2. q \in [1 .. n -> T]
    BY <2>1
  <2> HIDE DEF q
  <2> QED BY <2>1, <2>2
<1>4. Append(p, t) \in Seq(T)
  BY <1>1
<1>5. \A u \in Seq(T) : u \in Seq(Transaction)
  <2>1. ASSUME NEW u \in Seq(T) PROVE u \in Seq(Transaction)
    <3>1. Len(u) \in Nat /\ u \in [1 .. Len(u) -> T]
      OBVIOUS
    <3>2. u \in [1 .. Len(u) -> Transaction]
      BY <3>1
    <3> QED BY <3>1, <3>2
  <2> QED BY <2>1
<1>6. ASSUME NEW u \in Seq(T)
      PROVE  LET l == [led EXCEPT !.pendingTransactions = u]
             IN  l \in LedgerState /\ l.chain = led.chain /\ l.pendingTransactions = u
  <2>1. u \in Seq(Transaction)
    BY <1>5
  <2> QED BY <1>1, <2>1 DEF LedgerState
<1> HIDE DEF q, new, p
<1> QED BY <1>1, <1>2, <1>3, <1>4, <1>6 DEF new, p

LEMMA MineTyped ==
    ASSUME NEW T, T \subseteq Transaction, NEW led \in LedgerState,
           led.pendingTransactions \in Seq(T), NEW miner \in Miner, NEW now \in Nat
    PROVE  LET mined == MinePendingTransactions(led, miner, now)
           IN  /\ mined \in LedgerState
               /\ mined.chain = Append(led.chain, NextBlock(led, miner, now))
               /\ mined.pendingTransactions \in Seq(T)
<1> DEFINE mined == MinePendingTransactions(led, miner, now)
           block == NextBlock(led, miner, now)
           chain == Append(led.chain, block)
           pending == RemovePending(led.pendingTransactions, block.transactions)
           d == IF AtAdjustment(chain) THEN AdjustDifficulty(chain, led.difficulty)
                ELSE led.difficulty
<1>1. block \in Block
  BY NextBlockType
<1>2. led.chain \in Seq(Block) /\ led.difficulty \in Nat
      /\ led.pendingTransactions \in Seq(Transaction)
  BY LedgerFields
<1>3. mined = [chain |-> chain, pendingTransactions |-> pending, difficulty |-> d]
  BY DEF MinePendingTransactions
<1> HIDE DEF block, mined
<1>4. chain \in Seq(Block) /\ chain # <<>>
  BY <1>1, <1>2
<1>5. pending \in Seq(T) /\ pending \in Seq(Transaction)
  BY <1>2, SubsequenceType DEF RemovePending
<1> HIDE DEF chain, pending
<1>6. d \in Nat
  BY <1>2, <1>4, AdjustDifficultyType
<1> HIDE DEF d
<1>7. mined \in LedgerState /\ mined.chain = chain /\ mined.pendingTransactions = pending
  BY <1>3, <1>4, <1>5, <1>6 DEF LedgerState
<1> QED BY <1>5, <1>7 DEF mined, chain, block

LEMMA AddBlockTyped ==
    ASSUME NEW led \in LedgerState, led.pendingTransactions \in Seq(Sent),
           NEW chain \in Seq(Block), chain # <<>>
    PROVE  /\ AddBlock(led, chain) \in LedgerState
           /\ AddBlock(led, chain).chain = chain
           /\ AddBlock(led, chain).pendingTransactions \in Seq(Sent)
<1> DEFINE block == LastBlock(chain)
           new == AddBlock(led, chain)
           pending == RemovePending(led.pendingTransactions, block.transactions)
           d == IF AtAdjustment(chain) THEN AdjustDifficulty(chain, led.difficulty)
                ELSE block.difficulty
<1>1. block \in Block
  <2>1. Len(chain) \in 1 .. Len(chain)
    OBVIOUS
  <2> QED BY <2>1 DEF LastBlock
<1>2. led.difficulty \in Nat /\ led.pendingTransactions \in Seq(Transaction)
  BY LedgerFields
<1>3. new = [chain |-> chain, pendingTransactions |-> pending, difficulty |-> d]
  BY DEF AddBlock
<1> HIDE DEF block, new
<1>4. pending \in Seq(Sent) /\ pending \in Seq(Transaction)
  BY <1>2, SubsequenceType DEF RemovePending
<1> HIDE DEF pending
<1>5. block.difficulty \in Nat
  BY <1>1 DEF Block
<1>6. d \in Nat
  BY <1>2, <1>5, AdjustDifficultyType
<1> HIDE DEF d
<1>7. new \in LedgerState /\ new.chain = chain /\ new.pendingTransactions = pending
  BY <1>2, <1>3, <1>4, <1>6 DEF LedgerState
<1> QED BY <1>4, <1>7 DEF new

LEMMA ReplaceChainTyped ==
    ASSUME NEW led \in LedgerState, led.pendingTransactions \in Seq(Sent),
           NEW chain \in Seq(Block), chain # <<>>
    PROVE  /\ ReplaceChain(led, chain) \in LedgerState
           /\ ReplaceChain(led, chain).chain = chain
           /\ ReplaceChain(led, chain).pendingTransactions \in Seq(Sent)
<1> DEFINE keep == {t \in Range(led.pendingTransactions) : ~HasTransactionInChain(chain, t)}
           old == Subsequence(led.pendingTransactions, keep)
           d == IF AtAdjustment(chain) THEN AdjustDifficulty(chain, LastBlock(chain).difficulty)
                ELSE LastBlock(chain).difficulty
           base == [chain |-> chain, pendingTransactions |-> <<>>, difficulty |-> d]
           Z == {l \in LedgerState : l.chain = chain /\ l.pendingTransactions \in Seq(Sent)}
           T == Sent
<1>1. LastBlock(chain).difficulty \in Nat
  <2>1. Len(chain) \in 1 .. Len(chain)
    OBVIOUS
  <2>2. LastBlock(chain) \in Block
    BY <2>1 DEF LastBlock
  <2> QED BY <2>2 DEF Block
<1>2. d \in Nat
  <2> DEFINE e == LastBlock(chain).difficulty
  <2>1. e \in Nat
    BY <1>1
  <2> HIDE DEF e
  <2>2. AtAdjustment(chain) => AdjustDifficulty(chain, e) \in Nat
    BY <2>1, AdjustDifficultyType
  <2> QED BY <2>1, <2>2 DEF e
<1> HIDE DEF d
<1>3. base \in Z
  <2>1. <<>> \in Seq(Transaction) /\ <<>> \in Seq(Sent)
    OBVIOUS
  <2>2. base \in LedgerState
    BY <1>2, <2>1 DEF LedgerState
  <2> QED BY <2>1, <2>2
<1>4. Preserved(Z, T)
  <2>1. ASSUME NEW l \in Z, NEW t \in T PROVE AddTransaction(l, t) \in Z
    <3>1. T \subseteq Transaction
      BY SentFields
    <3>2. l \in LedgerState /\ l.chain = chain /\ l.pendingTransactions \in Seq(T)
      OBVIOUS
    <3> HIDE DEF T
    <3>3. /\ AddTransaction(l, t) \in LedgerState
          /\ AddTransaction(l, t).chain = chain
          /\ AddTransaction(l, t).pendingTransactions \in Seq(T)
      BY <3>1, <3>2, AddTransactionTyped
    <3> QED BY <3>3 DEF T
  <2> HIDE DEF Z, T
  <2> QED BY <2>1 DEF Preserved
<1>5. old \in Seq(T)
  <2> HIDE DEF keep
  <2> QED BY SubsequenceType
<1>6. ReplaceChain(led, chain) = Readmission(base, old)[Len(old)]
  BY DEF ReplaceChain, d
<1> HIDE DEF Z, T, old, base
<1>7. Readmits(Readmission(base, old), base, old, Z)
  BY <1>3, <1>4, <1>5, ReadmissionRuns
<1>8. Len(old) \in 0 .. Len(old)
  BY <1>5
<1>9. ReplaceChain(led, chain) \in Z
  BY <1>6, <1>7, <1>8 DEF Readmits
<1> QED BY <1>9 DEF Z

(* The ledgers of a peer that mines n blocks one after the other. *)
MinedFrom(start, n, miner, now) ==
    CHOOSE g : g = [i \in 0 .. n |->
        IF i = 0 THEN start ELSE MinePendingTransactions(g[i - 1], miner, now)]

LEMMA MiningTyped ==
    ASSUME NEW start \in LedgerState, NEW n \in Nat, NEW miner \in Miner, NEW now \in Nat
    PROVE  MinedFrom(start, n, miner, now)[n] \in LedgerState
<1> DEFINE Z == LedgerState
           F == MinedFrom(start, n, miner, now)
           step == [i \in 1 .. n |-> [l \in Z |-> MinePendingTransactions(l, miner, now)]]
<1>1. \A l \in Z : MinePendingTransactions(l, miner, now) \in Z
  <2>1. ASSUME NEW l \in LedgerState PROVE MinePendingTransactions(l, miner, now) \in LedgerState
    <3>1. l.pendingTransactions \in Seq(Transaction)
      BY LedgerFields
    <3> QED BY <3>1, MineTyped
  <2> QED BY <2>1
<1> HIDE DEF Z
<1>2. step \in [1 .. n -> [Z -> Z]]
  BY <1>1
<1>3. start \in Z
  BY DEF Z
<1>4. PICK f : Iterates(f, Z, start, n, step)
  <2> HIDE DEF step
  <2> QED BY <1>2, <1>3, IterationExists
<1>5. f = [i \in 0 .. n |-> IF i = 0 THEN start ELSE MinePendingTransactions(f[i - 1], miner, now)]
  <2>1. ASSUME NEW i \in 1 .. n PROVE f[i] = MinePendingTransactions(f[i - 1], miner, now)
    <3>1. f[i - 1] \in Z /\ f[i] = step[i][f[i - 1]]
      <4> HIDE DEF step
      <4> QED BY <1>4 DEF Iterates
    <3> QED BY <3>1
  <2>2. f[0] = start /\ f \in [0 .. n -> Z]
    BY <1>4 DEF Iterates
  <2> QED BY <2>1, <2>2
<1>6. F = [i \in 0 .. n |-> IF i = 0 THEN start ELSE MinePendingTransactions(F[i - 1], miner, now)]
  BY <1>5 DEF MinedFrom
<1> HIDE DEF F
<1>7. F[0] = start /\ \A i \in 1 .. n : F[i] = MinePendingTransactions(F[i - 1], miner, now)
  BY <1>6
<1>8. Iterates(F, Z, start, n, step)
  <2>1. \A i \in 1 .. n : F[i - 1] \in Z => F[i] = step[i][F[i - 1]]
    BY <1>7
  <2>2. F = [i \in 0 .. n |-> F[i]] /\ F[0] = start
    BY <1>6, <1>7
  <2> HIDE DEF step
  <2> QED BY <1>2, <1>3, <2>1, <2>2, IterationTyped
<1>9. n \in 0 .. n
  OBVIOUS
<1> QED BY <1>8, <1>9 DEF Iterates, Z, F

LEMMA PeerChainsTyped ==
    ASSUME ledger \in LedgerState, NEW at \in 1 .. Len(ledger.chain), NEW n \in Nat,
           NEW miner \in Miner, NEW now \in Nat, NEW chain \in PeerChains(at, n, miner, now)
    PROVE  chain \in Seq(Block)
<1> DEFINE base == [chain |-> SubSeq(ledger.chain, 1, at), pendingTransactions |-> <<>>,
                    difficulty |-> ledger.difficulty]
<1>1. base \in LedgerState /\ base.pendingTransactions \in Seq(Transaction)
  <2>1. ledger.chain \in Seq(Block) /\ ledger.difficulty \in Nat
    BY LedgerFields
  <2>2. SubSeq(ledger.chain, 1, at) \in Seq(Block)
    BY <2>1
  <2>3. <<>> \in Seq(Transaction)
    OBVIOUS
  <2> QED BY <2>1, <2>2, <2>3 DEF LedgerState
<1>2. PICK t \in Transactions : 
               chain = MinedFrom(AddTransaction(base, t), n, miner, now)[n].chain
  BY DEF PeerChains, MinedFrom
<1>3. t \in Transaction
  BY StateLayerAssumption
<1> HIDE DEF base
<1> DEFINE start == AddTransaction(base, t)
           F == MinedFrom(start, n, miner, now)
<1>4. start \in LedgerState
  BY <1>1, <1>3, AddTransactionTyped
<1>5. F[n] \in LedgerState
  <2> HIDE DEF start
  <2> QED BY <1>4, MiningTyped
<1>6. chain = F[n].chain
  BY <1>2
<1> HIDE DEF F
<1> QED BY <1>5, <1>6, LedgerFields

-----------------------------------------------------------------------------
(* The invariant: the maps are those of the chain, and what it and the     *)
(* mempool hold has been through validation.                               *)

IInv ==
    /\ ledger \in LedgerState
    /\ ledger.chain # <<>>
    /\ ledger.pendingTransactions \in Seq(Sent)
    /\ Confirmed(ledger.chain) \in Seq(Lawful)
    /\ derived = ExecuteAll(NoDerived, Confirmed(ledger.chain))
    /\ running \in BOOLEAN

LEMMA Starts == Init => IInv
<1> SUFFICES ASSUME Init PROVE IInv
  OBVIOUS
<1>1. /\ FreshLedger \in LedgerState
      /\ FreshLedger.chain = <<Genesis>> /\ FreshLedger.pendingTransactions = <<>>
  BY GenesisBlock, LedgerAssumption DEF FreshLedger, LedgerState
<1>2. Confirmed(FreshLedger.chain) = <<>>
  BY <1>1, GenesisConfirms
<1>3. <<>> \in Seq(Lawful) /\ <<>> \in Seq(Sent) /\ <<Genesis>> # <<>>
  OBVIOUS
<1>4. ExecuteAll(NoDerived, <<>>) = NoDerived
  <2>1. PICK run : /\ Executes(run, NoDerived, <<>>, Derived)
                   /\ ExecuteAll(NoDerived, <<>>) = run[Len(<<>>)]
    BY <1>3, NoDerivedIsDerived, ExecuteAllRuns
  <2> QED BY <2>1 DEF Executes
<1> QED BY <1>1, <1>2, <1>3, <1>4 DEF Init, IInv

LEMMA SubmitKeepsIInv ==
    ASSUME IInv, NEW t \in Transactions, SubmitTransaction(t)
    PROVE  IInv'
<1>1. t \in Sent /\ Sent \subseteq Transaction
  BY StateLayerAssumption DEF SubmitTransaction, Sent, Lawful
<1> DEFINE T == Sent
           new == AddTransaction(ledger, t)
<1>2. ledger \in LedgerState /\ ledger.pendingTransactions \in Seq(T)
  BY DEF IInv
<1>3. T \subseteq Transaction /\ t \in T
  BY <1>1
<1>4. /\ new \in LedgerState /\ new.chain = ledger.chain
      /\ new.pendingTransactions \in Seq(T)
  <2> HIDE DEF T
  <2> QED BY <1>2, <1>3, AddTransactionTyped
<1>5. ledger' = new /\ derived' = derived /\ running' = running
  BY DEF SubmitTransaction
<1> HIDE DEF new
<1> QED BY <1>4, <1>5 DEF IInv

(* What a step that leaves a valid chain on the ledger, and its maps, does. *)
LEMMA RebuiltKeepsIInv ==
    ASSUME NEW chain \in Seq(Block), chain # <<>>, Confirmed(chain) \in Seq(Lawful),
           ledger' \in LedgerState, ledger'.chain = chain,
           ledger'.pendingTransactions \in Seq(Sent),
           derived' = RebuildDerivedState(derived, chain), running' \in BOOLEAN
    PROVE  IInv'
BY DEF IInv, RebuildDerivedState

LEMMA SelectionLawful ==
    ASSUME NEW p \in Seq(Lawful), NEW s \in Selections(p)
    PROVE  s \in Seq(Lawful)
<1> DEFINE n == Len(s)
           L == Lawful
<1>1. s \in Seq(Transaction) /\ \A k \in 1 .. n : \E j \in 1 .. Len(p) : s[k] = p[j]
  BY DEF Selections
<1>2. p \in Seq(L)
  OBVIOUS
<1> HIDE DEF L
<1>3. \A k \in 1 .. n : s[k] \in L
  BY <1>1, <1>2
<1>4. n \in Nat /\ s \in [1 .. n -> Transaction]
  BY <1>1
<1> HIDE DEF n
<1>5. s \in [1 .. n -> L]
  BY <1>3, <1>4
<1>6. s \in Seq(L)
  BY <1>4, <1>5
<1> QED BY <1>6 DEF L

LEMMA ConfirmedMined ==
    ASSUME IInv, NEW miner \in Miner, NEW now \in Nat
    PROVE  Confirmed(Append(ledger.chain, NextBlock(ledger, miner, now))) \in Seq(Lawful)
<1> DEFINE block == NextBlock(ledger, miner, now)
           p == ledger.pendingTransactions
           before == Confirmed(ledger.chain)
<1>1. /\ ledger \in LedgerState /\ ledger.chain \in Seq(Block) /\ ledger.chain # <<>>
      /\ p \in Seq(Lawful) /\ before \in Seq(Lawful)
  BY LedgerFields, SentSeq DEF IInv
<1>2. PICK sel, reward :
         /\ sel \in Selections(p)
         /\ reward \in Transaction
         /\ reward.from = Coinbase
         /\ block \in Block
         /\ block.transactions = Append(sel, reward)
  BY <1>1, NextBlockType
<1> HIDE DEF block, p, before
<1>3. Confirmed(Append(ledger.chain, block)) = before \o Append(sel, reward)
  BY <1>1, <1>2, ConfirmedAppend DEF before
<1>4. reward \in Lawful
  <2>1. reward \notin DOMAIN Payload
    BY <1>2, StateLayerAssumption, LedgerAssumption
  <2> QED BY <1>2, <2>1 DEF Lawful
<1>5. sel \in Seq(Lawful)
  BY <1>1, <1>2, SelectionLawful
<1>6. before \o Append(sel, reward) \in Seq(Lawful)
  BY <1>1, <1>4, <1>5
<1> QED BY <1>3, <1>6 DEF block

LEMMA MineKeepsIInv ==
    ASSUME IInv, NEW miner \in Miner, NEW now \in Clock, Mine(miner, now)
    PROVE  IInv'
<1> DEFINE mined == MinePendingTransactions(ledger, miner, now)
           chain == Append(ledger.chain, NextBlock(ledger, miner, now))
           T == Sent
<1>1. now \in Nat /\ T \subseteq Transaction
  BY StateLayerAssumption, SentFields
<1>2. /\ ledger \in LedgerState /\ ledger.chain \in Seq(Block)
      /\ ledger.pendingTransactions \in Seq(T) /\ running \in BOOLEAN
  BY LedgerFields DEF IInv
<1>3. mined \in LedgerState /\ mined.chain = chain /\ mined.pendingTransactions \in Seq(T)
  <2> HIDE DEF T
  <2> QED BY <1>1, <1>2, MineTyped
<1>4. Confirmed(chain) \in Seq(Lawful)
  BY <1>1, ConfirmedMined
<1>5. /\ derived' = RebuildDerivedState(derived, mined.chain)
      /\ ledger' \in {[ledger EXCEPT !.chain = mined.chain], mined}
      /\ running' = running
  BY DEF Mine
<1> HIDE DEF mined, chain
<1>6. chain \in Seq(Block) /\ chain # <<>>
  <2>1. NextBlock(ledger, miner, now) \in Block
    BY <1>1, <1>2, NextBlockType
  <2> QED BY <1>2, <2>1 DEF chain
<1>7. /\ ledger' \in LedgerState /\ ledger'.chain = chain
      /\ ledger'.pendingTransactions \in Seq(Sent)
  <2>1. CASE ledger' = mined
    BY <1>3, <2>1
  <2>2. CASE ledger' = [ledger EXCEPT !.chain = mined.chain]
    <3>1. ledger' = [ledger EXCEPT !.chain = chain]
      BY <1>3, <2>2
    <3>2. ledger' \in LedgerState /\ ledger'.chain = chain
          /\ ledger'.pendingTransactions = ledger.pendingTransactions
      BY <1>2, <1>6, <3>1 DEF LedgerState
    <3> QED BY <1>2, <3>2
  <2> QED BY <1>5, <2>1, <2>2
<1>8. derived' = RebuildDerivedState(derived, chain) /\ running' \in BOOLEAN
  BY <1>2, <1>3, <1>5
<1> QED BY <1>4, <1>6, <1>7, <1>8, RebuiltKeepsIInv

(* The payloads of the chain a message brings have been checked. *)
LEMMA AdoptKeepsIInv ==
    ASSUME IInv, NEW chain \in Seq(Block), chain # <<>>, ValidPayloads(chain),
           NEW pendingThen \in Seq(Sent), NEW accepted \in LedgerState,
           accepted.chain = chain, accepted.pendingTransactions \in Seq(Sent),
           Adopt(chain, pendingThen, accepted)
    PROVE  IInv'
<1>1. Confirmed(chain) \in Seq(Lawful)
  <2> DEFINE txs == Confirmed(chain)
  <2>1. txs \in Seq(Transaction) /\ Range(txs) \cap DOMAIN Payload \subseteq Valid
    BY ConfirmedType DEF ValidPayloads
  <2> HIDE DEF txs
  <2>2. txs \in Seq(Lawful)
    BY <2>1, ValidPayloadsLawful
  <2> QED BY <2>2 DEF txs
<1> DEFINE rebuilt == RebuildDerivedState(derived, chain)
           replaced == [ledger EXCEPT !.chain = chain, !.pendingTransactions = pendingThen]
<1>2. /\ derived' = rebuilt
      /\ running' = ~rebuilt.threw
      /\ ledger' = IF rebuilt.threw THEN replaced ELSE accepted
  BY DEF Adopt
<1>3. pendingThen \in Seq(Transaction)
  BY SentSeq
<1>4. ledger \in LedgerState
  BY DEF IInv
<1>5. replaced \in LedgerState /\ replaced.chain = chain
      /\ replaced.pendingTransactions = pendingThen
  BY <1>3, <1>4 DEF LedgerState
<1> HIDE DEF replaced
<1>6. ledger' \in LedgerState /\ ledger'.chain = chain
      /\ ledger'.pendingTransactions \in Seq(Sent)
  BY <1>2, <1>5
<1>7. running' \in BOOLEAN
  BY <1>2
<1> QED BY <1>1, <1>2, <1>6, <1>7, RebuiltKeepsIInv

LEMMA HandleNewBlockKeepsIInv ==
    ASSUME IInv, NEW miner \in Miner, NEW now \in Clock, HandleNewBlock(miner, now)
    PROVE  IInv'
<1>1. PICK announced \in PeerChains(Len(ledger.chain), 1, miner, now) :
         /\ AcceptsBlock(ledger, announced)
         /\ ValidPayloads(announced)
         /\ Adopt(announced, ledger.pendingTransactions, AddBlock(ledger, announced))
  BY DEF HandleNewBlock
<1>2. /\ ledger \in LedgerState /\ ledger.chain \in Seq(Block) /\ ledger.chain # <<>>
      /\ ledger.pendingTransactions \in Seq(Sent)
  BY LedgerFields DEF IInv
<1>3. announced \in Seq(Block)
  <2>1. Len(ledger.chain) \in 1 .. Len(ledger.chain) /\ 1 \in Nat /\ now \in Nat
    BY <1>2, StateLayerAssumption
  <2> QED BY <1>1, <1>2, <2>1, PeerChainsTyped
<1>4. announced # <<>>
  BY <1>1, <1>3 DEF AcceptsBlock
<1>5. /\ AddBlock(ledger, announced) \in LedgerState
      /\ AddBlock(ledger, announced).chain = announced
      /\ AddBlock(ledger, announced).pendingTransactions \in Seq(Sent)
  BY <1>2, <1>3, <1>4, AddBlockTyped
<1> QED BY <1>1, <1>2, <1>3, <1>4, <1>5, AdoptKeepsIInv

LEMMA HandleChainKeepsIInv ==
    ASSUME IInv, NEW at \in 1 .. MaxChain, NEW miner \in Miner, NEW now \in Clock,
           HandleChain(at, miner, now)
    PROVE  IInv'
<1> DEFINE n == Len(ledger.chain) - at + 1
<1>1. PICK peerChain \in PeerChains(at, n, miner, now) :
         /\ AcceptsChain(ledger, peerChain)
         /\ ValidPayloads(peerChain)
         /\ Adopt(peerChain, <<>>, ReplaceChain(ledger, peerChain))
  BY DEF HandleChain
<1>2. /\ ledger \in LedgerState /\ ledger.chain \in Seq(Block) /\ ledger.chain # <<>>
      /\ ledger.pendingTransactions \in Seq(Sent)
  BY LedgerFields DEF IInv
<1>3. at \in 1 .. Len(ledger.chain) /\ n \in Nat /\ now \in Nat
  <2>1. at \in 1 .. Len(ledger.chain) - 1
    BY DEF HandleChain
  <2> QED BY <1>2, <2>1, StateLayerAssumption
<1> HIDE DEF n
<1>4. peerChain \in Seq(Block)
  BY <1>1, <1>2, <1>3, PeerChainsTyped
<1>5. peerChain # <<>>
  BY <1>1 DEF AcceptsChain, IsValidChain
<1>6. /\ ReplaceChain(ledger, peerChain) \in LedgerState
      /\ ReplaceChain(ledger, peerChain).chain = peerChain
      /\ ReplaceChain(ledger, peerChain).pendingTransactions \in Seq(Sent)
  BY <1>2, <1>4, <1>5, ReplaceChainTyped
<1>7. <<>> \in Seq(Sent)
  OBVIOUS
<1> QED BY <1>1, <1>4, <1>5, <1>6, <1>7, AdoptKeepsIInv

LEMMA NextKeepsIInv == IInv /\ [Next]_vars => IInv'
<1> SUFFICES ASSUME IInv, [Next]_vars PROVE IInv'
  OBVIOUS
<1>1. CASE \E t \in Transactions : SubmitTransaction(t)
  BY <1>1, SubmitKeepsIInv
<1>2. CASE \E miner \in Miner, now \in Clock : Mine(miner, now)
  BY <1>2, MineKeepsIInv
<1>3. CASE \E miner \in Miner, now \in Clock : HandleNewBlock(miner, now)
  BY <1>3, HandleNewBlockKeepsIInv
<1>4. CASE \E at \in 1 .. MaxChain, miner \in Miner, now \in Clock : HandleChain(at, miner, now)
  BY <1>4, HandleChainKeepsIInv
<1>5. CASE UNCHANGED vars
  BY <1>5 DEF vars, IInv
<1> QED BY <1>1, <1>2, <1>3, <1>4, <1>5 DEF Next

LEMMA Invariance == Spec => []IInv
BY Starts, NextKeepsIInv, PTL DEF Spec

LEMMA DerivedOfChain ==
    ASSUME IInv
    PROVE  /\ derived \in Derived
           /\ Confirmed(ledger.chain) \in Seq(Lawful)
           /\ Told(derived, Confirmed(ledger.chain), Len(Confirmed(ledger.chain)))
<1> DEFINE txs == Confirmed(ledger.chain)
<1>1. txs \in Seq(Lawful) /\ derived = ExecuteAll(NoDerived, txs)
  BY DEF IInv
<1> HIDE DEF txs
<1>2. derived \in Derived
  BY <1>1, NoDerivedIsDerived, ExecuteAllKept
<1>3. Told(derived, txs, Len(txs))
  BY <1>1, ResultsOf
<1> QED BY <1>1, <1>2, <1>3 DEF txs

LEMMA StoryOf ==
    ASSUME IInv, NEW key \in DOMAIN derived.history
    PROVE  /\ key \in Key
           /\ derived.history[key] \in Seq(Change) /\ derived.history[key] # <<>>
           /\ HistoryOf(derived, key) = derived.history[key]
           /\ Story(key, derived.history[key], EntryAt(derived.state, key))
<1>1. derived \in Derived
  BY DerivedOfChain
<1>2. /\ derived.history \in Maps(Key, Seq(Change))
      /\ \A k \in Key : Story(k, HistoryOf(derived, k), EntryAt(derived.state, k))
      /\ \A k \in DOMAIN derived.history : derived.history[k] # <<>>
  BY <1>1, DerivedFields
<1>3. key \in Key
  BY <1>2, MapsDef
<1>4. HistoryOf(derived, key) = derived.history[key]
  BY DEF HistoryOf
<1>5. Story(key, derived.history[key], EntryAt(derived.state, key))
  BY <1>2, <1>3, <1>4
<1> QED BY <1>2, <1>3, <1>4, <1>5 DEF Story

-----------------------------------------------------------------------------
(* The state layer keeps its types: no handler writes a value, an owner or *)
(* a key that is none.                                                     *)
THEOREM TypeCorrect == Spec => []TypeOK
<1>1. IInv => TypeOK
  <2> SUFFICES ASSUME IInv PROVE TypeOK
    OBVIOUS
  <2>1. derived \in Derived
    BY DerivedOfChain
  <2>2. /\ derived.state \in Maps(Key, Entry)
        /\ derived.history \in Maps(Key, Seq(Change))
        /\ derived.results \in Maps(Lawful, {"applied", "rejected"})
        /\ derived.threw \in BOOLEAN
    BY <2>1, DerivedFields
  <2>3. DOMAIN derived.state \subseteq Key /\ \A k \in DOMAIN derived.state : derived.state[k] \in Entry
    BY <2>2, MapsDef
  <2>4. DOMAIN derived.history \subseteq Key
    BY <2>2, MapsDef
  <2>5. \A t \in DOMAIN derived.results : derived.results[t] \in {"applied", "rejected"}
    BY <2>2, MapsDef
  <2>6. Range(derived.state) \subseteq Entry
    BY <2>3 DEF Range
  <2>7. Range(derived.results) \subseteq {"applied", "rejected"}
    BY <2>5 DEF Range
  <2> QED BY <2>2, <2>3, <2>4, <2>6, <2>7 DEF IInv, TypeOK
<1> QED BY Invariance, <1>1, PTL

(* The history of a key ends in its entry, and each change starts from     *)
(* what the one before it left.                                            *)
THEOREM StateExplained == Spec => []HistoryExplainsState
<1>1. IInv => HistoryExplainsState
  <2>1. SUFFICES ASSUME IInv, NEW key \in DOMAIN derived.history \cup DOMAIN derived.state
        PROVE  LET h    == HistoryOf(derived, key)
                   last == h[Len(h)]
               IN  /\ h # <<>>
                   /\ EntryAt(derived.state, key) =
                         IF Deletes(last) THEN {}
                         ELSE {[value |-> last.nextValue, owner |-> last.owner]}
                   /\ \A i \in 2 .. Len(h) :
                         \/ h[i].previousValue = h[i - 1].nextValue
                         \/ Deletes(h[i - 1]) /\ h[i].action = "increment"
    BY DEF HistoryExplainsState
  <2> DEFINE h == HistoryOf(derived, key)
  <2>2. derived \in Derived
    BY <2>1, DerivedOfChain
  <2>3. key \in Key
    BY <2>1, <2>2, DerivedFields, MapsDef
  <2>4. Story(key, h, EntryAt(derived.state, key))
    BY <2>2, <2>3, DerivedFields
  <2>5. h # <<>>
    <3>1. CASE key \in DOMAIN derived.history
      BY <2>1, <3>1, StoryOf
    <3>2. CASE key \in DOMAIN derived.state
      <4>1. EntryAt(derived.state, key) # {}
        BY <3>2 DEF EntryAt
      <4> HIDE DEF h
      <4> QED BY <2>4, <4>1 DEF Story
    <3> QED BY <2>1, <3>1, <3>2
  <2> HIDE DEF h
  <2>6. EntryAt(derived.state, key) = LeftBy(h[Len(h)])
    BY <2>4, <2>5 DEF Story
  <2>7. \A i \in 2 .. Len(h) : Linked(h[i - 1], h[i])
    BY <2>4 DEF Story
  <2> QED BY <2>5, <2>6, <2>7 DEF LeftBy, Linked, h
<1> QED BY Invariance, <1>1, PTL

(* A key is changed by its owner alone, and gets another owner only after  *)
(* a deletion.                                                             *)
THEOREM OwnersChangeAlone == Spec => []OwnersAlone
<1>1. IInv => OwnersAlone
  <2>1. SUFFICES ASSUME IInv, NEW key \in DOMAIN derived.history,
                        NEW i \in DOMAIN derived.history[key]
        PROVE  LET h == derived.history[key]
               IN  /\ h[i].by = h[i].owner
                   /\ i > 1 /\ h[i].owner # h[i - 1].owner => Deletes(h[i - 1])
    BY DEF OwnersAlone
  <2> DEFINE h == derived.history[key]
  <2>2. Story(key, h, EntryAt(derived.state, key)) /\ h \in Seq(Change)
    BY <2>1, StoryOf
  <2> HIDE DEF h
  <2>3. i \in 1 .. Len(h) /\ Len(h) \in Nat
    BY <2>1, <2>2 DEF h
  <2>4. Genuine(h[i])
    BY <2>2, <2>3 DEF Story
  <2>5. i > 1 => Linked(h[i - 1], h[i])
    <3>1. i > 1 => i \in 2 .. Len(h)
      BY <2>3
    <3> QED BY <2>2, <3>1 DEF Story
  <2> QED BY <2>4, <2>5 DEF Genuine, Linked, h
<1> QED BY Invariance, <1>1, PTL

(* No sequence of counter operations brings a count below zero, or further *)
(* below.                                                                  *)
THEOREM CountsKept == Spec => []CountersNonNegative
<1>1. IInv => CountersNonNegative
  <2>1. SUFFICES ASSUME IInv, NEW key \in DOMAIN derived.history,
                        NEW i \in DOMAIN derived.history[key]
        PROVE  LET change == derived.history[key][i]
               IN  Below(change.nextValue) /\ change.action # "set" =>
                     /\ Below(change.previousValue)
                     /\ change.nextValue.value > change.previousValue.value
    BY DEF CountersNonNegative
  <2> DEFINE h == derived.history[key]
  <2>2. Story(key, h, EntryAt(derived.state, key)) /\ h \in Seq(Change)
    BY <2>1, StoryOf
  <2> HIDE DEF h
  <2>3. i \in 1 .. Len(h)
    BY <2>1, <2>2 DEF h
  <2>4. Genuine(h[i])
    BY <2>2, <2>3 DEF Story
  <2> QED BY <2>4 DEF Genuine, KeepsCount, h
<1> QED BY Invariance, <1>1, PTL

(* Another address than the owner in a key holds it only by a kv operation *)
(* and until it is deleted.                                                *)
THEOREM NamespacesKept == Spec => []NamespaceKept
<1>1. IInv => NamespaceKept
  <2>1. SUFFICES ASSUME IInv, NEW key \in {k \in DOMAIN derived.history : k.owner \in Address},
                        NEW i \in DOMAIN derived.history[key],
                        derived.history[key][i].owner # key.owner
        PROVE  Claimed(derived.history[key], i)
    BY DEF NamespaceKept, Claimed
  <2> DEFINE h == derived.history[key]
  <2>2. Story(key, h, EntryAt(derived.state, key)) /\ h \in Seq(Change)
    BY <2>1, StoryOf
  <2> HIDE DEF h
  <2>3. i \in 1 .. Len(h) /\ h[i].owner # key.owner /\ key.owner \in Address
    BY <2>1, <2>2 DEF h
  <2>4. Claimed(h, i)
    BY <2>2, <2>3 DEF Story
  <2> QED BY <2>4 DEF h
<1> QED BY Invariance, <1>1, PTL

(* The execution results are those of the transactions of the chain, or,   *)
(* when one of them throws, of those before it; and none that validation   *)
(* refuses is among them.                                                  *)
THEOREM ResultsTold == Spec => []ResultsOfChain
<1>1. IInv => ResultsOfChain
  <2> SUFFICES ASSUME IInv PROVE ResultsOfChain
    OBVIOUS
  <2> DEFINE txs == Confirmed(ledger.chain)
  <2>1. derived \in Derived /\ txs \in Seq(Lawful) /\ Told(derived, txs, Len(txs))
    BY DerivedOfChain
  <2> HIDE DEF txs
  <2>2. Len(txs) \in Nat /\ DOMAIN txs = 1 .. Len(txs)
    BY <2>1
  <2>3. ~derived.threw => DOMAIN derived.results = Range(txs)
    <3>1. Taken(txs, Len(txs)) = Range(txs)
      BY <2>2 DEF Taken, Range
    <3> QED BY <2>1, <3>1 DEF Told
  <2>4. ASSUME derived.threw
        PROVE  \E n \in DOMAIN txs : DOMAIN derived.results = Range(SubSeq(txs, 1, n - 1))
    <3>1. PICK n \in 1 .. Len(txs) : DOMAIN derived.results = Taken(txs, n - 1)
      BY <2>1, <2>4 DEF Told
    <3> DEFINE front == SubSeq(txs, 1, n - 1)
    <3>2. /\ DOMAIN front = 1 .. n - 1
          /\ \A j \in 1 .. n - 1 : front[j] = txs[j]
      BY <2>1, <2>2
    <3> HIDE DEF front
    <3>3. Range(front) = Taken(txs, n - 1)
      BY <3>2 DEF Range, Taken
    <3> QED BY <2>2, <3>1, <3>3 DEF front
  <2>5. DOMAIN derived.results \subseteq Lawful
    BY <2>1, DerivedFields, MapsDef
  <2>6. \A t \in DOMAIN derived.results \cap DOMAIN Payload : t \in Valid
    BY <2>5 DEF Lawful
  <2>7. derived.threw \in BOOLEAN
    BY <2>1, DerivedFields
  <2> QED BY <2>3, <2>4, <2>6, <2>7 DEF ResultsOfChain, txs
<1> QED BY Invariance, <1>1, PTL

(* What the counter app shows is what the operations in the chain come to, *)
(* counted from its first block, as long as no kv operation meddles with   *)
(* the counter's key.                                                      *)
THEOREM CountsTold == Spec => []CountersAddUp
<1>1. IInv => CountersAddUp
  <2> DEFINE txs == Confirmed(ledger.chain)
             key(owner, id) == CounterKeyOf(owner, id)
             atKey(owner, id) == Subsequence(txs, OperatesOn(key(owner, id)))
             items(owner, id) ==
                {item \in AppItems(derived.state, "counter", owner) : item.id = id}
             item(owner, id) == [id |-> id, owner |-> owner, shown |-> Tally(atKey(owner, id))]
  <2>1. SUFFICES ASSUME IInv, NEW owner \in Address, NEW id \in Id, ~derived.threw,
                        \A i \in DOMAIN atKey(owner, id) :
                           "key" \notin DOMAIN OperationOf(atKey(owner, id)[i])
                 PROVE  items(owner, id) = IF Tally(atKey(owner, id)) < 0 THEN {}
                                           ELSE {item(owner, id)}
    BY DEF CountersAddUp, CounterKeyOf
  <2> DEFINE k == key(owner, id)
             at == atKey(owner, id)
  <2>2. txs \in Seq(Lawful) /\ derived = ExecuteAll(NoDerived, txs)
    BY <2>1 DEF IInv
  <2>3. derived \in Derived
    BY <2>1, DerivedOfChain
  <2> HIDE DEF txs
  <2>4. \A i \in 1 .. Len(at) : at[i] \in Counting(k)
    <3> DEFINE T == Lawful
               keep == OperatesOn(k)
    <3>1. txs \in Seq(T) /\ at = Subsequence(txs, keep)
      BY <2>2
    <3> HIDE DEF T, keep, at
    <3>2. at \in Seq(T \cap keep)
      BY <3>1, SubsequenceType
    <3>3. \A i \in 1 .. Len(at) : at[i] \in keep /\ i \in DOMAIN at
      BY <3>2
    <3> QED BY <2>1, <3>3 DEF Counting, keep, at
  <2>5. at = Subsequence(txs, OperatesOn(k)) /\ k = CounterKeyOf(owner, id)
    OBVIOUS
  <2> HIDE DEF at, k
  <2>6. Tally(at) \in CountValues /\ EntryAt(derived.state, k) = Holds(owner, Tally(at))
    BY <2>1, <2>2, <2>4, <2>5, CounterAlong
  <2>7. DOMAIN derived.state \subseteq Key
    BY <2>3, DerivedFields, MapsDef
  <2>8. {j \in DOMAIN derived.state : j.app = "counter" /\ j.owner = owner /\ j.id = id}
           = {k} \cap DOMAIN derived.state
    <3>1. ASSUME NEW j \in Key, j.app = "counter", j.owner = owner, j.id = id PROVE j = k
      BY <2>5, <3>1 DEF Key, CounterKeyOf
    <3>2. k.app = "counter" /\ k.owner = owner /\ k.id = id
      BY <2>5 DEF CounterKeyOf
    <3> QED BY <2>7, <3>1, <3>2
  <2> DEFINE state == derived.state
             shown(j) == [id |-> j.id, owner |-> state[j].owner,
                          shown |-> Shown("counter", state[j].value)]
  <2>9. items(owner, id) = {shown(j) : j \in {k} \cap DOMAIN state}
    <3>1. AppItems(state, "counter", owner)
             = {shown(j) : j \in {i \in DOMAIN state : i.app = "counter" /\ i.owner = owner}}
      BY DEF AppItems
    <3>2. \A j : shown(j).id = j.id
      OBVIOUS
    <3> HIDE DEF shown
    <3>3. items(owner, id) = {shown(j) : j \in
             {i \in DOMAIN state : i.app = "counter" /\ i.owner = owner /\ i.id = id}}
      BY <3>1, <3>2
    <3> QED BY <2>8, <3>3
  <2> HIDE DEF state
  <2>10. CASE Tally(at) < 0
    <3>1. EntryAt(state, k) = {}
      BY <2>6, <2>10 DEF Holds, state
    <3>2. k \notin DOMAIN state
      BY <3>1 DEF EntryAt
    <3> QED BY <2>9, <2>10, <3>2 DEF at
  <2>11. CASE ~(Tally(at) < 0)
    <3> DEFINE e == [value |-> Counter(Tally(at)), owner |-> owner]
    <3>1. EntryAt(state, k) = {e}
      BY <2>6, <2>11 DEF Holds, state
    <3>2. k \in DOMAIN state /\ state[k] = e
      BY <3>1 DEF EntryAt
    <3>3. state[k].owner = owner /\ state[k].value = Counter(Tally(at)) /\ k.id = id
      BY <2>5, <3>2 DEF CounterKeyOf
    <3>4. Shown("counter", Counter(Tally(at))) = Tally(at)
      BY DEF Shown, Counter
    <3>5. shown(k) = item(owner, id)
      BY <3>3, <3>4 DEF at
    <3> HIDE DEF shown, items, item
    <3>6. items(owner, id) = {item(owner, id)}
      BY <2>9, <3>2, <3>5
    <3> QED BY <2>11, <3>6 DEF at
  <2> QED BY <2>10, <2>11
<1> QED BY Invariance, <1>1, PTL

(* The coming block takes the first of the pending transactions that the   *)
(* preview executes, adds its reward, which no app sees, and leaves those  *)
(* that the preview executes after them.                                   *)
LEMMA PreviewAfterBlock ==
    ASSUME IInv, NEW miner \in Miner, NEW now \in Nat,
           NEW mined \in LedgerState, mined = MinePendingTransactions(ledger, miner, now),
           NEW rebuilt, rebuilt = RebuildDerivedState(derived, mined.chain)
    PROVE  SameToApps(PreviewOf(mined, rebuilt), PreviewOf(ledger, derived))
<1> DEFINE p == ledger.pendingTransactions
           L == Lawful
           confirmed == Confirmed(ledger.chain)
           block == NextBlock(ledger, miner, now)
           order == ExecutionOrder(ledger, Len(p))
           rest == ExecutionOrder(mined, Len(mined.pendingTransactions))
           T == Sent
<1>1. /\ ledger \in LedgerState /\ ledger.chain \in Seq(Block) /\ ledger.chain # <<>>
      /\ p \in Seq(T) /\ p \in Seq(Signed) /\ p \in Seq(Transaction) /\ p \in Seq(L)
      /\ confirmed \in Seq(L)
      /\ derived = ExecuteAll(NoDerived, confirmed) /\ derived \in Derived
  BY LedgerFields, SentSeq, DerivedOfChain DEF IInv
<1>2. /\ mined.chain = Append(ledger.chain, block)
      /\ mined.pendingTransactions \in Seq(L)
  <2>1. T \subseteq Transaction
    BY SentFields
  <2> DEFINE made == MinePendingTransactions(ledger, miner, now)
  <2>2. mined.chain = Append(ledger.chain, block) /\ mined.pendingTransactions \in Seq(T)
    <3>1. ledger \in LedgerState /\ ledger.pendingTransactions \in Seq(T)
      BY <1>1
    <3> HIDE DEF T
    <3>2. made.chain = Append(ledger.chain, block) /\ made.pendingTransactions \in Seq(T)
      BY <2>1, <3>1, MineTyped
    <3> QED BY <3>2
  <2> HIDE DEF T
  <2>3. mined.pendingTransactions \in Seq(L)
    BY <2>2, SentSeq DEF T
  <2> QED BY <2>2, <2>3
<1>3. PICK sel, reward :
         /\ sel = TransactionsForNextBlock(ledger)
         /\ sel \in Selections(p)
         /\ reward \in Transaction
         /\ reward.from = Coinbase
         /\ block \in Block
         /\ block.transactions = Append(sel, reward)
  BY <1>1, NextBlockType
<1>4. reward \notin DOMAIN Payload /\ reward \in L
  <2>1. reward \notin DOMAIN Payload
    BY <1>3, StateLayerAssumption, LedgerAssumption
  <2> QED BY <1>3, <2>1 DEF Lawful
<1>5. sel \in Seq(L)
  BY <1>1, <1>3, SelectionLawful
<1>6. rest \in Seq(L)
  <2>1. Len(mined.pendingTransactions) \in Nat
    BY <1>2
  <2>2. rest \in Selections(mined.pendingTransactions)
    BY <2>1, ExecutionOrderSelects
  <2> QED BY <1>2, <2>2, SelectionLawful
<1>7. order = sel \o rest
  BY <1>1, <1>3, OrderAfterBlock
<1> HIDE DEF p, block, order, rest, confirmed
<1> DEFINE u == ExecuteAll(derived, sel)
           x == ExecuteAll(u, rest)
<1>8. u \in Derived
  BY <1>1, <1>5, ExecuteAllKept
<1>9. rebuilt = Execute(u, reward) /\ rebuilt \in Derived
  <2>1. Confirmed(mined.chain) = confirmed \o Append(sel, reward)
    BY <1>1, <1>2, <1>3, ConfirmedAppend DEF confirmed
  <2>2. Append(sel, reward) \in Seq(L)
    BY <1>4, <1>5
  <2>3. rebuilt = ExecuteAll(NoDerived, confirmed \o Append(sel, reward))
    BY <2>1 DEF RebuildDerivedState
  <2>4. rebuilt = ExecuteAll(derived, Append(sel, reward))
    BY <1>1, <2>2, <2>3, NoDerivedIsDerived, ExecuteAllConcat
  <2>5. rebuilt \in Derived
    BY <1>1, <2>2, <2>4, ExecuteAllKept
  <2> QED BY <1>1, <1>4, <1>5, <2>4, <2>5, ExecuteAllNext
<1>10. SameToApps(u, rebuilt)
  <2>1. SameToApps(u, u)
    BY SameRefl
  <2>2. SameToApps(rebuilt, u)
    BY <1>4, <1>8, <1>9, <2>1, ExecuteSame
  <2>3. SameToApps(rebuilt, rebuilt)
    BY SameRefl
  <2> QED BY <2>2, <2>3, SameJoin
<1>11. SameToApps(x, PreviewOf(mined, rebuilt))
  BY <1>6, <1>8, <1>9, <1>10, ExecuteDataSame DEF PreviewOf, rest
<1>12. SameToApps(x, PreviewOf(ledger, derived))
  <2>1. order \in Seq(L)
    BY <1>5, <1>6, <1>7
  <2>2. x = ExecuteAll(derived, order)
    BY <1>1, <1>5, <1>6, <1>7, ExecuteAllConcat
  <2>3. SameToApps(derived, derived)
    BY SameRefl
  <2>4. SameToApps(ExecuteAll(derived, order),
                   ExecuteAll(derived, Subsequence(order, DOMAIN Payload)))
    BY <1>1, <2>1, <2>3, ExecuteDataSame
  <2> QED BY <2>2, <2>4 DEF PreviewOf, order, p
<1> HIDE DEF x
<1> QED BY <1>11, <1>12, SameJoin

(* getPendingStatePreview keeps its promise: no block that may be mined    *)
(* from the mempool changes what the preview shows of state, history and   *)
(* results, however few of the pending transactions it has room for.       *)
THEOREM PreviewKept == Spec => []PreviewStable
<1>1. IInv => PreviewStable
  <2> SUFFICES ASSUME IInv, NEW miner \in Miner, NEW now \in Clock
      PROVE  LET mined   == MinePendingTransactions(ledger, miner, now)
                 before  == PreviewOf(ledger, derived)
                 after   == PreviewOf(mined, RebuildDerivedState(derived, mined.chain))
             IN  /\ after.state = before.state
                 /\ after.history = before.history
                 /\ Restrict(after.results, DOMAIN after.results \cap DOMAIN Payload)
                       = Restrict(before.results, DOMAIN before.results \cap DOMAIN Payload)
    BY DEF PreviewStable
  <2> DEFINE mined == MinePendingTransactions(ledger, miner, now)
             rebuilt == RebuildDerivedState(derived, mined.chain)
             before == PreviewOf(ledger, derived)
             after == PreviewOf(mined, rebuilt)
             T == Sent
  <2>1. now \in Nat
    BY StateLayerAssumption
  <2>2. mined \in LedgerState
    <3>1. ledger \in LedgerState /\ ledger.pendingTransactions \in Seq(T)
          /\ T \subseteq Transaction
      BY SentFields DEF IInv
    <3> HIDE DEF T
    <3> QED BY <2>1, <3>1, MineTyped
  <2> HIDE DEF mined
  <2>3. SameToApps(after, before)
    BY <2>1, <2>2, PreviewAfterBlock DEF mined
  <2> HIDE DEF before, after
  <2>4. /\ after.state = before.state /\ after.history = before.history
        /\ Restrict(after.results, DOMAIN after.results \cap DOMAIN Payload)
              = Restrict(before.results, DOMAIN before.results \cap DOMAIN Payload)
    BY <2>3, SameResultsRestrict DEF SameToApps
  <2> QED BY <2>4 DEF mined, rebuilt, before, after
<1> QED BY Invariance, <1>1, PTL
=============================================================================
