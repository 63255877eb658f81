---------------------------- MODULE MCStateLayer ----------------------------
(* The instances of StateLayer.tla that TLC checks: which operations the   *)
(* wallets sign.                                                           *)
EXTENDS StateLayer

CONSTANTS a, b, x, MCNonces, MCOperations

(* The key of a's counter, which a kv operation of anyone may take. *)
CounterKey == [app |-> "counter", owner |-> a, id |-> x]

Formal(app, action, params) == [app |-> app, action |-> action, params |-> params]

(* Keys that go from hand to hand; an action that is declared as a todo's  *)
(* and does something else; and what no node admits.                       *)
MCShared ==
    <<[op |-> "kv:set", key |-> CounterKey, value |-> Null],
      Formal("todo", "create", [id |-> x, text |-> "text", op |-> "kv:delete", key |-> CounterKey]),
      Formal("counter", "add", [id |-> x, delta |-> 2]),
      Formal("registry", "set", [name |-> x, record |-> "text"]),
      [op |-> "registry:delete", name |-> x],
      Formal("counter", "create", [id |-> x])>>

(* What no node admits: numbers a counter must not start from or change    *)
(* by, fields that are blank, missing or of another type, and actions that *)
(* are not there or hide an operation that is not.                         *)
MCMalformed ==
    <<Formal("counter", "create", [id |-> x, initialValue |-> -1]),
      [op |-> "counter:create", id |-> x, initialValue |-> -1],
      Formal("counter", "add", [id |-> x, delta |-> -3]),
      [op |-> "counter:sub", id |-> x, delta |-> IllTyped],
      Formal("todo", "create", [id |-> Blank, text |-> "text"]),
      Formal("todo", "toggle", [id |-> x, done |-> IllTyped]),
      Formal("profile", "set", [displayName |-> "text", bio |-> IllTyped]),
      Formal("counter", "set", [id |-> x]),
      Formal("notes", "set", [id |-> x, content |-> "text", op |-> IllTyped]),
      [app |-> "todo", params |-> IllTyped],
      [op |-> "kv:increment", key |-> CounterKey, amount |-> 0],
      [op |-> "kv:set", key |-> Blank]>>

(* The applications of a, and what a may put at the key of its counter.    *)
MCApplications ==
    <<Formal("counter", "create", [id |-> x, initialValue |-> 1]),
      Formal("counter", "add", [id |-> x, delta |-> 2]),
      [op |-> "counter:sub", id |-> x, delta |-> 2],
      [op |-> "counter:delete", id |-> x],
      [op |-> "kv:set", key |-> CounterKey, value |-> Counter(-3)],
      [op |-> "kv:set", key |-> CounterKey, value |-> Number(1)],
      [op |-> "kv:set", key |-> CounterKey, value |-> Null],
      Formal("kv", "increment", [key |-> CounterKey, amount |-> 2]),
      Formal("todo", "create", [id |-> x, text |-> "text"]),
      [op |-> "todo:toggle", id |-> x],
      Formal("todo", "toggle", [id |-> x, done |-> TRUE]),
      [op |-> "todo:delete", id |-> x],
      Formal("notes", "set", [id |-> x, content |-> "text"]),
      [op |-> "note:delete", id |-> x],
      Formal("profile", "set", [displayName |-> "text"]),
      Formal("profile", "delete", [p \in {} |-> x])>> \o MCMalformed

(* The size of a payload tells the operations apart.  What a signs is the  *)
(* younger: it yields its place in a block to what b signs.                *)
MCTransactions ==
    {t \in [from : Address, to : Address, amount : {0}, fee : {0}, nonce : MCNonces,
            timestamp : {1, 2}, type : {"data"}, bytes : DOMAIN MCOperations] :
        t.from = t.to /\ t.timestamp = IF t.from = a THEN 2 ELSE 1}

MCPayload == [t \in MCTransactions |-> MCOperations[t.bytes]]
=============================================================================
