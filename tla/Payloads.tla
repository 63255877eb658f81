------------------------------ MODULE Payloads ------------------------------
(***************************************************************************)
(* What a data transaction may carry (src/core/blockchain.js): a legacy    *)
(* payload, which is an operation; a formal one, an action of an app with  *)
(* its params; or anything else, which the state layer leaves alone.  The  *)
(* same check is made when a transaction is admitted, when a block with it *)
(* arrives, and once more when it is executed.                             *)
(*                                                                         *)
(* A payload is a record.  A field of it is of the JSON type that the name *)
(* of the field calls for, or it is IllTyped, or it is a string that is    *)
(* Blank: nothing once trimmed, or no id or name a handler takes.          *)
(***************************************************************************)
EXTENDS Integers, TLC

CONSTANTS IllTyped, Blank

Policy(operation, required, optional) ==
    [operation |-> operation, required |-> required, optional |-> optional]

(* ACTION_POLICIES and ACTION_POLICY_MAP: the operation of each action of  *)
(* an app, and its params.                                                 *)
ActionPolicies ==
    <<"kv", "set">>          :> Policy("kv:set", {"key", "value"}, {}) @@
    <<"kv", "delete">>       :> Policy("kv:delete", {"key"}, {}) @@
    <<"kv", "increment">>    :> Policy("kv:increment", {"key", "amount"}, {}) @@
    <<"todo", "create">>     :> Policy("todo:create", {"id", "text"}, {}) @@
    <<"todo", "toggle">>     :> Policy("todo:toggle", {"id"}, {"done"}) @@
    <<"todo", "delete">>     :> Policy("todo:delete", {"id"}, {}) @@
    <<"notes", "set">>       :> Policy("note:set", {"id", "content"}, {}) @@
    <<"notes", "delete">>    :> Policy("note:delete", {"id"}, {}) @@
    <<"profile", "set">>     :> Policy("profile:set", {"displayName"}, {"bio"}) @@
    <<"profile", "delete">>  :> Policy("profile:delete", {}, {}) @@
    <<"registry", "set">>    :> Policy("registry:set", {"name", "record"}, {}) @@
    <<"registry", "delete">> :> Policy("registry:delete", {"name"}, {}) @@
    <<"counter", "create">>  :> Policy("counter:create", {"id"}, {"initialValue"}) @@
    <<"counter", "add">>     :> Policy("counter:add", {"id", "delta"}, {}) @@
    <<"counter", "sub">>     :> Policy("counter:sub", {"id", "delta"}, {}) @@
    <<"counter", "delete">>  :> Policy("counter:delete", {"id"}, {})

(* STATE_OPERATIONS: those that have a handler. *)
Operations ==
    {"kv:set", "kv:delete", "kv:increment", "todo:create", "todo:toggle", "todo:delete",
     "note:set", "note:delete", "profile:set", "profile:delete", "registry:set",
     "registry:delete", "counter:create", "counter:add", "counter:sub", "counter:delete"}

-----------------------------------------------------------------------------
FormalFields == {"app", "action", "params"}

Resolution(operation, policy, error) ==
    [operation |-> operation, policy |-> policy, error |-> error]

(* getFormalActionPayloadResolution: the params are spread over the        *)
(* operation of the policy, and one that is named `op` takes its place.    *)
FormalActionPayloadResolution(payload) ==
    IF FormalFields \cap DOMAIN payload = {} THEN Resolution({}, {}, FALSE)
    ELSE IF \/ ~(FormalFields \subseteq DOMAIN payload)
            \/ \E field \in FormalFields : payload[field] = IllTyped
            \/ <<payload.app, payload.action>> \notin DOMAIN ActionPolicies
    THEN Resolution({}, {}, TRUE)
    ELSE LET policy == ActionPolicies[payload.app, payload.action]
         IN  Resolution({payload.params @@ ("op" :> policy.operation)}, {policy}, FALSE)

(* resolveStateOperation and parseStateOperation.  The policy that legacy  *)
(* payloads get is only told, never checked.                               *)
ResolveStateOperation(payload) ==
    IF "op" \in DOMAIN payload /\ payload.op # IllTyped
    THEN Resolution({payload}, {}, FALSE)
    ELSE FormalActionPayloadResolution(payload)

-----------------------------------------------------------------------------
(* validateActionPolicyPayload; the type of `value` is any. *)
ActionPolicyAllows(policy, params) ==
    /\ policy.required \subseteq DOMAIN params
    /\ \A name \in (policy.required \cup policy.optional) \ {"value"} :
          name \in DOMAIN params => params[name] # IllTyped

(* The fields that the handler of an operation does not do without, and    *)
(* those it checks when they are there.                                    *)
NeededBy(op) ==
    CASE op \in {"kv:set", "kv:delete"}                        -> {"key"}
      [] op = "kv:increment"                                   -> {"key", "amount"}
      [] op = "todo:create"                                    -> {"id", "text"}
      [] op = "note:set"                                       -> {"id", "content"}
      [] op = "profile:set"                                    -> {"displayName"}
      [] op = "profile:delete"                                 -> {}
      [] op = "registry:set"                                   -> {"name", "record"}
      [] op = "registry:delete"                                -> {"name"}
      [] op = "counter:create"                                 -> {"id", "initialValue"}
      [] op \in {"counter:add", "counter:sub"}                 -> {"id", "delta"}
      [] op \in {"todo:toggle", "todo:delete", "note:delete", "counter:delete"} -> {"id"}

CheckedBy(op) ==
    CASE op = "todo:toggle" -> {"done"} [] op = "profile:set" -> {"bio"} [] OTHER -> {}

(* Mutant: numbers are left to the policies, which see to their type only. *)
NumbersUnchecked(o) == o.op = "kv:set" => "value" \in DOMAIN o

(* The handlers' checks of numbers; `value` may be anything, but there.    *)
NumbersAllowed(o) ==
    /\ o.op = "kv:set" => "value" \in DOMAIN o
    /\ o.op = "kv:increment" => o.amount # 0
    /\ o.op = "counter:create" => o.initialValue >= 0
    /\ o.op \in {"counter:add", "counter:sub"} => o.delta > 0

(* The validate functions of the handlers, and the check of explicit keys. *)
HandlerAllows(o) ==
    /\ o.op \in Operations
    /\ \A name \in NeededBy(o.op) : name \in DOMAIN o /\ o[name] \notin {IllTyped, Blank}
    /\ \A name \in CheckedBy(o.op) \cap DOMAIN o : o[name] # IllTyped
    /\ NumbersAllowed(o)

(* validateStateTransaction *)
ValidStatePayload(payload) ==
    LET resolved == ResolveStateOperation(payload)
    IN  /\ ~resolved.error
        /\ \A policy \in resolved.policy : ActionPolicyAllows(policy, payload.params)
        /\ \A o \in resolved.operation : HandlerAllows(o)
==============================================================================
