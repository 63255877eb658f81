------------------------------ MODULE Limiters ------------------------------
(***************************************************************************)
(* The limits on what one source may ask of a node's HTTP API              *)
(* (src/core/rate_limiter.js, and their use in src/node/index.js): a       *)
(* sliding window over all requests, and a cooldown on the faucet.  The    *)
(* faucet is asked for after the body of an admitted request was read.     *)
(* Time is Date.now(), taken not to run backwards.                         *)
(***************************************************************************)
EXTENDS Reductions

CONSTANTS
    Source,         \* remote addresses
    Limit,          \* API_RATE_LIMIT
    Window,         \* API_RATE_WINDOW_MS
    Cooldown,       \* FAUCET_COOLDOWN_MS
    MaxTime         \* bound on the clock

ASSUME LimitersAssumption ==
    /\ Limit \in Nat \ {0}
    /\ Window \in Nat \ {0}
    /\ Cooldown \in Nat
    /\ MaxTime \in Nat \ {0}

VARIABLES
    now,
    requests,       \* of the SlidingWindowRateLimiter
    nextAllowedAt,  \* of the CooldownLimiter
    reading,        \* the sources of admitted faucet requests still being read
    admitted,       \* history: when each source's requests were admitted
    paid            \* history: when each source's faucet requests were

vars == <<now, requests, nextAllowedAt, reading, admitted, paid>>

-----------------------------------------------------------------------------
(* Mutant: once the oldest is stale, all of them are forgotten. *)
FreshOrNone(timestamps) ==
    IF timestamps # <<>> /\ now - timestamps[1] >= Window THEN <<>> ELSE timestamps

(* Mutant: a request that is a whole window old still counts. *)
FreshOrOnTheEdge(timestamps) ==
    Subsequence(timestamps, {timestamp \in Int : now - timestamp <= Window})

Fresh(timestamps) ==
    Subsequence(timestamps, {timestamp \in Int : now - timestamp < Window})

Allows(s) == Len(Fresh(requests[s])) < Limit

(* Mutant: a refused request counts too. *)
AllowCountingRefused(s) ==
    requests' = [requests EXCEPT ![s] = Append(Fresh(@), now)]

(* SlidingWindowRateLimiter.allow *)
Allow(s) ==
    requests' = [requests EXCEPT ![s] = IF Allows(s) THEN Append(Fresh(@), now)
                                        ELSE Fresh(@)]

(* Mutant: one unit early. *)
CooldownAllowsEarly(s) == now + 1 >= nextAllowedAt[s]

CooldownAllows(s) == now >= nextAllowedAt[s]

Init ==
    /\ now = 1
    /\ requests = [s \in Source |-> <<>>]
    /\ nextAllowedAt = [s \in Source |-> 0]
    /\ reading = [s \in Source |-> 0]
    /\ admitted = [s \in Source |-> <<>>]
    /\ paid = [s \in Source |-> <<>>]

Tick ==
    /\ now < MaxTime
    /\ now' = now + 1
    /\ UNCHANGED <<requests, nextAllowedAt, reading, admitted, paid>>

(* handleRequest: every request is counted; the answer to one that is not  *)
(* admitted is 429.                                                        *)
HandleRequest(s) ==
    /\ Allow(s)
    /\ admitted' = [admitted EXCEPT ![s] = IF Allows(s) THEN Append(@, now) ELSE @]
    /\ UNCHANGED <<now, nextAllowedAt, paid>>

Request(s) == HandleRequest(s) /\ UNCHANGED reading

(* POST /faucet *)
RequestFaucet(s) ==
    /\ Allows(s)
    /\ HandleRequest(s)
    /\ reading' = [reading EXCEPT ![s] = @ + 1]

(* Its body has arrived: the cooldown is checked and starts again, before  *)
(* the block is mined.                                                     *)
Faucet(s) ==
    /\ reading[s] > 0
    /\ reading' = [reading EXCEPT ![s] = @ - 1]
    /\ IF CooldownAllows(s)
       THEN /\ nextAllowedAt' = [nextAllowedAt EXCEPT ![s] = now + Cooldown]
            /\ paid' = [paid EXCEPT ![s] = Append(@, now)]
       ELSE UNCHANGED <<nextAllowedAt, paid>>
    /\ UNCHANGED <<now, requests, admitted>>

Next ==
    \/ Tick
    \/ \E s \in Source : Request(s) \/ RequestFaucet(s) \/ Faucet(s)

Spec == Init /\ [][Next]_vars

-----------------------------------------------------------------------------
(* The map keeps no more than `limit` timestamps of a source. *)
TypeOK ==
    /\ now \in 1 .. MaxTime
    /\ requests \in [Source -> Seq(1 .. now)]
    /\ \A s \in Source : Len(requests[s]) <= Limit
    /\ nextAllowedAt \in [Source -> Nat]
    /\ reading \in [Source -> Nat]
    /\ admitted \in [Source -> Seq(1 .. now)]
    /\ paid \in [Source -> Seq(1 .. now)]

(* No window of windowMs holds more than `limit` admitted requests of a    *)
(* source, wherever it begins: the limiter keeps no more than the fresh    *)
(* timestamps, and that is enough.                                         *)
WindowRespected ==
    \A s \in Source : \A i \in DOMAIN admitted[s] :
        i + Limit \in DOMAIN admitted[s] =>
            admitted[s][i + Limit] - admitted[s][i] >= Window

(* Refusals are not counted: whoever goes on asking is admitted as soon as *)
(* one of the last `limit` requests that were has left the window.         *)
RefusedOnlyWhenFull ==
    \A s \in Source :
        ~Allows(s) =>
            /\ Len(admitted[s]) >= Limit
            /\ now - admitted[s][Len(admitted[s]) - Limit + 1] < Window

(* A source is paid by the faucet at most once in cooldownMs, however many *)
(* of its requests are being read at once.                                 *)
CooldownRespected ==
    \A s \in Source : \A i \in 2 .. Len(paid[s]) :
        paid[s][i] - paid[s][i - 1] >= Cooldown
=============================================================================
