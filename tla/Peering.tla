------------------------------ MODULE Peering ------------------------------
(***************************************************************************)
(* The sockets of one node (P2PServer in src/network/p2p.js): dialing a    *)
(* peer, the events of a socket, and the timers that dial again.  What     *)
(* goes over a socket is in Network.tla, where only open sockets are seen. *)
(*                                                                         *)
(* An outbound socket is the address it dials and a slot.  A socket that   *)
(* has closed waits for its close event; an inbound one has no handler for *)
(* that event.                                                             *)
(***************************************************************************)
EXTENDS Naturals, FiniteSets

CONSTANTS
    Peer,       \* the addresses of BOOTSTRAP_PEERS and of the command line
    Slot,       \* bound: the sockets to one address at a time
    Inbound     \* bound: the sockets accepted

ASSUME PeeringAssumption ==
    /\ Slot # {}
    /\ Inbound \cap (Peer \X Slot) = {}

VARIABLES
    ready,      \* readyState of a socket; "none" when there is no such socket
    sockets,    \* this.sockets
    timers      \* the keys of this.peerReconnectTimers

vars == <<ready, sockets, timers>>

Outbound == Peer \X Slot

To(p) == {p} \X Slot

ReadyState == {"none", "connecting", "open", "closed"}

HasPeer(p, in) == in \cap To(p) # {}

-----------------------------------------------------------------------------
(* connectToPeer: nothing while a socket to p is listed, and one is listed *)
(* only once it has opened.                                                *)
ConnectToPeer(p) ==
    IF HasPeer(p, sockets) THEN UNCHANGED ready
    ELSE \E s \in To(p) :
            ready[s] = "none" /\ ready' = [ready EXCEPT ![s] = "connecting"]

(* Startup dials every peer once. *)
DialedOnce ==
    {[s \in Outbound \cup Inbound |->
         IF s \in Peer \X {slot} THEN "connecting" ELSE "none"] : slot \in Slot}

Init ==
    /\ ready \in DialedOnce
    /\ sockets = {}
    /\ timers = {}

(* POST /peers. *)
AddPeer(p) ==
    /\ ConnectToPeer(p)
    /\ UNCHANGED <<sockets, timers>>

(* The open event, and connectSocket. *)
Opened(s) ==
    /\ ready[s] = "connecting"
    /\ ready' = [ready EXCEPT ![s] = "open"]
    /\ sockets' = sockets \cup {s}
    /\ timers' = timers \ {s[1]}

(* The connection event of the server. *)
Accepted(s) ==
    /\ ready[s] = "none"
    /\ ready' = [ready EXCEPT ![s] = "open"]
    /\ sockets' = sockets \cup {s}
    /\ UNCHANGED timers

(* The connection is refused or lost.  The error event is only logged. *)
Dropped(s) ==
    /\ ready[s] \in {"connecting", "open"}
    /\ ready' = [ready EXCEPT ![s] = "closed"]
    /\ UNCHANGED <<sockets, timers>>

ScheduleReconnect(p, in) ==
    timers' = IF HasPeer(p, in) THEN timers ELSE timers \cup {p}

(* Mutants: the timer is kept under the socket; reconnecting is scheduled  *)
(* while the socket is still listed; it is scheduled only for a socket     *)
(* that had opened; the socket stays listed.                               *)
CloseEventTimingSocket(s) ==
    /\ ready[s] = "closed"
    /\ ready' = [ready EXCEPT ![s] = "none"]
    /\ sockets' = sockets \ {s}
    /\ ScheduleReconnect(s, sockets')

CloseEventSchedulingFirst(s) ==
    /\ ready[s] = "closed"
    /\ ready' = [ready EXCEPT ![s] = "none"]
    /\ sockets' = sockets \ {s}
    /\ ScheduleReconnect(s[1], sockets)

CloseEventOnceOpened(s) ==
    /\ ready[s] = "closed"
    /\ ready' = [ready EXCEPT ![s] = "none"]
    /\ sockets' = sockets \ {s}
    /\ IF s \in sockets THEN ScheduleReconnect(s[1], sockets') ELSE UNCHANGED timers

CloseEventKeepingSocket(s) ==
    /\ ready[s] = "closed"
    /\ ready' = [ready EXCEPT ![s] = "none"]
    /\ UNCHANGED sockets
    /\ ScheduleReconnect(s[1], sockets \ {s})

(* The close event of an outbound socket: removeSocket, then               *)
(* scheduleReconnect.                                                      *)
CloseEvent(s) ==
    /\ ready[s] = "closed"
    /\ ready' = [ready EXCEPT ![s] = "none"]
    /\ sockets' = sockets \ {s}
    /\ ScheduleReconnect(s[1], sockets')

(* Two seconds later. *)
TimerFires(p) ==
    /\ p \in timers
    /\ timers' = timers \ {p}
    /\ ConnectToPeer(p)
    /\ UNCHANGED sockets

(* The error event of an accepted socket has no handler: it is thrown and  *)
(* ends the process, with every socket and timer.  The node is started     *)
(* again.                                                                  *)
ErrorEvent(s) ==
    /\ ready[s] = "open"
    /\ ready' \in DialedOnce
    /\ sockets' = {}
    /\ timers' = {}

Next ==
    \/ \E p \in Peer : AddPeer(p) \/ TimerFires(p)
    \/ \E s \in Outbound : Opened(s) \/ CloseEvent(s)
    \/ \E s \in Inbound : Accepted(s) \/ ErrorEvent(s)
    \/ \E s \in Outbound \cup Inbound : Dropped(s)

Spec == Init /\ [][Next]_vars

(* Events and timers come; of the attempts to reach a peer, one succeeds.  *)
FairSpec ==
    /\ Spec
    /\ \A p \in Peer :
          /\ WF_vars(TimerFires(p))
          /\ SF_vars(\E s \in To(p) : Opened(s))
    /\ \A s \in Outbound : WF_vars(CloseEvent(s))

-----------------------------------------------------------------------------
TypeOK ==
    /\ ready \in [Outbound \cup Inbound -> ReadyState]
    /\ sockets \subseteq Outbound \cup Inbound
    /\ timers \subseteq Peer

(* broadcast reaches every open socket, and a socket is listed only from   *)
(* its open event to its close event.                                      *)
OpenListed ==
    /\ \A s \in Outbound \cup Inbound : ready[s] = "open" => s \in sockets
    /\ \A s \in sockets : ready[s] \in {"open", "closed"}

(* No peer is given up: whatever the order of requests, timers, and events *)
(* of several sockets to it, there is a socket to it that is open, opening *)
(* or about to report its end, or a timer that will dial again.            *)
NeverGivenUp ==
    \A p \in Peer : p \in timers \/ \E s \in To(p) : ready[s] # "none"

(* A peer that can be reached is connected again after every failure.      *)
Reconnects == \A p \in Peer : []<>(\E s \in To(p) : ready[s] = "open")

=============================================================================
