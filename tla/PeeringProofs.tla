--------------------------- MODULE PeeringProofs ---------------------------
(* No dialed peer is given up (Peering.tla), for any set of peers and any  *)
(* number of sockets.                                                      *)
EXTENDS Peering, TLAPS

(* The inductive invariant: that a socket to p is still listed lets        *)
(* scheduleReconnect do nothing, so a listed socket must be one whose      *)
(* close event is still to come, which is OpenListed.                      *)
IInv == TypeOK /\ OpenListed /\ NeverGivenUp

(* A socket to p is an outbound one, and p is its first component.         *)
LEMMA SocketsTo ==
    /\ \A p \in Peer : \A s \in To(p) : s \in Outbound /\ s[1] = p
    /\ \A s \in Outbound : s[1] \in Peer /\ s \in To(s[1])
    /\ \A s \in Inbound : s \notin Outbound
BY PeeringAssumption DEF To, Outbound

(* Dialing p makes one socket that was not there a connecting one, or      *)
(* changes nothing.                                                        *)
LEMMA Dialing ==
    ASSUME NEW p \in Peer, TypeOK, OpenListed, NeverGivenUp,
           ConnectToPeer(p), UNCHANGED sockets
    PROVE  /\ ready' \in [Outbound \cup Inbound -> ReadyState]
           /\ OpenListed'
           /\ \A q \in Peer : \A s \in To(q) : ready[s] # "none" => ready'[s] # "none"
           /\ \E s \in To(p) : ready'[s] # "none"
<1>1. CASE HasPeer(p, sockets)
  <2>1. UNCHANGED ready
    BY <1>1 DEF ConnectToPeer
  <2>2. PICK s \in To(p) : s \in sockets
    BY <1>1 DEF HasPeer
  <2>3. ready[s] # "none"
    BY <2>2 DEF OpenListed
  <2> QED
    BY <2>1, <2>2, <2>3 DEF TypeOK, OpenListed
<1>2. CASE ~HasPeer(p, sockets)
  <2>1. PICK s \in To(p) : ready[s] = "none" /\ ready' = [ready EXCEPT ![s] = "connecting"]
    BY <1>2 DEF ConnectToPeer
  <2>2. s \in Outbound
    BY SocketsTo
  <2>3. ready' \in [Outbound \cup Inbound -> ReadyState] /\ ready'[s] = "connecting"
    BY <2>1, <2>2 DEF TypeOK, ReadyState
  <2>4. \A r \in Outbound \cup Inbound : r # s => ready'[r] = ready[r]
    BY <2>1, <2>2 DEF TypeOK
  <2>5. s \notin sockets
    BY <2>1 DEF OpenListed
  <2>6. OpenListed'
    BY <2>3, <2>4, <2>5 DEF OpenListed, TypeOK
  <2>7. \A q \in Peer : \A r \in To(q) : ready[r] # "none" => ready'[r] # "none"
    BY <2>3, <2>4, SocketsTo
  <2> QED
    BY <2>3, <2>6, <2>7
<1> QED
  BY <1>1, <1>2

(* Startup, at first and after the process has ended.                      *)
LEMMA DialedOnceType ==
    ASSUME NEW r \in DialedOnce
    PROVE  /\ r \in [Outbound \cup Inbound -> {"none", "connecting"}]
           /\ \A p \in Peer : \E s \in To(p) : r[s] # "none"
<1>1. PICK slot \in Slot :
          r = [s \in Outbound \cup Inbound |->
                  IF s \in Peer \X {slot} THEN "connecting" ELSE "none"]
  BY DEF DialedOnce
<1>2. ASSUME NEW p \in Peer PROVE \E s \in To(p) : r[s] # "none"
  <2>1. <<p, slot>> \in To(p) /\ <<p, slot>> \in Outbound /\ <<p, slot>> \in Peer \X {slot}
    BY DEF To, Outbound
  <2> QED
    BY <1>1, <2>1
<1> QED
  BY <1>1, <1>2

LEMMA InitInvariant == Init => IInv
BY DialedOnceType DEF Init, IInv, TypeOK, OpenListed, NeverGivenUp, ReadyState

(* Every event, request and timer keeps the invariant.                     *)
LEMMA NextInvariant == IInv /\ [Next]_vars => IInv'
<1> SUFFICES ASSUME IInv, [Next]_vars PROVE IInv'
  OBVIOUS
<1> USE DEF IInv
<1>1. ASSUME NEW p \in Peer, AddPeer(p) PROVE IInv'
  <2>1. UNCHANGED <<sockets, timers>> /\ ConnectToPeer(p)
    BY <1>1 DEF AddPeer
  <2> QED
    BY <2>1, Dialing DEF TypeOK, NeverGivenUp
<1>2. ASSUME NEW p \in Peer, TimerFires(p) PROVE IInv'
  <2>1. UNCHANGED sockets /\ ConnectToPeer(p) /\ timers' = timers \ {p}
    BY <1>2 DEF TimerFires
  <2>2. \E s \in To(p) : ready'[s] # "none"
    BY <2>1, Dialing
  <2> QED
    BY <2>1, <2>2, Dialing DEF TypeOK, NeverGivenUp
<1>3. ASSUME NEW s \in Outbound, Opened(s) PROVE IInv'
  <2>1. s[1] \in Peer /\ s \in To(s[1])
    BY SocketsTo
  <2>2. /\ ready' \in [Outbound \cup Inbound -> ReadyState]
        /\ ready'[s] = "open"
        /\ \A r \in Outbound \cup Inbound : r # s => ready'[r] = ready[r]
    BY <1>3 DEF Opened, TypeOK, ReadyState
  <2>3. TypeOK' /\ OpenListed'
    BY <1>3, <2>2 DEF Opened, TypeOK, OpenListed
  <2>4. ASSUME NEW p \in Peer PROVE p \in timers' \/ \E r \in To(p) : ready'[r] # "none"
    BY <1>3, <2>1, <2>2, SocketsTo DEF Opened, NeverGivenUp
  <2> QED
    BY <2>3, <2>4 DEF NeverGivenUp
<1>4. ASSUME NEW s \in Inbound, Accepted(s) PROVE IInv'
  <2>1. /\ ready' \in [Outbound \cup Inbound -> ReadyState]
        /\ ready'[s] = "open"
        /\ \A r \in Outbound \cup Inbound : r # s => ready'[r] = ready[r]
    BY <1>4 DEF Accepted, TypeOK, ReadyState
  <2>2. TypeOK' /\ OpenListed'
    BY <1>4, <2>1 DEF Accepted, TypeOK, OpenListed
  <2> QED
    BY <1>4, <2>1, <2>2, SocketsTo DEF Accepted, NeverGivenUp
<1>5. ASSUME NEW s \in Outbound \cup Inbound, Dropped(s) PROVE IInv'
  <2>1. /\ ready' \in [Outbound \cup Inbound -> ReadyState]
        /\ ready'[s] = "closed"
        /\ \A r \in Outbound \cup Inbound : r # s => ready'[r] = ready[r]
    BY <1>5 DEF Dropped, TypeOK, ReadyState
  <2>2. TypeOK' /\ OpenListed'
    BY <1>5, <2>1 DEF Dropped, TypeOK, OpenListed
  <2> QED
    BY <1>5, <2>1, <2>2, SocketsTo DEF Dropped, NeverGivenUp
<1>6. ASSUME NEW s \in Outbound, CloseEvent(s) PROVE IInv'
  <2>1. s[1] \in Peer /\ s \in To(s[1])
    BY SocketsTo
  <2>2. /\ ready' \in [Outbound \cup Inbound -> ReadyState]
        /\ ready'[s] = "none"
        /\ \A r \in Outbound \cup Inbound : r # s => ready'[r] = ready[r]
        /\ sockets' = sockets \ {s}
        /\ timers' = IF HasPeer(s[1], sockets') THEN timers ELSE timers \cup {s[1]}
    BY <1>6 DEF CloseEvent, ScheduleReconnect, TypeOK, ReadyState
  <2>3. TypeOK' /\ OpenListed'
    BY <2>1, <2>2 DEF TypeOK, OpenListed
  <2>4. ASSUME NEW p \in Peer, p # s[1]
        PROVE  p \in timers' \/ \E r \in To(p) : ready'[r] # "none"
    BY <2>2, <2>4, SocketsTo DEF NeverGivenUp
  <2>5. s[1] \in timers' \/ \E r \in To(s[1]) : ready'[r] # "none"
    <3>1. CASE HasPeer(s[1], sockets')
      <4>1. PICK r \in To(s[1]) : r \in sockets'
        BY <3>1 DEF HasPeer
      <4>2. ready'[r] # "none"
        BY <2>3, <4>1 DEF OpenListed
      <4> QED
        BY <4>1, <4>2
    <3>2. CASE ~HasPeer(s[1], sockets')
      BY <2>2, <3>2
    <3> QED
      BY <3>1, <3>2
  <2> QED
    BY <2>3, <2>4, <2>5 DEF NeverGivenUp
<1>7. ASSUME NEW s \in Inbound, ErrorEvent(s) PROVE IInv'
  <2>1. ready' \in DialedOnce /\ sockets' = {} /\ timers' = {}
    BY <1>7 DEF ErrorEvent
  <2> QED
    BY <2>1, DialedOnceType DEF TypeOK, OpenListed, NeverGivenUp, ReadyState
<1>8. CASE UNCHANGED vars
  BY <1>8 DEF vars, TypeOK, OpenListed, NeverGivenUp
<1> QED
  BY <1>1, <1>2, <1>3, <1>4, <1>5, <1>6, <1>7, <1>8 DEF Next

(* The inductive invariant holds of every reachable state. *)
LEMMA Invariance == Spec => []IInv
<1> QED
  BY InitInvariant, NextInvariant, PTL DEF Spec

(* The state keeps its types: a timer is kept under the address of a peer, *)
(* by which connectSocket finds it again.                                  *)
THEOREM TypeCorrect == Spec => []TypeOK
<1>1. IInv => TypeOK
  BY DEF IInv
<1> QED
  BY Invariance, <1>1, PTL

(* Every open socket is listed, from its open event to its close event, so *)
(* that a broadcast reaches all of them.                                   *)
THEOREM SocketsListed == Spec => []OpenListed
<1>1. IInv => OpenListed
  BY DEF IInv
<1> QED
  BY Invariance, <1>1, PTL

(* No peer is ever left without a socket or a timer (connectToPeer,        *)
(* scheduleReconnect).                                                     *)
THEOREM PeersKept == Spec => []NeverGivenUp
<1>1. IInv => NeverGivenUp
  BY DEF IInv
<1> QED
  BY Invariance, <1>1, PTL
=============================================================================
