--------------------------- MODULE LimitersProofs ---------------------------
(***************************************************************************)
(* The limits hold for every limit, window and cooldown, however requests  *)
(* and the bodies of faucet requests are interleaved.                      *)
(***************************************************************************)
EXTENDS Limiters, ReductionTheorems, TLAPS

(* The inductive invariant.  That a window holds no more than `limit`      *)
(* admissions is kept only because the limiter has forgotten none that is  *)
(* still fresh: what it keeps of a source is the end of its admissions,    *)
(* and the ones before are stale.                                          *)
Remembers(r, h, n) ==
    /\ Len(r) <= Len(h)
    /\ \A k \in 1 .. Len(r) : r[k] = h[Len(h) - Len(r) + k]
    /\ \A j \in 1 .. Len(h) - Len(r) : n - h[j] >= Window

InTimeOrder(h) == \A i, j \in 1 .. Len(h) : i <= j => h[i] <= h[j]

(* One source's share of WindowRespected and of CooldownRespected. *)
Spread(h) ==
    \A i \in 1 .. Len(h) : i + Limit <= Len(h) => h[i + Limit] - h[i] >= Window

Apart(p) == \A i \in 2 .. Len(p) : p[i] - p[i - 1] >= Cooldown

PaidLast(p, next) == p # <<>> => next = p[Len(p)] + Cooldown

SlidingWindow(s) ==
    /\ InTimeOrder(admitted[s])
    /\ Remembers(requests[s], admitted[s], now)
    /\ Spread(admitted[s])

Cooling(s) == PaidLast(paid[s], nextAllowedAt[s]) /\ Apart(paid[s])

IInv == TypeOK /\ \A s \in Source : SlidingWindow(s) /\ Cooling(s)

-----------------------------------------------------------------------------
LEMMA SeqOfLater ==
    ASSUME NEW n \in Nat, NEW m \in Nat, n <= m, NEW q \in Seq(1 .. n)
    PROVE  q \in Seq(1 .. m)
OBVIOUS

(* What is fresh of the timestamps kept is the end of the admissions, and  *)
(* everything before it is stale.                                          *)
LEMMA FreshRemembers ==
    ASSUME IInv, NEW s \in Source
    PROVE  LET f == Fresh(requests[s])
               h == admitted[s]
           IN  /\ f \in Seq(1 .. now)
               /\ Len(f) <= Len(requests[s])
               /\ Remembers(f, h, now)
               /\ \A k \in 1 .. Len(f) : now - h[Len(h) - Len(f) + k] < Window
<1> DEFINE r == requests[s]
           h == admitted[s]
           keep == {timestamp \in Int : now - timestamp < Window}
           f == Subsequence(r, keep)
           T == 1 .. now
<1>1. /\ now \in Nat /\ Window \in Nat
      /\ r \in Seq(T) /\ h \in Seq(T)
      /\ InTimeOrder(h) /\ Remembers(r, h, now)
  BY LimitersAssumption DEF IInv, TypeOK, SlidingWindow
<1>2. /\ \A i \in 1 .. Len(r) : r[i] \in Nat
      /\ \A i \in 1 .. Len(h) : h[i] \in Nat
      /\ Len(r) \in Nat /\ Len(h) \in Nat /\ Len(r) <= Len(h)
  BY <1>1 DEF Remembers
<1>3. ASSUME NEW i \in 1 .. Len(r), NEW j \in 1 .. Len(r), i <= j, r[i] \in keep
      PROVE  r[j] \in keep
  <2> DEFINE d == Len(h) - Len(r)
  <2> HIDE DEF r, h, T
  <2>1. /\ d + i \in 1 .. Len(h) /\ d + j \in 1 .. Len(h)
        /\ d + i <= d + j
    BY <1>2, <1>3
  <2>2. r[i] = h[d + i] /\ r[j] = h[d + j]
    BY <1>1 DEF Remembers
  <2>3. r[i] <= r[j]
    BY <1>1, <2>1, <2>2 DEF InTimeOrder
  <2> QED BY <1>1, <1>2, <1>3, <2>3
<1>4. KeptEnd(f, r, Len(r), keep)
  <2> HIDE DEF r, keep, T
  <2> QED BY <1>1, <1>3, SubsequenceEnds
<1>5. f \in Seq(T)
  <2> HIDE DEF r, keep, T
  <2> QED BY <1>1, SubsequenceType
<1>6. /\ Len(f) \in Nat /\ Len(f) <= Len(r)
      /\ \A k \in 1 .. Len(f) : f[k] = r[Len(r) - Len(f) + k] /\ f[k] \in keep
      /\ \A j \in 1 .. Len(r) - Len(f) : r[j] \notin keep
  <2> HIDE DEF r, f, keep, T
  <2> QED BY <1>4, <1>5 DEF KeptEnd
<1> HIDE DEF f, r, h, T
<1>7. \A k \in 1 .. Len(f) : f[k] = h[Len(h) - Len(f) + k] /\ f[k] \in keep
  <2> TAKE k \in 1 .. Len(f)
  <2> DEFINE i == Len(r) - Len(f) + k
  <2>1. i \in 1 .. Len(r) /\ f[k] = r[i] /\ f[k] \in keep
    BY <1>2, <1>6
  <2>2. r[i] = h[Len(h) - Len(r) + i]
    BY <1>1, <2>1 DEF Remembers
  <2>3. Len(h) - Len(r) + i = Len(h) - Len(f) + k
    BY <1>2, <1>6
  <2> QED BY <2>1, <2>2, <2>3
<1>8. \A j \in 1 .. Len(h) - Len(f) : now - h[j] >= Window
  <2> TAKE j \in 1 .. Len(h) - Len(f)
  <2>1. CASE j <= Len(h) - Len(r)
    BY <1>1, <1>6, <2>1 DEF Remembers
  <2>2. CASE j > Len(h) - Len(r)
    <3> DEFINE i == j - (Len(h) - Len(r))
    <3>1. i \in 1 .. Len(r) - Len(f) /\ i \in 1 .. Len(r) /\ Len(h) - Len(r) + i = j
      BY <1>2, <1>6, <2>2
    <3> HIDE DEF i
    <3>2. r[i] \notin keep
      BY <1>6, <3>1
    <3>3. r[i] = h[j]
      BY <1>1, <3>1 DEF Remembers
    <3> QED BY <1>1, <1>2, <3>1, <3>2, <3>3
  <2> QED BY <1>2, <1>6, <2>1, <2>2
<1>9. Len(f) <= Len(h)
  BY <1>2, <1>6
<1>10. Remembers(f, h, now)
  BY <1>7, <1>8, <1>9 DEF Remembers
<1>11. \A k \in 1 .. Len(f) : now - h[Len(h) - Len(f) + k] < Window
  BY <1>1, <1>7
<1>12. f = Fresh(requests[s])
  BY DEF f, r, Fresh
<1> QED BY <1>5, <1>6, <1>10, <1>11, <1>12 DEF r, h, T

-----------------------------------------------------------------------------
THEOREM InitIInv == Init => IInv
BY LimitersAssumption
   DEF Init, IInv, TypeOK, SlidingWindow, Cooling, InTimeOrder, Remembers, Spread,
       PaidLast, Apart

(* The clock only makes what is stale staler. *)
LEMMA TickKeepsIInv == ASSUME IInv, Tick PROVE IInv'
<1>1. now \in Nat /\ now' \in Nat /\ now < now' /\ now' \in 1 .. MaxTime
  BY LimitersAssumption DEF IInv, TypeOK, Tick
<1>2. UNCHANGED <<requests, nextAllowedAt, reading, admitted, paid>>
  BY DEF Tick
<1>3. \A s \in Source :
         /\ requests[s] \in Seq(1 .. now') /\ admitted[s] \in Seq(1 .. now')
         /\ paid[s] \in Seq(1 .. now')
  BY <1>1, SeqOfLater DEF IInv, TypeOK
<1>4. TypeOK'
  BY <1>1, <1>2, <1>3 DEF IInv, TypeOK
<1>5. ASSUME NEW s \in Source PROVE SlidingWindow(s)' /\ Cooling(s)'
  <2>1. SlidingWindow(s) /\ Cooling(s) /\ admitted[s] \in Seq(1 .. now)
    BY DEF IInv, TypeOK
  <2>2. Len(requests[s]) <= Len(admitted[s]) /\ requests[s] \in Seq(1 .. now)
    BY <2>1 DEF SlidingWindow, Remembers, IInv, TypeOK
  <2>3. Remembers(requests[s], admitted[s], now')
    <3> DEFINE h == admitted[s]
           r == requests[s]
    <3>1. /\ h \in Seq(1 .. now) /\ Len(h) \in Nat /\ Len(r) \in Nat
          /\ Remembers(r, h, now)
      BY <2>1, <2>2 DEF SlidingWindow
    <3> HIDE DEF h, r
    <3>2. ASSUME NEW j \in 1 .. Len(h) - Len(r) PROVE now' - h[j] >= Window
      <4>1. j \in 1 .. Len(h)
        BY <3>1
      <4>2. h[j] \in Int /\ now - h[j] >= Window
        BY <1>1, <3>1, <4>1 DEF Remembers
      <4> QED BY <1>1, <4>2, LimitersAssumption
    <3>3. Remembers(r, h, now')
      BY <3>1, <3>2 DEF Remembers
    <3> QED BY <3>3 DEF h, r
  <2> QED BY <1>2, <2>1, <2>3 DEF SlidingWindow, Cooling
<1> QED BY <1>4, <1>5 DEF IInv

(* A source's window after `allow`: with the request that was admitted, or *)
(* without the one that was refused.                                       *)
LEMMA AllowKeepsWindow ==
    ASSUME IInv, NEW s \in Source
    PROVE  LET f == Fresh(requests[s])
               h == admitted[s]
               r2 == IF Allows(s) THEN Append(f, now) ELSE f
               h2 == IF Allows(s) THEN Append(h, now) ELSE h
           IN  /\ r2 \in Seq(1 .. now) /\ h2 \in Seq(1 .. now)
               /\ Len(r2) <= Limit
               /\ InTimeOrder(h2) /\ Remembers(r2, h2, now) /\ Spread(h2)
<1> DEFINE f == Fresh(requests[s])
           h == admitted[s]
           T == 1 .. now
<1>1. /\ now \in T /\ now \in Nat /\ Window \in Nat /\ Limit \in Nat \ {0}
      /\ requests[s] \in Seq(T) /\ Len(requests[s]) <= Limit /\ h \in Seq(T)
      /\ InTimeOrder(h) /\ Spread(h)
  BY LimitersAssumption DEF IInv, TypeOK, SlidingWindow
<1>2. /\ f \in Seq(T) /\ Len(f) <= Len(requests[s]) /\ Remembers(f, h, now)
  BY FreshRemembers
<1>3. Allows(s) <=> Len(f) < Limit
  BY DEF Allows
<1> HIDE DEF f, h
<1>4. CASE ~Allows(s)
  BY <1>1, <1>2, <1>4 DEF f, h
<1>5. CASE Allows(s)
  <2> DEFINE r2 == Append(f, now)
             h2 == Append(h, now)
  <2>1. /\ r2 \in Seq(T) /\ Len(r2) = Len(f) + 1 /\ r2[Len(f) + 1] = now
        /\ \A k \in 1 .. Len(f) : r2[k] = f[k]
    BY <1>1, <1>2
  <2>2. /\ h2 \in Seq(T) /\ Len(h2) = Len(h) + 1 /\ h2[Len(h) + 1] = now
        /\ \A k \in 1 .. Len(h) : h2[k] = h[k]
        /\ \A k \in 1 .. Len(h2) : h2[k] \in T
    BY <1>1
  <2>3. Len(f) \in Nat /\ Len(h) \in Nat /\ Len(f) <= Len(h)
    BY <1>1, <1>2 DEF Remembers
  <2> HIDE DEF r2, h2
  <2>4. InTimeOrder(h2)
    <3> SUFFICES ASSUME NEW i \in 1 .. Len(h2), NEW j \in 1 .. Len(h2), i <= j
                 PROVE  h2[i] <= h2[j]
      BY DEF InTimeOrder
    <3>1. CASE j = Len(h) + 1
      BY <1>1, <2>2, <3>1
    <3>2. CASE j # Len(h) + 1
      <4>1. i \in 1 .. Len(h) /\ j \in 1 .. Len(h)
        BY <2>2, <2>3, <3>2
      <4> QED BY <1>1, <2>2, <4>1 DEF InTimeOrder
    <3> QED BY <3>1, <3>2
  <2>5. Remembers(r2, h2, now)
    <3>1. ASSUME NEW k \in 1 .. Len(r2) PROVE r2[k] = h2[Len(h2) - Len(r2) + k]
      <4>1. CASE k = Len(f) + 1
        BY <2>1, <2>2, <2>3, <4>1
      <4>2. CASE k # Len(f) + 1
        <5>1. /\ k \in 1 .. Len(f) /\ Len(h) - Len(f) + k \in 1 .. Len(h)
              /\ Len(h2) - Len(r2) + k = Len(h) - Len(f) + k
          BY <2>1, <2>2, <2>3, <4>2
        <5> QED BY <1>2, <2>1, <2>2, <5>1 DEF Remembers
      <4> QED BY <4>1, <4>2
    <3>2. ASSUME NEW j \in 1 .. Len(h2) - Len(r2) PROVE now - h2[j] >= Window
      <4>1. j \in 1 .. Len(h) - Len(f) /\ j \in 1 .. Len(h)
        BY <2>1, <2>2, <2>3
      <4>2. now - h[j] >= Window
        BY <1>2, <4>1 DEF Remembers
      <4> QED BY <2>2, <4>1, <4>2
    <3> QED BY <2>1, <2>2, <2>3, <3>1, <3>2 DEF Remembers
  <2>6. Spread(h2)
    <3> SUFFICES ASSUME NEW i \in 1 .. Len(h2), i + Limit <= Len(h2)
                 PROVE  h2[i + Limit] - h2[i] >= Window
      BY DEF Spread
    <3>1. CASE i + Limit = Len(h) + 1
      <4>1. i \in 1 .. Len(h) - Len(f) /\ i \in 1 .. Len(h)
        BY <1>1, <1>3, <1>5, <2>3, <3>1
      <4>2. now - h[i] >= Window
        BY <1>2, <4>1 DEF Remembers
      <4> QED BY <2>2, <3>1, <4>1, <4>2
    <3>2. CASE i + Limit # Len(h) + 1
      <4>1. i \in 1 .. Len(h) /\ i + Limit \in 1 .. Len(h) /\ i + Limit <= Len(h)
        <5>1. i \in Nat /\ i >= 1 /\ i + Limit <= Len(h) + 1
          BY <2>2
        <5>2. Limit \in Nat /\ Limit >= 1 /\ Len(h) \in Nat
          BY <1>1, <2>3
        <5> QED BY <3>2, <5>1, <5>2
      <4> QED BY <1>1, <2>2, <4>1 DEF Spread
    <3> QED BY <3>1, <3>2
  <2>7. Len(r2) <= Limit
    BY <1>1, <1>3, <1>5, <2>1, <2>3
  <2> QED BY <1>5, <2>1, <2>2, <2>4, <2>5, <2>6, <2>7 DEF f, h, r2, h2
<1> QED BY <1>4, <1>5

LEMMA HandleRequestKeepsIInv ==
    ASSUME IInv, NEW s \in Source, HandleRequest(s), reading' \in [Source -> Nat]
    PROVE  IInv'
<1> DEFINE f == Fresh(requests[s])
           r2 == IF Allows(s) THEN Append(f, now) ELSE f
           h2 == IF Allows(s) THEN Append(admitted[s], now) ELSE admitted[s]
<1>1. /\ r2 \in Seq(1 .. now) /\ h2 \in Seq(1 .. now)
      /\ Len(r2) <= Limit
      /\ InTimeOrder(h2) /\ Remembers(r2, h2, now) /\ Spread(h2)
  BY AllowKeepsWindow
<1>2. /\ requests' = [requests EXCEPT ![s] = r2]
      /\ admitted' = [admitted EXCEPT ![s] = h2]
      /\ UNCHANGED <<now, nextAllowedAt, paid>>
  BY DEF HandleRequest, Allow
<1> HIDE DEF r2, h2
<1>3. TypeOK
  BY DEF IInv
<1>4. /\ requests' \in [Source -> Seq(1 .. now)]
      /\ admitted' \in [Source -> Seq(1 .. now)]
  BY <1>1, <1>2, <1>3 DEF TypeOK
<1>5. \A q \in Source : Len(requests'[q]) <= Limit
  BY <1>1, <1>2, <1>3 DEF TypeOK
<1>6. TypeOK'
  BY <1>2, <1>3, <1>4, <1>5 DEF TypeOK
<1>7. ASSUME NEW q \in Source PROVE SlidingWindow(q)' /\ Cooling(q)'
  <2>1. SlidingWindow(q) /\ Cooling(q)
    BY DEF IInv
  <2>2. Cooling(q)'
    BY <1>2, <2>1 DEF Cooling
  <2>3. CASE q = s
    <3>1. requests'[q] = r2 /\ admitted'[q] = h2
      BY <1>2, <1>3, <2>3 DEF TypeOK
    <3> QED BY <1>1, <1>2, <2>2, <3>1 DEF SlidingWindow
  <2>4. CASE q # s
    <3>1. requests'[q] = requests[q] /\ admitted'[q] = admitted[q]
      BY <1>2, <1>3, <2>4 DEF TypeOK
    <3> QED BY <1>2, <2>1, <2>2, <3>1 DEF SlidingWindow
  <2> QED BY <2>3, <2>4
<1> QED BY <1>6, <1>7 DEF IInv

(* The cooldown starts again at each payment, whatever was being read.     *)
LEMMA FaucetKeepsIInv ==
    ASSUME IInv, NEW s \in Source, Faucet(s)
    PROVE  IInv'
<1>1. /\ TypeOK /\ now \in Nat /\ now >= 1 /\ Cooldown \in Nat
      /\ UNCHANGED <<now, requests, admitted>>
  BY LimitersAssumption DEF IInv, TypeOK, Faucet
<1>2. reading' \in [Source -> Nat]
  BY <1>1 DEF Faucet, TypeOK
<1>3. \A q \in Source : SlidingWindow(q)'
  BY <1>1 DEF IInv, SlidingWindow
<1>4. CASE ~CooldownAllows(s)
  <2>1. UNCHANGED <<nextAllowedAt, paid>>
    BY <1>4 DEF Faucet
  <2> QED BY <1>1, <1>2, <1>3, <2>1 DEF IInv, TypeOK, Cooling
<1>5. CASE CooldownAllows(s)
  <2> DEFINE p == paid[s]
             p2 == Append(p, now)
  <2>1. /\ nextAllowedAt' = [nextAllowedAt EXCEPT ![s] = now + Cooldown]
        /\ paid' = [paid EXCEPT ![s] = p2]
        /\ now >= nextAllowedAt[s]
    BY <1>5 DEF Faucet, CooldownAllows
  <2>2. p \in Seq(1 .. now) /\ Cooling(s) /\ nextAllowedAt[s] \in Nat
    BY <1>1 DEF IInv, TypeOK
  <2>3. /\ p2 \in Seq(1 .. now) /\ Len(p2) = Len(p) + 1 /\ p2[Len(p) + 1] = now
        /\ \A k \in 1 .. Len(p) : p2[k] = p[k] /\ p[k] \in Nat
        /\ Len(p) \in Nat
    BY <1>1, <2>2
  <2>4. p # <<>> => nextAllowedAt[s] = p[Len(p)] + Cooldown /\ Len(p) \in 1 .. Len(p)
    BY <2>2 DEF Cooling, PaidLast
  <2>5. \A i \in 2 .. Len(p) : p[i] - p[i - 1] >= Cooldown
    BY <2>2 DEF Cooling, Apart
  <2> HIDE DEF p, p2
  <2>6. Apart(p2)
    <3> SUFFICES ASSUME NEW i \in 2 .. Len(p2) PROVE p2[i] - p2[i - 1] >= Cooldown
      BY DEF Apart
    <3>1. CASE i = Len(p) + 1
      <4>1. p # <<>> /\ i - 1 = Len(p) /\ p2[i - 1] = p[Len(p)] /\ p2[i] = now
        BY <2>3, <3>1
      <4> QED BY <1>1, <2>1, <2>3, <2>4, <4>1
    <3>2. CASE i # Len(p) + 1
      <4>1. i \in 2 .. Len(p) /\ i \in 1 .. Len(p) /\ i - 1 \in 1 .. Len(p)
        BY <2>3, <3>2
      <4> QED BY <2>3, <2>5, <4>1
    <3> QED BY <3>1, <3>2
  <2>7. PaidLast(p2, now + Cooldown)
    BY <2>3 DEF PaidLast
  <2>8. TypeOK'
    <3>1. nextAllowedAt' \in [Source -> Nat] /\ paid' \in [Source -> Seq(1 .. now)]
      BY <1>1, <2>1, <2>3 DEF TypeOK
    <3> QED BY <1>1, <1>2, <3>1 DEF TypeOK
  <2>9. ASSUME NEW q \in Source PROVE Cooling(q)'
    <3>1. CASE q = s
      <4>1. paid'[q] = p2 /\ nextAllowedAt'[q] = now + Cooldown
        BY <1>1, <2>1, <3>1 DEF TypeOK
      <4> QED BY <2>6, <2>7, <4>1 DEF Cooling
    <3>2. CASE q # s
      <4>1. paid'[q] = paid[q] /\ nextAllowedAt'[q] = nextAllowedAt[q]
        BY <1>1, <2>1, <3>2 DEF TypeOK
      <4> QED BY <4>1 DEF IInv, Cooling
    <3> QED BY <3>1, <3>2
  <2> QED BY <1>3, <2>8, <2>9 DEF IInv
<1> QED BY <1>4, <1>5

LEMMA StepKeepsIInv == IInv /\ [Next]_vars => IInv'
<1> SUFFICES ASSUME IInv, [Next]_vars PROVE IInv'
  OBVIOUS
<1>1. CASE Tick
  BY <1>1, TickKeepsIInv
<1>2. ASSUME NEW s \in Source, Request(s) PROVE IInv'
  BY <1>2, HandleRequestKeepsIInv DEF Request, IInv, TypeOK
<1>3. ASSUME NEW s \in Source, RequestFaucet(s) PROVE IInv'
  <2>1. HandleRequest(s) /\ reading' \in [Source -> Nat]
    BY <1>3 DEF RequestFaucet, IInv, TypeOK
  <2> QED BY <2>1, HandleRequestKeepsIInv
<1>4. ASSUME NEW s \in Source, Faucet(s) PROVE IInv'
  BY <1>4, FaucetKeepsIInv
<1>5. CASE UNCHANGED vars
  BY <1>5 DEF vars, IInv, TypeOK, SlidingWindow, Cooling
<1> QED BY <1>1, <1>2, <1>3, <1>4, <1>5 DEF Next

LEMMA Invariance == Spec => []IInv
BY InitIInv, StepKeepsIInv, PTL DEF Spec

-----------------------------------------------------------------------------
(* No more than `limit` timestamps of a source are ever kept (rate_limiter *)
(* allow), whatever the rate of its requests.                              *)
THEOREM TypeCorrect == Spec => []TypeOK
<1>1. IInv => TypeOK
  BY DEF IInv
<1> QED BY <1>1, Invariance, PTL

(* SlidingWindowRateLimiter.allow: no window of windowMs holds more than   *)
(* `limit` admissions of a source, though only the fresh ones are kept.    *)
THEOREM WindowKept == Spec => []WindowRespected
<1>1. IInv => WindowRespected
  <2> SUFFICES ASSUME IInv, NEW s \in Source, NEW i \in DOMAIN admitted[s],
                      i + Limit \in DOMAIN admitted[s]
               PROVE  admitted[s][i + Limit] - admitted[s][i] >= Window
    BY DEF WindowRespected
  <2>1. admitted[s] \in Seq(1 .. now) /\ Spread(admitted[s])
    BY DEF IInv, TypeOK, SlidingWindow
  <2>2. DOMAIN admitted[s] = 1 .. Len(admitted[s])
    BY <2>1
  <2> QED BY <2>1, <2>2, LimitersAssumption DEF Spread
<1> QED BY <1>1, Invariance, PTL

(* SlidingWindowRateLimiter.allow: a source is refused only while `limit`  *)
(* of its admissions, and not its refusals, are within the window.         *)
THEOREM RefusedForAdmissions == Spec => []RefusedOnlyWhenFull
<1>1. IInv => RefusedOnlyWhenFull
  <2> SUFFICES ASSUME IInv, NEW s \in Source, ~Allows(s)
               PROVE  /\ Len(admitted[s]) >= Limit
                      /\ now - admitted[s][Len(admitted[s]) - Limit + 1] < Window
    BY DEF RefusedOnlyWhenFull
  <2> DEFINE f == Fresh(requests[s])
             h == admitted[s]
             k == Len(f) - Limit + 1
  <2>1. /\ f \in Seq(1 .. now) /\ Len(f) <= Len(h) /\ h \in Seq(1 .. now)
        /\ \A j \in 1 .. Len(f) : now - h[Len(h) - Len(f) + j] < Window
    BY FreshRemembers DEF Remembers, IInv, TypeOK
  <2>2. ~(Len(f) < Limit) /\ Limit \in Nat \ {0}
    BY LimitersAssumption DEF Allows
  <2> HIDE DEF f, h
  <2>3. Len(f) \in Nat /\ Len(h) \in Nat
    BY <2>1
  <2>4. k \in 1 .. Len(f) /\ Len(h) - Len(f) + k = Len(h) - Limit + 1
    BY <2>2, <2>3
  <2>5. now - h[Len(h) - Limit + 1] < Window
    BY <2>1, <2>4
  <2> QED BY <2>1, <2>2, <2>3, <2>5 DEF h
<1> QED BY <1>1, Invariance, PTL

(* CooldownLimiter and POST /faucet: a source is paid at most once in      *)
(* cooldownMs, though any number of its requests may be read at once.      *)
THEOREM CooldownKept == Spec => []CooldownRespected
<1>1. IInv => CooldownRespected
  BY DEF IInv, Cooling, Apart, CooldownRespected
<1> QED BY <1>1, Invariance, PTL
=============================================================================
