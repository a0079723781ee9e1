------------------------- MODULE ForeignAgentProofs -------------------------
(***************************************************************************)
(* The foreign agent's invariants, for every set of addresses, packets,    *)
(* lifetimes, timeouts and limits.                                         *)
(***************************************************************************)
EXTENDS ForeignAgent, CommonProofs

\* A leaf goes to the SMT solver, with a minute, unless it names a prover; then
\* to Zenon, and to the SMT solver once more.
USE SMTT(60), ZenonT(30), SMTT(90)

(***************************************************************************)
(* The pending list.  run_timer first ages the lifetimes, and between the  *)
(* two loops the clocks of a request differ by one.                        *)
(***************************************************************************)
HalfAged(r) ==
  CountsDown(r) => r.remainingLifetime + r.waitingTime + 1 = r.requestedLifetime

LEMMA DecreaseRequests ==
  ASSUME NEW v \in Seq(FARequestItem), \A i \in DOMAIN v : ClocksAgree(v[i])
  PROVE  LET w == decreaseRequests(v)
         IN  /\ w \in Seq(FARequestItem) /\ Len(w) <= Len(v)
             /\ \A i \in DOMAIN w : HalfAged(w[i])
             /\ \A k \in DOMAIN v :
                  (CountsDown(v[k]) => v[k].remainingLifetime # 0) =>
                  \E i \in DOMAIN w : w[i].rr = v[k].rr
<1> DEFINE f(r) == IF CountsDown(r)
                   THEN [r EXCEPT !.remainingLifetime = MinusOne(@)] ELSE r
           a == [i \in DOMAIN v |-> f(v[i])]
           K == {i \in DOMAIN v : CountsDown(v[i]) => v[i].remainingLifetime # 0}
           w == Retain(a, K)
<1>1. ASSUME NEW r \in FARequestItem
      PROVE  /\ f(r) \in FARequestItem /\ f(r).rr = r.rr
             /\ ClocksAgree(r) /\ (CountsDown(r) => r.remainingLifetime # 0) => HalfAged(f(r))
  <2>1. /\ r.remainingLifetime \in UInt /\ r.requestedLifetime \in 0..Infinity
        /\ r.waitingTime \in Nat
    BY DEF FARequestItem
  <2>2. /\ MinusOne(r.remainingLifetime) \in UInt
        /\ r.remainingLifetime # 0 => MinusOne(r.remainingLifetime) + 1 = r.remainingLifetime
    BY <2>1, PacketAssumption DEF MinusOne, UInt
  <2>3. CASE ~CountsDown(r)
    BY <2>3 DEF HalfAged
  <2>4. CASE CountsDown(r)
    <3> DEFINE q == [r EXCEPT !.remainingLifetime = MinusOne(@)]
    <3>1. /\ q \in FARequestItem /\ q.rr = r.rr
          /\ q.remainingLifetime = MinusOne(r.remainingLifetime)
          /\ q.waitingTime = r.waitingTime /\ q.requestedLifetime = r.requestedLifetime
      BY <2>1, <2>2 DEF FARequestItem
    <3>2. ClocksAgree(r) /\ r.remainingLifetime # 0 =>
            MinusOne(r.remainingLifetime) + r.waitingTime + 1 = r.requestedLifetime
      <4>1. ClocksAgree(r) => r.remainingLifetime + r.waitingTime = r.requestedLifetime
        BY <2>4 DEF ClocksAgree
      <4>2. ASSUME NEW n \in Nat, NEW m \in Nat, NEW t \in Nat, m + 1 = n
            PROVE  m + t + 1 = n + t
        BY <4>2
      <4>3. r.remainingLifetime \in Nat /\ MinusOne(r.remainingLifetime) \in Nat
        BY <2>1, <2>2, PacketAssumption DEF UInt
      <4> QED
        BY <2>1, <2>2, <4>1, <4>2, <4>3, Zenon
    <3>3. f(r) = q
      BY <2>4
    <3> HIDE DEF q, f
    <3> QED
      BY <2>4, <3>1, <3>2, <3>3 DEF HalfAged
  <2> QED
    BY <2>3, <2>4
<1>2. \A i \in DOMAIN v : v[i] \in FARequestItem
  OBVIOUS
<1> HIDE DEF f
<1>3. /\ a \in Seq(FARequestItem) /\ DOMAIN a = DOMAIN v
      /\ \A i \in DOMAIN v : a[i] = f(v[i])
  BY <1>1, <1>2
<1>4. decreaseRequests(v) = w
  BY DEF decreaseRequests, f
<1>5. K \in SUBSET (DOMAIN a) /\ Len(a) = Len(v)
  BY <1>3
<1> HIDE DEF a, K
<1>6. /\ w \in Seq(FARequestItem) /\ Len(w) <= Len(a)
      /\ \A i \in DOMAIN w : \E k \in K : w[i] = a[k]
      /\ \A k \in K : \E i \in DOMAIN w : w[i] = a[k]
  <2>1. w \in Seq(FARequestItem) /\ Len(w) <= Len(a) /\ IsThinned(w, a, K)
    BY <1>3, <1>5, RetainProperties
  <2> HIDE DEF w
  <2> QED
    BY <2>1, ThinnedElements
<1> HIDE DEF w
<1> USE DEF K
<1>7. \A i \in DOMAIN w : HalfAged(w[i])
  BY <1>1, <1>2, <1>3, <1>6
<1>8. \A k \in K : \E i \in DOMAIN w : w[i].rr = v[k].rr
  BY <1>1, <1>2, <1>3, <1>6
<1> QED
  BY <1>4, <1>5, <1>6, <1>7, <1>8

LEMMA WaitedRequests ==
  ASSUME NEW v \in Seq(FARequestItem)
  PROVE  /\ Waited(v) \in Seq(FARequestItem) /\ DOMAIN Waited(v) = DOMAIN v
         /\ Len(Waited(v)) = Len(v)
         /\ \A i \in DOMAIN v :
              /\ Waited(v)[i].rr = v[i].rr
              /\ Waited(v)[i].waitingTime = v[i].waitingTime + 1
              /\ Waited(v)[i].remainingLifetime = v[i].remainingLifetime
              /\ Waited(v)[i].requestedLifetime = v[i].requestedLifetime
<1> DEFINE g(r) == [r EXCEPT !.waitingTime = @ + 1]
<1>1. ASSUME NEW r \in FARequestItem
      PROVE  /\ g(r) \in FARequestItem /\ g(r).rr = r.rr
             /\ g(r).waitingTime = r.waitingTime + 1
             /\ g(r).remainingLifetime = r.remainingLifetime
             /\ g(r).requestedLifetime = r.requestedLifetime
  BY DEF FARequestItem
<1>2. \A i \in DOMAIN v : v[i] \in FARequestItem
  OBVIOUS
<1>3. Waited(v) = [i \in DOMAIN v |-> g(v[i])]
  BY DEF Waited
<1> HIDE DEF g
<1> QED
  BY <1>1, <1>2, <1>3

LEMMA StillWaiting ==
  ASSUME NEW v \in Seq(FARequestItem), \A i \in DOMAIN v : HalfAged(v[i]),
         NEW t \in FATimeouts
  PROVE  LET w == stillWaiting(v, t)
         IN  /\ w \in Seq(FARequestItem) /\ Len(w) <= Len(v)
             /\ \A i \in DOMAIN w : ClocksAgree(w[i])
<1> DEFINE a == Waited(v)
           K == {i \in DOMAIN v : v[i].waitingTime + 1 <= t}
           w == Retain(a, K)
<1>1. ASSUME NEW k \in K PROVE ClocksAgree(a[k])
  <2>1. v[k] \in FARequestItem
    OBVIOUS
  <2>2. /\ v[k].remainingLifetime \in Nat /\ v[k].waitingTime \in Nat
        /\ v[k].requestedLifetime \in Nat
    BY <2>1, PacketAssumption DEF FARequestItem, UInt
  <2>3. /\ a[k].waitingTime = v[k].waitingTime + 1
        /\ a[k].remainingLifetime = v[k].remainingLifetime
        /\ a[k].requestedLifetime = v[k].requestedLifetime
    BY WaitedRequests
  <2>4. HalfAged(v[k]) /\ v[k].waitingTime + 1 <= t
    OBVIOUS
  <2>5. CountsDown(a[k]) <=> CountsDown(v[k])
    BY <2>3 DEF CountsDown
  <2> HIDE DEF a, K
  <2>6. CountsDown(a[k]) => a[k].remainingLifetime + a[k].waitingTime = a[k].requestedLifetime
    <3>1. CountsDown(v[k]) => v[k].remainingLifetime + (v[k].waitingTime + 1) = v[k].requestedLifetime
      BY <2>2, <2>4 DEF HalfAged
    <3> QED
      BY <2>3, <2>5, <3>1
  <2>7. a[k].waitingTime <= t
    BY <2>3, <2>4
  <2> QED
    BY <2>6, <2>7 DEF ClocksAgree
<1>2. /\ a \in Seq(FARequestItem) /\ K \in SUBSET (DOMAIN a) /\ Len(a) = Len(v)
  BY WaitedRequests
<1> HIDE DEF a, K
<1>3. /\ w \in Seq(FARequestItem) /\ Len(w) <= Len(a)
      /\ \A i \in DOMAIN w : \E k \in K : w[i] = a[k]
  BY <1>2, RetainElements
<1>4. stillWaiting(v, t) = w
  BY DEF stillWaiting, a, K
<1> QED
  BY <1>1, <1>2, <1>3, <1>4

(***************************************************************************)
(* No request gets lost between what is kept and what is returned as late. *)
(***************************************************************************)
LEMMA TimeoutsPartition ==
  ASSUME NEW v \in Seq(FARequestItem), NEW t \in Nat, NEW k \in DOMAIN v
  PROVE  /\ timedOut(v, t) \in Seq(FARequestItem)
         /\ \/ \E i \in DOMAIN stillWaiting(v, t) : stillWaiting(v, t)[i].rr = v[k].rr
            \/ \E i \in DOMAIN timedOut(v, t) : timedOut(v, t)[i].rr = v[k].rr
<1> DEFINE a == Waited(v)
           K == {i \in DOMAIN v : v[i].waitingTime + 1 <= t}
           L == {i \in DOMAIN v : v[i].waitingTime + 1 > t}
<1>1. /\ a \in Seq(FARequestItem)
      /\ K \in SUBSET (DOMAIN a) /\ L \in SUBSET (DOMAIN a)
      /\ a[k].rr = v[k].rr
  BY WaitedRequests
<1>2. v[k].waitingTime \in Nat
  <2>1. v[k] \in FARequestItem
    OBVIOUS
  <2> QED
    BY <2>1 DEF FARequestItem
<1>3. k \in K \/ k \in L
  BY <1>2
<1>4. stillWaiting(v, t) = Retain(a, K) /\ timedOut(v, t) = Retain(a, L)
  BY DEF stillWaiting, timedOut
<1> HIDE DEF a, K, L
<1>5. /\ Retain(a, K) \in Seq(FARequestItem) /\ IsThinned(Retain(a, K), a, K)
      /\ Retain(a, L) \in Seq(FARequestItem) /\ IsThinned(Retain(a, L), a, L)
  BY <1>1, RetainProperties
<1>6. /\ \A j \in K : \E i \in DOMAIN Retain(a, K) : Retain(a, K)[i] = a[j]
      /\ \A j \in L : \E i \in DOMAIN Retain(a, L) : Retain(a, L)[i] = a[j]
  BY <1>5, ThinnedElements
<1> QED
  BY <1>1, <1>3, <1>4, <1>5, <1>6

----------------------------------------------------------------------------
(***************************************************************************)
(* What relayReply makes of the visitor list.                              *)
(***************************************************************************)
LEMMA Accepted ==
  ASSUME NEW v \in Seq(VisitorListItem), NEW reply \in ReplyPacket,
         NEW request \in FARequestItem, faMaxLifetime \in UInt
  PROVE  LET w == faAccepted(v, reply, request)
         IN  /\ w \in Seq(VisitorListItem)
             /\ NoDuplicateVisits(v) => NoDuplicateVisits(w)
             /\ AllPresent(v) /\ reply.lifetime # 0 /\ faMaxLifetime # 0 => AllPresent(w)
<1> DEFINE h == reply.home
           g == reply.homeAgent
           l == Minimum(reply.lifetime, faMaxLifetime)
           x == [MNhome |-> h, MNhomeAgent |-> g, UDPSourcePort |-> request.rr.sport,
                 requestedLifetime |-> l, remainingLifetime |-> l]
           w == faAccepted(v, reply, request)
<1>1. h \in Addr /\ g \in Addr /\ reply.lifetime \in 0..Infinity
  BY DEF ReplyPacket
<1>2. request.rr \in RequestPacket
  BY DEF FARequestItem
<1>3. request.rr.sport \in Nat
  BY <1>2 DEF RequestPacket
<1>4. /\ l \in UInt
      /\ reply.lifetime # 0 /\ faMaxLifetime # 0 => l \in 1..Infinity
  BY <1>1, PacketAssumption DEF Minimum, UInt
<1>5. /\ x \in VisitorListItem
      /\ x.MNhome = h /\ x.MNhomeAgent = g
      /\ x.requestedLifetime = l /\ x.remainingLifetime = l
  BY <1>1, <1>3, <1>4 DEF VisitorListItem
<1>6. reply.lifetime # 0 /\ faMaxLifetime # 0 => Present(x)
  BY <1>4, <1>5, PacketAssumption DEF Present
<1>7. CASE hasVisitor(v, h, g) /\ reply.lifetime = 0
  <2>1. w = removeVisitor(v, h, g)
    BY <1>7 DEF faAccepted
  <2> QED
    BY <1>7, <2>1, RemoveVisitor
<1>8. CASE hasVisitor(v, h, g) /\ reply.lifetime # 0
  <2> DEFINE a == setVisitorRequestedLifetime(v, h, g, l)
  <2>1. w = resetVisitorRemainingLifetime(a, h, g)
    BY <1>8 DEF faAccepted
  <2> HIDE DEF w, l, h, g
  <2>2. /\ a \in Seq(VisitorListItem) /\ DOMAIN a = DOMAIN v
        /\ \A i \in DOMAIN v :
             /\ a[i].MNhome = v[i].MNhome /\ a[i].MNhomeAgent = v[i].MNhomeAgent
             /\ a[i].requestedLifetime = IF i \in VisitsOf(v, h, g)
                                         THEN l ELSE v[i].requestedLifetime
             /\ a[i].remainingLifetime = v[i].remainingLifetime
    BY <1>4, SetLifetime
  <2> HIDE DEF a
  <2>3. VisitsOf(a, h, g) = VisitsOf(v, h, g)
    BY <2>2 DEF VisitsOf
  <2>4. /\ w \in Seq(VisitorListItem) /\ DOMAIN w = DOMAIN a
        /\ \A i \in DOMAIN a :
             /\ w[i].MNhome = a[i].MNhome /\ w[i].MNhomeAgent = a[i].MNhomeAgent
             /\ w[i].requestedLifetime = a[i].requestedLifetime
             /\ w[i].remainingLifetime = IF i \in VisitsOf(a, h, g)
                                         THEN a[i].requestedLifetime
                                         ELSE a[i].remainingLifetime
    BY <2>1, <2>2, ResetLifetime
  <2>5. NoDuplicateVisits(v) => NoDuplicateVisits(w)
    BY <2>2, <2>4 DEF NoDuplicateVisits
  <2>6. ASSUME AllPresent(v), faMaxLifetime # 0, NEW i \in DOMAIN w
        PROVE  Present(w[i])
    <3>1. i \in DOMAIN v /\ i \in DOMAIN a
      BY <2>2, <2>4
    <3>2. CASE i \in VisitsOf(v, h, g)
      <4>1. w[i].requestedLifetime = l /\ w[i].remainingLifetime = l
        BY <2>2, <2>3, <2>4, <3>1, <3>2
      <4> QED
        BY <1>4, <1>8, <2>6, <4>1, PacketAssumption DEF Present
    <3>3. CASE i \notin VisitsOf(v, h, g)
      <4>1. /\ w[i].requestedLifetime = v[i].requestedLifetime
            /\ w[i].remainingLifetime = v[i].remainingLifetime
        BY <2>2, <2>3, <2>4, <3>1, <3>3
      <4> QED
        BY <2>6, <3>1, <4>1 DEF AllPresent, Present
    <3> QED
      BY <3>2, <3>3
  <2> QED
    BY <2>4, <2>5, <2>6 DEF AllPresent, w
<1>9. CASE ~hasVisitor(v, h, g)
  <2> DEFINE a == Append(v, x)
  <2>1. \A i \in DOMAIN v : ~(v[i].MNhome = h /\ v[i].MNhomeAgent = g)
    BY <1>9 DEF hasVisitor, VisitsOf
  <2>2. w = IF reply.lifetime # 0 THEN resetVisitorRemainingLifetime(a, h, g) ELSE a
    BY <1>9 DEF faAccepted
  <2> HIDE DEF w, x, h, g, l
  <2>3. /\ a \in Seq(VisitorListItem)
        /\ DOMAIN a = 1..(Len(v)+1) /\ DOMAIN v = 1..Len(v) /\ Len(v) \in Nat
        /\ \A i \in DOMAIN v : a[i] = v[i]
        /\ a[Len(v)+1] = x
    BY <1>5
  <2> HIDE DEF a
  <2>4. NoDuplicateVisits(v) => NoDuplicateVisits(a)
    BY <1>5, <2>1, <2>3 DEF NoDuplicateVisits
  <2>5. CASE reply.lifetime = 0
    BY <2>2, <2>3, <2>4, <2>5 DEF w
  <2>6. CASE reply.lifetime # 0
    <3>1. /\ w \in Seq(VisitorListItem) /\ DOMAIN w = DOMAIN a
          /\ \A i \in DOMAIN a :
               /\ w[i].MNhome = a[i].MNhome /\ w[i].MNhomeAgent = a[i].MNhomeAgent
               /\ w[i].requestedLifetime = a[i].requestedLifetime
               /\ w[i].remainingLifetime = IF i \in VisitsOf(a, h, g)
                                           THEN a[i].requestedLifetime
                                           ELSE a[i].remainingLifetime
      BY <2>2, <2>3, <2>6, ResetLifetime
    <3>2. NoDuplicateVisits(v) => NoDuplicateVisits(w)
      BY <2>4, <3>1 DEF NoDuplicateVisits
    <3>3. ASSUME AllPresent(v), faMaxLifetime # 0, NEW i \in DOMAIN w
          PROVE  Present(w[i])
      <4>1. CASE i \in DOMAIN v
        <5>1. i \notin VisitsOf(a, h, g)
          BY <2>1, <2>3, <4>1 DEF VisitsOf
        <5>2. /\ w[i].requestedLifetime = v[i].requestedLifetime
              /\ w[i].remainingLifetime = v[i].remainingLifetime
          BY <2>3, <3>1, <4>1, <5>1
        <5> QED
          BY <3>3, <4>1, <5>2 DEF AllPresent, Present
      <4>2. CASE i = Len(v) + 1
        <5>1. w[i].requestedLifetime = l /\ w[i].remainingLifetime = l
          BY <1>5, <2>3, <3>1, <4>2
        <5> QED
          BY <1>4, <2>6, <3>3, <5>1, PacketAssumption DEF Present
      <4> QED
        BY <2>3, <3>1, <4>1, <4>2
    <3> QED
      BY <3>1, <3>2, <3>3 DEF AllPresent, w
  <2> QED
    BY <2>5, <2>6
<1> QED
  BY <1>7, <1>8, <1>9

\* A visit granted is there for all of the lifetime granted.
LEMMA AcceptedLasts ==
  ASSUME NEW v \in Seq(VisitorListItem), NEW reply \in ReplyPacket, reply.lifetime # 0,
         NEW request \in FARequestItem, faMaxLifetime \in UInt
  PROVE  VisitLasts(faAccepted(v, reply, request), reply.home, reply.homeAgent,
                    Minimum(reply.lifetime, faMaxLifetime))
<1> DEFINE h == reply.home
           g == reply.homeAgent
           l == Minimum(reply.lifetime, faMaxLifetime)
           x == [MNhome |-> h, MNhomeAgent |-> g, UDPSourcePort |-> request.rr.sport,
                 requestedLifetime |-> l, remainingLifetime |-> l]
<1>1. h \in Addr /\ g \in Addr /\ reply.lifetime \in 0..Infinity
  BY DEF ReplyPacket
<1>2. request.rr \in RequestPacket
  BY DEF FARequestItem
<1>3. request.rr.sport \in Nat
  BY <1>2 DEF RequestPacket
<1>4. l \in UInt
  BY <1>1, PacketAssumption DEF Minimum, UInt
<1>5. x \in VisitorListItem /\ x.MNhome = h /\ x.MNhomeAgent = g /\ x.requestedLifetime = l
  BY <1>1, <1>3, <1>4 DEF VisitorListItem
<1>6. faAccepted(v, reply, request) =
        resetVisitorRemainingLifetime(
          IF hasVisitor(v, h, g) THEN setVisitorRequestedLifetime(v, h, g, l)
                                 ELSE Append(v, x), h, g)
  BY DEF faAccepted
<1> HIDE DEF h, g, l, x
<1> QED
  BY <1>4, <1>5, <1>6, RenewedLasts, Zenon DEF h, g, l

(***************************************************************************)
(* Every packet the agent builds is well formed.                           *)
(***************************************************************************)
LEMMA FAAnswerType ==
  ASSUME NEW rr \in RequestPacket, NEW code \in Nat, NEW l \in Nat
  PROVE  faAnswer(rr, code, l) \in ReplyPacket
<1>1. /\ rr.src \in Addr /\ rr.dst \in Addr /\ rr.sport \in Nat
      /\ rr.home \in Addr /\ rr.homeAgent \in Addr /\ rr.identification \in Id
  BY DEF RequestPacket
<1> DEFINE s == IF rr.src = BroadcastAddr THEN FAPrivate ELSE rr.dst
           d == IF rr.home = AnyAddr THEN BroadcastAddr ELSE rr.src
<1>2. s \in Addr /\ d \in Addr /\ "foreign" \in Link /\ RegistrationPort \in Nat
  BY <1>1, FAAssumption, PacketAssumption DEF Link, RegistrationPort
<1>3. faAnswer(rr, code, l) =
        buildRegistrationReply(UDPIP("foreign", s, RegistrationPort, d, rr.sport),
                               l, code, rr.home, rr.homeAgent, rr.identification)
  BY DEF faAnswer
<1> HIDE DEF s, d
<1>4. buildRegistrationReply(UDPIP("foreign", s, RegistrationPort, d, rr.sport),
                             l, code, rr.home, rr.homeAgent, rr.identification)
        \in ReplyPacket
  BY <1>1, <1>2, ReplyType, Zenon
<1> QED
  BY <1>3, <1>4, Zenon

LEMMA FAPassOnType ==
  ASSUME NEW reply \in ReplyPacket, NEW port \in Nat
  PROVE  faPassOn(reply, port) \in ReplyPacket
<1>1. /\ reply.home \in Addr /\ reply.homeAgent \in Addr /\ reply.identification \in Id
      /\ reply.code \in Nat /\ reply.lifetime \in Nat
  BY PacketAssumption DEF ReplyPacket
<1> DEFINE d == IF reply.home = AnyAddr THEN BroadcastAddr ELSE reply.home
<1>2. /\ d \in Addr /\ FAPrivate \in Addr /\ "foreign" \in Link
      /\ RegistrationPort \in Nat
  BY <1>1, FAAssumption, PacketAssumption DEF Link, RegistrationPort
<1>3. faPassOn(reply, port) =
        buildRegistrationReply(UDPIP("foreign", FAPrivate, RegistrationPort, d, port),
          reply.lifetime, reply.code, reply.home, reply.homeAgent, reply.identification)
  BY DEF faPassOn
<1> HIDE DEF d
<1>4. buildRegistrationReply(UDPIP("foreign", FAPrivate, RegistrationPort, d, port),
        reply.lifetime, reply.code, reply.home, reply.homeAgent, reply.identification)
        \in ReplyPacket
  BY <1>1, <1>2, ReplyType, Zenon
<1> QED
  BY <1>3, <1>4, Zenon

LEMMA FAForwardType ==
  ASSUME NEW rr \in RequestPacket, NEW reading \in Id
  PROVE  faForward(rr, reading) \in RequestPacket
<1>1. /\ rr.home \in Addr /\ rr.homeAgent \in Addr /\ rr.identification \in Id
      /\ rr.lifetime \in Nat
  BY PacketAssumption DEF RequestPacket
<1>2. /\ FAPublic \in Addr /\ "public" \in Link
      /\ AgentPort \in Nat /\ RegistrationPort \in Nat
  BY FAAssumption DEF Link, RegistrationPort, AgentPort
<1> QED
  BY <1>1, <1>2, RequestType, Zenon DEF faForward

(***************************************************************************)
(* The request an answer takes off the list, and the list without it.      *)
(***************************************************************************)
LEMMA RemoveRequest ==
  ASSUME NEW v \in Seq(FARequestItem), NEW id, RequestsOf(v, id) # {}
  PROVE  /\ foundRequest(v, id) \in FARequestItem
         /\ removeRequest(v, id) \in Seq(FARequestItem)
         /\ Len(removeRequest(v, id)) <= Len(v)
         /\ (\A i \in DOMAIN v : ClocksAgree(v[i])) =>
              \A i \in DOMAIN removeRequest(v, id) : ClocksAgree(removeRequest(v, id)[i])
<1> DEFINE k == FirstOf(RequestsOf(v, id))
           K == DOMAIN v \ {k}
           w == Retain(v, K)
<1>1. RequestsOf(v, id) \in SUBSET Nat /\ RequestsOf(v, id) \in SUBSET (DOMAIN v)
  BY DEF RequestsOf
<1>2. k \in DOMAIN v
  BY <1>1, FirstOfMember
<1>3. foundRequest(v, id) = v[k] /\ removeRequest(v, id) = w
  BY DEF foundRequest, removeRequest, EraseAt
<1>4. K \in SUBSET (DOMAIN v)
  OBVIOUS
<1> HIDE DEF k, K
<1>5. /\ w \in Seq(FARequestItem) /\ Len(w) <= Len(v)
      /\ \A i \in DOMAIN w : \E j \in K : w[i] = v[j]
  BY <1>4, RetainElements
<1> HIDE DEF w
<1>6. (\A i \in DOMAIN v : ClocksAgree(v[i])) => \A i \in DOMAIN w : ClocksAgree(w[i])
  BY <1>4, <1>5
<1> QED
  BY <1>2, <1>3, <1>5, <1>6

----------------------------------------------------------------------------
(***************************************************************************)
(* The inductive invariant.  If max_lifetime is never set to 0 and home    *)
(* agents never accept for 0 seconds (the answers of the environment here, *)
(* those in flight in a larger system), visits stay alive.                 *)
(***************************************************************************)
NoZeroGrants ==
  /\ 0 \notin FALifetimes
  /\ \A p \in FAReplies : p.code \in {0, 1} => p.lifetime # 0

ZeroGrant(p) == faGetsReply(p) /\ p.code \in {0, 1} /\ p.lifetime = 0

FAInv ==
  /\ FATypeOK
  /\ UniqueVisitors
  /\ PendingClocksAgree
  /\ PendingBounded
  /\ NoZeroGrants => VisitorsAlive /\ ~\E p \in net : ZeroGrant(p)

\* The same by variable, as the actions change them.
NetOK(n) ==
  /\ n \subseteq (RequestPacket \cup ReplyPacket)
  /\ NoZeroGrants => ~\E p \in n : ZeroGrant(p)

PendingOK(v) ==
  /\ v \in Seq(FARequestItem)
  /\ \A i \in DOMAIN v : ClocksAgree(v[i])
  /\ \E n \in FAPendings : Len(v) <= n

VisitorsOK(v) ==
  /\ v \in Seq(VisitorListItem)
  /\ NoDuplicateVisits(v)
  /\ NoZeroGrants => AllPresent(v)

LimitsOK(l, t, n) == l \in FALifetimes /\ t \in FATimeouts /\ n \in FAPendings

LEMMA FAInvByVariable ==
  FAInv <=> /\ NetOK(net) /\ PendingOK(faRequests) /\ VisitorsOK(visitors)
            /\ LimitsOK(faMaxLifetime, requestTimeout, maxPending)
BY DEF FAInv, FATypeOK, UniqueVisitors, PendingClocksAgree, PendingBounded, VisitorsAlive,
       NetOK, PendingOK, VisitorsOK, LimitsOK

LEMMA AnswersAreOK ==
  ASSUME NEW rr \in RequestPacket, NEW code \in Nat, NEW l \in Nat
  PROVE  NetOK({faAnswer(rr, code, l)})
<1>1. faAnswer(rr, code, l) \in ReplyPacket
  BY FAAnswerType
<1>2. faAnswer(rr, code, l).link = "foreign"
  BY DEF faAnswer, buildRegistrationReply, UDPIP
<1> QED
  BY <1>1, <1>2 DEF NetOK, ZeroGrant, faGetsReply

LEMMA FAInitInv == FAInit /\ net = {} => FAInv
<1> SUFFICES ASSUME FAInit, net = {} PROVE FAInv
  OBVIOUS
<1>1. NetOK(net)
  BY DEF NetOK
<1>2. PendingOK(faRequests)
  <2>1. FADefaultPending \in FAPendings /\ FADefaultPending \in Nat
    BY FAAssumption
  <2>2. faRequests = <<>>
    BY DEF FAInit
  <2> QED
    BY <2>1, <2>2 DEF PendingOK
<1>3. VisitorsOK(visitors)
  BY DEF FAInit, VisitorsOK, NoDuplicateVisits, AllPresent
<1>4. LimitsOK(faMaxLifetime, requestTimeout, maxPending)
  BY FAAssumption DEF FAInit, LimitsOK
<1> QED
  BY <1>1, <1>2, <1>3, <1>4, FAInvByVariable

LEMMA FAPushInv ==
  ASSUME FAInv, NEW p \in net, FAPush(p)
  PROVE  FAInv'
<1>0. /\ NetOK(net) /\ PendingOK(faRequests) /\ VisitorsOK(visitors)
      /\ LimitsOK(faMaxLifetime, requestTimeout, maxPending)
  BY FAInvByVariable
<1>q. ASSUME NetOK(net'), PendingOK(faRequests'), VisitorsOK(visitors'), UNCHANGED faLimits
      PROVE  FAInv'
  BY <1>0, <1>q DEF faLimits, FAInv, FATypeOK, UniqueVisitors, PendingClocksAgree, PendingBounded,
       VisitorsAlive, NetOK, PendingOK, VisitorsOK, LimitsOK
<1>n. ASSUME NEW out, NetOK(out), faConsume(p, out) PROVE NetOK(net')
  BY <1>0, <1>n DEF NetOK, faConsume
<1>e. NetOK({})
  BY DEF NetOK
<1>1. CASE FAIgnore(p)
  <2>1. NetOK(net')
    BY <1>1, <1>e, <1>n DEF FAIgnore
  <2> QED
    BY <1>0, <1>1, <1>q, <2>1 DEF FAIgnore, faLists
<1>2. CASE FARefuse(p)
  <2> DEFINE l == IF faRefusal(p) = 69 THEN faMaxLifetime ELSE p.lifetime
  <2>1. p \in RequestPacket
    BY <1>0, <1>2, RequestIsRequest DEF FARefuse, faValid, faGetsRequest, NetOK
  <2>2. faRefusal(p) \in Nat
    BY DEF faRefusal
  <2>3. p.lifetime \in Nat /\ faMaxLifetime \in Nat
    BY <1>0, <2>1, FAAssumption, PacketAssumption DEF RequestPacket, LimitsOK, UInt
  <2>4. NetOK({faAnswer(p, faRefusal(p), l)})
    BY <2>1, <2>2, <2>3, AnswersAreOK
  <2>5. NetOK(net')
    BY <1>2, <1>n, <2>4 DEF FARefuse
  <2> QED
    BY <1>0, <1>2, <1>q, <2>5 DEF FARefuse, faLists
<1>3. CASE relayRequest(p)
  <2>1. p \in RequestPacket
    BY <1>0, <1>3, RequestIsRequest DEF relayRequest, faValid, faGetsRequest, NetOK
  <2>2. NetOK(net')
    <3>1. PICK reading \in Id : faConsume(p, {faForward(p, reading)})
      BY <1>3, Zenon DEF relayRequest
    <3>2. faForward(p, reading) \in RequestPacket
      BY <2>1, FAForwardType
    <3>3. NetOK({faForward(p, reading)})
      BY <3>2 DEF NetOK, ZeroGrant, faGetsReply, RequestPacket
    <3> QED
      BY <1>n, <3>1, <3>3
  <2>3. PendingOK(faRequests')
    <3> DEFINE e == [identification |-> p.identification, rr |-> p,
                     requestedLifetime |-> p.lifetime, remainingLifetime |-> p.lifetime,
                     waitingTime |-> 0]
               v == faRequests
    <3>1. p.lifetime \in 0..Infinity /\ p.lifetime \in UInt /\ p.identification \in Id
      BY <2>1, PacketAssumption DEF RequestPacket, UInt
    <3>2. e \in FARequestItem
      BY <2>1, <3>1 DEF FARequestItem
    <3>3. ClocksAgree(e)
      <4>1. requestTimeout \in FATimeouts /\ 0 <= requestTimeout
        BY <1>0, FAAssumption DEF LimitsOK
      <4>2. /\ e.remainingLifetime = p.lifetime /\ e.waitingTime = 0
            /\ e.requestedLifetime = p.lifetime /\ p.lifetime + 0 = p.lifetime
        BY <3>1
      <4> HIDE DEF e
      <4> QED
        BY <4>1, <4>2 DEF ClocksAgree
    <3>4. faRequests' = Append(v, e)
      BY <1>3 DEF relayRequest
    <3>5. v \in Seq(FARequestItem) /\ \A i \in DOMAIN v : ClocksAgree(v[i])
      BY <1>0 DEF PendingOK
    <3>6. ~(Len(v) >= maxPending) /\ maxPending \in FAPendings /\ maxPending \in Nat
      BY <1>0, <1>3, FAAssumption DEF relayRequest, faRefusal, LimitsOK
    <3> HIDE DEF e, v
    <3>7. /\ faRequests' \in Seq(FARequestItem) /\ Len(faRequests') = Len(v) + 1
          /\ DOMAIN faRequests' = 1..(Len(v)+1) /\ DOMAIN v = 1..Len(v) /\ Len(v) \in Nat
          /\ \A i \in DOMAIN v : faRequests'[i] = v[i]
          /\ faRequests'[Len(v)+1] = e
      BY <3>2, <3>4, <3>5
    <3>8. \A i \in DOMAIN faRequests' : ClocksAgree(faRequests'[i])
      BY <3>3, <3>5, <3>7
    <3>9. Len(faRequests') <= maxPending
      BY <3>6, <3>7
    <3> QED
      BY <3>6, <3>7, <3>8, <3>9 DEF PendingOK
  <2> QED
    BY <1>0, <1>3, <1>q, <2>2, <2>3 DEF relayRequest
<1>4. ASSUME faAnswers(p), faRequests' = removeRequest(faRequests, p.identification)
      PROVE  /\ PendingOK(faRequests')
             /\ foundRequest(faRequests, p.identification) \in FARequestItem
             /\ p \in ReplyPacket
  <2>1. p \in ReplyPacket
    BY <1>0, <1>4, ReplyIsReply DEF faAnswers, faGetsReply, NetOK
  <2>2. /\ faRequests \in Seq(FARequestItem)
        /\ \A i \in DOMAIN faRequests : ClocksAgree(faRequests[i])
    BY <1>0 DEF PendingOK
  <2>3. PICK n \in FAPendings : Len(faRequests) <= n
    BY <1>0 DEF PendingOK
  <2>4. RequestsOf(faRequests, p.identification) # {}
    BY <1>4 DEF faAnswers
  <2>5. /\ foundRequest(faRequests, p.identification) \in FARequestItem
        /\ faRequests' \in Seq(FARequestItem)
        /\ Len(faRequests') <= Len(faRequests)
        /\ \A i \in DOMAIN faRequests' : ClocksAgree(faRequests'[i])
    BY <1>4, <2>2, <2>4, RemoveRequest
  <2>6. Len(faRequests') <= n
    <3>1. n \in Nat /\ Len(faRequests) \in Nat /\ Len(faRequests') \in Nat
      BY <2>2, <2>5, FAAssumption
    <3> QED
      BY <2>3, <2>5, <3>1
  <2> QED
    BY <2>1, <2>5, <2>6 DEF PendingOK
<1>5. CASE FAMismatch(p)
  <2>1. NetOK(net')
    BY <1>5, <1>e, <1>n DEF FAMismatch
  <2>2. PendingOK(faRequests')
    BY <1>4, <1>5 DEF FAMismatch
  <2> QED
    BY <1>0, <1>5, <1>q, <2>1, <2>2 DEF FAMismatch
<1>6. CASE relayReply(p)
  <2> DEFINE request == foundRequest(faRequests, p.identification)
  <2>1. PendingOK(faRequests') /\ request \in FARequestItem /\ p \in ReplyPacket
    BY <1>4, <1>6 DEF relayReply
  <2> HIDE DEF request
  <2>2. request.rr.sport \in Nat
    <3>1. request.rr \in RequestPacket
      BY <2>1 DEF FARequestItem
    <3> QED
      BY <3>1 DEF RequestPacket
  <2>3. NetOK({faPassOn(p, request.rr.sport)})
    <3>1. faPassOn(p, request.rr.sport) \in ReplyPacket
      BY <2>1, <2>2, FAPassOnType
    <3>2. faPassOn(p, request.rr.sport).link = "foreign"
      BY DEF faPassOn, buildRegistrationReply, UDPIP
    <3> QED
      BY <3>1, <3>2 DEF NetOK, ZeroGrant, faGetsReply
  <2>4. NetOK(net')
    BY <1>6, <1>n, <2>3 DEF relayReply, request
  <2>5. /\ visitors \in Seq(VisitorListItem) /\ NoDuplicateVisits(visitors)
        /\ NoZeroGrants => AllPresent(visitors)
        /\ faMaxLifetime \in UInt
    BY <1>0, FAAssumption DEF VisitorsOK, LimitsOK
  <2>6. CASE p.code \in {0, 1}
    <3>1. visitors' = faAccepted(visitors, p, request)
      BY <1>6, <2>6 DEF relayReply, request
    <3>2. NoZeroGrants => p.lifetime # 0 /\ faMaxLifetime # 0
      BY <1>0, <1>6, <2>6
         DEF NoZeroGrants, ZeroGrant, relayReply, faAnswers, NetOK, LimitsOK
    <3>3. VisitorsOK(visitors')
      BY <2>1, <2>5, <3>1, <3>2, Accepted DEF VisitorsOK
    <3> QED
      BY <1>6, <1>q, <2>1, <2>4, <3>3 DEF relayReply
  <2>7. CASE p.code \notin {0, 1}
    <3>1. visitors' = faDenied(visitors, p)
      BY <1>6, <2>7 DEF relayReply
    <3>2. VisitorsOK(visitors')
      BY <2>5, <3>1, RemoveVisitor DEF VisitorsOK, faDenied
    <3> QED
      BY <1>6, <1>q, <2>1, <2>4, <3>2 DEF relayReply
  <2> QED
    BY <2>6, <2>7
<1> QED
  BY <1>1, <1>2, <1>3, <1>5, <1>6 DEF FAPush

LEMMA LateRequests ==
  ASSUME NEW v \in Seq(FARequestItem), NEW t
  PROVE  \A i \in DOMAIN timedOut(v, t) : timedOut(v, t)[i].rr \in RequestPacket
<1> DEFINE L == {j \in DOMAIN v : v[j].waitingTime + 1 > t}
           late == timedOut(v, t)
<1>1. Waited(v) \in Seq(FARequestItem) /\ DOMAIN Waited(v) = DOMAIN v
  BY WaitedRequests
<1>2. L \in SUBSET (DOMAIN Waited(v))
  BY <1>1
<1>3. late = Retain(Waited(v), L)
  BY DEF timedOut
<1> HIDE DEF L, late
<1>4. late \in Seq(FARequestItem)
  BY <1>1, <1>2, <1>3, RetainElements
<1>5. \A i \in DOMAIN late : late[i] \in FARequestItem
  BY <1>4
<1> QED
  BY <1>5 DEF FARequestItem, late

LEMMA FATimerInv ==
  ASSUME FAInv, FARunTimer
  PROVE  FAInv'
<1>0. /\ NetOK(net) /\ PendingOK(faRequests) /\ VisitorsOK(visitors)
      /\ LimitsOK(faMaxLifetime, requestTimeout, maxPending)
  BY FAInvByVariable
<1> DEFINE left == decreaseRequests(faRequests)
           late == timedOut(left, requestTimeout)
<1>1. /\ faRequests' = stillWaiting(left, requestTimeout)
      /\ visitors' = decreaseVisitors(visitors)
      /\ net' = net \cup {faAnswer(late[i].rr, 78, late[i].rr.lifetime) : i \in DOMAIN late}
      /\ UNCHANGED faLimits
  BY DEF FARunTimer
<1>2. /\ faRequests \in Seq(FARequestItem)
      /\ \A i \in DOMAIN faRequests : ClocksAgree(faRequests[i])
      /\ requestTimeout \in FATimeouts /\ requestTimeout \in Nat
  BY <1>0, FAAssumption DEF PendingOK, LimitsOK
<1>3. /\ left \in Seq(FARequestItem) /\ Len(left) <= Len(faRequests)
      /\ \A i \in DOMAIN left : HalfAged(left[i])
  BY <1>2, DecreaseRequests
<1> HIDE DEF left
<1>4. /\ faRequests' \in Seq(FARequestItem) /\ Len(faRequests') <= Len(left)
      /\ \A i \in DOMAIN faRequests' : ClocksAgree(faRequests'[i])
  BY <1>1, <1>2, <1>3, StillWaiting
<1>5. PendingOK(faRequests')
  <2>1. PICK n \in FAPendings : Len(faRequests) <= n
    BY <1>0 DEF PendingOK
  <2>2. /\ n \in Nat /\ Len(faRequests) \in Nat
        /\ Len(left) \in Nat /\ Len(faRequests') \in Nat
    BY <1>2, <1>3, <1>4, FAAssumption
  <2>3. Len(faRequests') <= n
    BY <1>3, <1>4, <2>1, <2>2
  <2> QED
    BY <1>4, <2>3 DEF PendingOK
<1>6. VisitorsOK(visitors')
  BY <1>0, <1>1, DecreaseVisitors DEF VisitorsOK
<1>7. NetOK(net')
  <2>1. ASSUME NEW i \in DOMAIN late
        PROVE  NetOK({faAnswer(late[i].rr, 78, late[i].rr.lifetime)})
    <3>1. late[i].rr \in RequestPacket
      BY <1>3, LateRequests
    <3>2. late[i].rr.lifetime \in Nat
      BY <3>1, PacketAssumption DEF RequestPacket
    <3> QED
      BY <3>1, <3>2, AnswersAreOK
  <2> QED
    BY <1>0, <1>1, <2>1 DEF NetOK
<1> QED
  BY <1>0, <1>1, <1>5, <1>6, <1>7, ZenonT(60)
     DEF faLimits, FAInv, FATypeOK, UniqueVisitors, PendingClocksAgree, PendingBounded,
         VisitorsAlive, NetOK, PendingOK, VisitorsOK, LimitsOK

\* The timer sends nothing but answers to requests that waited for too long.
LEMMA TimerAnswers ==
  ASSUME FAInv, FARunTimer
  PROVE  \A q \in net' : q \in net \/ \E rr \in RequestPacket : q = faAnswer(rr, 78, rr.lifetime)
<1> DEFINE left == decreaseRequests(faRequests)
           late == timedOut(left, requestTimeout)
<1>1. net' = net \cup {faAnswer(late[i].rr, 78, late[i].rr.lifetime) : i \in DOMAIN late}
  BY DEF FARunTimer
<1>2. left \in Seq(FARequestItem)
  BY DecreaseRequests DEF FAInv, FATypeOK, PendingClocksAgree
<1> HIDE DEF left
<1>3. \A i \in DOMAIN late : late[i].rr \in RequestPacket
  BY <1>2, LateRequests
<1> QED
  BY <1>1, <1>3

LEMMA FANextInv == FAInv /\ [FANext]_faVars => FAInv'
<1> SUFFICES ASSUME FAInv, [FANext]_faVars PROVE FAInv'
  OBVIOUS
<1>0. /\ NetOK(net) /\ PendingOK(faRequests) /\ VisitorsOK(visitors)
      /\ LimitsOK(faMaxLifetime, requestTimeout, maxPending)
  BY FAInvByVariable
<1>q. ASSUME NetOK(net'), PendingOK(faRequests'), VisitorsOK(visitors'),
             LimitsOK(faMaxLifetime', requestTimeout', maxPending')
      PROVE  FAInv'
  BY <1>q DEF FAInv, FATypeOK, UniqueVisitors, PendingClocksAgree, PendingBounded,
              VisitorsAlive, NetOK, PendingOK, VisitorsOK, LimitsOK
<1>1. ASSUME NEW p \in net, FAPush(p) PROVE FAInv'
  BY <1>1, FAPushInv
<1>2. CASE FARunTimer
  BY <1>2, FATimerInv
<1>3. CASE FAConfigure
  <2>1. LimitsOK(faMaxLifetime', requestTimeout', maxPending')
    BY <1>0, <1>3 DEF FAConfigure, LimitsOK
  <2>2. net' = net /\ faRequests' = faRequests /\ visitors' = visitors
    BY <1>3 DEF FAConfigure, faLists
  <2> QED
    BY <1>0, <1>q, <2>1, <2>2
<1>4. CASE FARestart
  <2>1. LimitsOK(faMaxLifetime', requestTimeout', maxPending')
    BY <1>4, FAAssumption DEF FARestart, LimitsOK
  <2>2. net' = net /\ faRequests' = <<>> /\ visitors' = <<>>
    BY <1>4 DEF FARestart
  <2>3. PendingOK(faRequests')
    <3>1. FADefaultPending \in FAPendings /\ FADefaultPending \in Nat
      BY FAAssumption
    <3> QED
      BY <2>2, <3>1 DEF PendingOK
  <2>4. VisitorsOK(visitors')
    BY <2>2 DEF VisitorsOK, NoDuplicateVisits, AllPresent
  <2> QED
    BY <1>0, <1>q, <2>1, <2>2, <2>3, <2>4
<1>5. ASSUME NEW p \in FARequests \cup FAReplies, FASend(p) PROVE FAInv'
  <2>1. NetOK({p})
    BY FAAssumption DEF NetOK, NoZeroGrants, ZeroGrant, faGetsReply, RequestPacket
  <2>3. NetOK(net')
    BY <1>0, <1>5, <2>1 DEF FASend, NetOK
  <2>2. UNCHANGED <<faLists, faLimits>>
    BY <1>5 DEF FASend
  <2> QED
    BY <1>0, <1>q, <2>2, <2>3 DEF faLists, faLimits
<1>6. CASE FATake
  <2>1. NetOK(net')
    BY <1>0, <1>6 DEF FATake, NetOK
  <2>2. UNCHANGED <<faLists, faLimits>>
    BY <1>6 DEF FATake
  <2> QED
    BY <1>0, <1>q, <2>1, <2>2 DEF faLists, faLimits
<1>7. CASE UNCHANGED faVars
  <2>1. net' = net /\ UNCHANGED <<faLists, faLimits>>
    BY <1>7 DEF faVars
  <2> QED
    BY <1>0, <1>q, <2>1 DEF faLists, faLimits
<1> QED
  BY <1>1, <1>2, <1>3, <1>4, <1>5, <1>6, <1>7 DEF FANext, FAStep, FAEnv

(***************************************************************************)
(* Every reachable state of the foreign agent satisfies the invariant.     *)
(***************************************************************************)
THEOREM FAInvariant == FASpec => []FAInv
BY FAInitInv, FANextInv, PTL DEF FASpec, FAStart

(***************************************************************************)
(* The variables of MobileIPForeignAgent stay in their types.              *)
(***************************************************************************)
THEOREM FATypeCorrect == FASpec => []FATypeOK
<1>1. FAInv => FATypeOK
  BY DEF FAInv
<1> QED
  BY <1>1, FAInvariant, PTL

(***************************************************************************)
(* The visitor list never names a node of one home agent twice.            *)
(***************************************************************************)
THEOREM FAUniqueVisitors == FASpec => []UniqueVisitors
<1>1. FAInv => UniqueVisitors
  BY DEF FAInv
<1> QED
  BY <1>1, FAInvariant, PTL

(***************************************************************************)
(* The pending list never outgrows the largest limit that can be set.      *)
(***************************************************************************)
THEOREM FAPendingBounded == FASpec => []PendingBounded
<1>1. FAInv => PendingBounded
  BY DEF FAInv
<1> QED
  BY <1>1, FAInvariant, PTL

(***************************************************************************)
(* The two clocks of a pending request agree.                              *)
(***************************************************************************)
THEOREM FAClocksAgree == FASpec => []PendingClocksAgree
<1>1. FAInv => PendingClocksAgree
  BY DEF FAInv
<1> QED
  BY <1>1, FAInvariant, PTL

(***************************************************************************)
(* If no answer accepts for 0 seconds and max_lifetime is never 0, the     *)
(* unsigned countdown of the visitor list never starts from 0.             *)
(***************************************************************************)
THEOREM FAVisitorsAlive ==
  ASSUME NoZeroGrants
  PROVE  FASpec => []VisitorsAlive
<1>1. FAInv => VisitorsAlive
  BY DEF FAInv
<1> QED
  BY <1>1, FAInvariant, PTL

----------------------------------------------------------------------------
(***************************************************************************)
(* A request for longer than every timeout cannot expire before it times   *)
(* out, because its clocks agree: run_timer keeps it or answers it.        *)
(***************************************************************************)
LEMMA LongRequestStep ==
  ASSUME FAInv, FARunTimer, NEW k \in DOMAIN faRequests,
         CountsDown(faRequests[k]) => \A t \in FATimeouts : faRequests[k].requestedLifetime > t
  PROVE  LateIsAnswered(faRequests[k])
<1> DEFINE r == faRequests[k]
           left == decreaseRequests(faRequests)
           late == timedOut(left, requestTimeout)
<1>1. /\ faRequests' = stillWaiting(left, requestTimeout)
      /\ net' = net \cup {faAnswer(late[i].rr, 78, late[i].rr.lifetime) : i \in DOMAIN late}
  BY DEF FARunTimer
<1>2. /\ faRequests \in Seq(FARequestItem)
      /\ \A i \in DOMAIN faRequests : ClocksAgree(faRequests[i])
      /\ requestTimeout \in Nat
  BY FAAssumption DEF FAInv, FATypeOK, PendingClocksAgree
<1>3. r \in FARequestItem /\ ClocksAgree(r)
  BY <1>2
<1>4. CountsDown(r) => r.remainingLifetime # 0
  <2>1. PICK t \in FATimeouts : r.waitingTime <= t
    BY <1>3 DEF ClocksAgree
  <2>2. /\ t \in Nat /\ r.remainingLifetime \in Nat /\ r.waitingTime \in Nat
        /\ r.requestedLifetime \in Nat
    BY <1>3, FAAssumption, PacketAssumption DEF FARequestItem, UInt
  <2>3. CountsDown(r) => /\ r.remainingLifetime + r.waitingTime = r.requestedLifetime
                         /\ r.requestedLifetime > t
    BY <1>3 DEF ClocksAgree
  <2> HIDE DEF r
  <2> QED
    BY <2>1, <2>2, <2>3
<1>5. left \in Seq(FARequestItem) /\ \E j \in DOMAIN left : left[j].rr = r.rr
  BY <1>2, <1>4, DecreaseRequests
<1>6. PICK j \in DOMAIN left : left[j].rr = r.rr
  BY <1>5
<1> HIDE DEF left
<1>7. \/ \E i \in DOMAIN faRequests' : faRequests'[i].rr = left[j].rr
      \/ \E i \in DOMAIN late : late[i].rr = left[j].rr
  BY <1>1, <1>2, <1>5, TimeoutsPartition, ZenonT(60)
<1> HIDE DEF late, r
<1>8. \/ \E i \in DOMAIN faRequests' : faRequests'[i].rr = r.rr
      \/ faAnswer(r.rr, 78, r.rr.lifetime) \in net'
  BY <1>1, <1>6, <1>7
<1> QED
  BY <1>8 DEF LateIsAnswered, r

(***************************************************************************)
(* So no such request ever leaves the list in run_timer without code 78.   *)
(***************************************************************************)
THEOREM FALongRequestsAnswered == FASpec => LongRequestsAnswered
<1> DEFINE A == FARunTimer =>
                  \A i \in DOMAIN faRequests :
                    LET r == faRequests[i]
                    IN  (CountsDown(r) => \A t \in FATimeouts : r.requestedLifetime > t)
                        => LateIsAnswered(r)
<1>1. FAInv => A
  BY LongRequestStep
<1>2. FAInv /\ [FANext]_faVars => [A]_faVars
  BY <1>1
<1>3. FASpec => [][A]_faVars
  <2> HIDE DEF A
  <2> QED
    BY <1>2, FAInvariant, PTL DEF FASpec
<1> QED
  BY <1>3 DEF LongRequestsAnswered
----------------------------------------------------------------------------
(***************************************************************************)
(* Every request of w is a request of v, perhaps older.                    *)
(***************************************************************************)
FromRequests(w, v) ==
  \A i \in DOMAIN w : \E k \in DOMAIN v :
    w[i].rr = v[k].rr /\ w[i].identification = v[k].identification

\* An item carries the identification of the request it was made for.
NamedAsAsked(v) == \A i \in DOMAIN v : v[i].identification = v[i].rr.identification

LEMMA FromStaysNamed ==
  ASSUME NEW w, NEW v, FromRequests(w, v), NamedAsAsked(v)
  PROVE  NamedAsAsked(w)
BY Zenon DEF FromRequests, NamedAsAsked

LEMMA FromTransitive ==
  ASSUME NEW u, NEW w, NEW v, FromRequests(u, w), FromRequests(w, v)
  PROVE  FromRequests(u, v)
BY DEF FromRequests

LEMMA RetainFrom ==
  ASSUME NEW v \in Seq(FARequestItem), NEW a \in Seq(FARequestItem),
         DOMAIN a = DOMAIN v, FromRequests(a, v), NEW K \in SUBSET (DOMAIN v)
  PROVE  Retain(a, K) \in Seq(FARequestItem) /\ FromRequests(Retain(a, K), v)
<1> DEFINE w == Retain(a, K)
<1>1. K \in SUBSET (DOMAIN a)
  OBVIOUS
<1>2. w \in Seq(FARequestItem) /\ \A i \in DOMAIN w : \E k \in K : w[i] = a[k]
  <2>1. w \in Seq(FARequestItem) /\ IsThinned(w, a, K)
    BY <1>1, RetainProperties
  <2> HIDE DEF w
  <2> QED
    BY <2>1, ThinnedElements
<1> HIDE DEF w
<1>3. FromRequests(w, a)
  BY <1>1, <1>2, Zenon DEF FromRequests
<1>4. FromRequests(w, v)
  BY <1>3, FromTransitive, ZenonT(60)
<1> QED
  BY <1>2, <1>4 DEF w

(***************************************************************************)
(* The loops of run_timer make no request of their own, and what is late   *)
(* is no longer on the list.                                               *)
(***************************************************************************)
LEMMA DecreaseFrom ==
  ASSUME NEW v \in Seq(FARequestItem)
  PROVE  decreaseRequests(v) \in Seq(FARequestItem) /\ FromRequests(decreaseRequests(v), v)
<1> DEFINE f(r) == IF CountsDown(r)
                   THEN [r EXCEPT !.remainingLifetime = MinusOne(@)] ELSE r
           a == [i \in DOMAIN v |-> f(v[i])]
           K == {i \in DOMAIN v : CountsDown(v[i]) => v[i].remainingLifetime # 0}
<1>1. ASSUME NEW r \in FARequestItem
      PROVE  /\ f(r) \in FARequestItem /\ f(r).rr = r.rr
             /\ f(r).identification = r.identification
  <2>1. MinusOne(r.remainingLifetime) \in UInt
    <3>1. r.remainingLifetime \in UInt
      BY DEF FARequestItem
    <3> QED
      BY <3>1, PacketAssumption DEF MinusOne, UInt
  <2> DEFINE q == [r EXCEPT !.remainingLifetime = MinusOne(@)]
  <2>2. q \in FARequestItem /\ q.rr = r.rr /\ q.identification = r.identification
    BY <2>1 DEF FARequestItem
  <2>3. f(r) = q \/ f(r) = r
    OBVIOUS
  <2> HIDE DEF q, f
  <2> QED
    BY <2>2, <2>3
<1>2. \A i \in DOMAIN v : v[i] \in FARequestItem
  OBVIOUS
<1> HIDE DEF f
<1>3. /\ a \in Seq(FARequestItem) /\ DOMAIN a = DOMAIN v
      /\ \A i \in DOMAIN v : a[i] = f(v[i])
  BY <1>1, <1>2
<1>4. decreaseRequests(v) = Retain(a, K)
  BY DEF decreaseRequests, f
<1>5. K \in SUBSET (DOMAIN v)
  OBVIOUS
<1> HIDE DEF a, K
<1>6. FromRequests(a, v)
  BY <1>1, <1>2, <1>3 DEF FromRequests
<1> QED
  BY <1>3, <1>4, <1>5, <1>6, RetainFrom

LEMMA TimeoutsFrom ==
  ASSUME NEW v \in Seq(FARequestItem), NEW t \in Nat
  PROVE  /\ FromRequests(stillWaiting(v, t), v)
         /\ FromRequests(timedOut(v, t), v)
         /\ DOMAIN timedOut(v, t) # {} => Len(stillWaiting(v, t)) < Len(v)
<1> DEFINE a == Waited(v)
           K == {i \in DOMAIN v : v[i].waitingTime + 1 <= t}
           L == {i \in DOMAIN v : v[i].waitingTime + 1 > t}
<1>1. \A i \in DOMAIN v : v[i] \in FARequestItem
  OBVIOUS
<1>2. /\ a \in Seq(FARequestItem) /\ DOMAIN a = DOMAIN v /\ Len(a) = Len(v)
  BY WaitedRequests
<1>3. FromRequests(a, v)
  <2>1. ASSUME NEW i \in DOMAIN v
        PROVE  a[i].rr = v[i].rr /\ a[i].identification = v[i].identification
    <3>1. a[i] = [v[i] EXCEPT !.waitingTime = @ + 1]
      BY DEF Waited
    <3> QED
      BY <1>1, <3>1 DEF FARequestItem
  <2> QED
    BY <1>2, <2>1 DEF FromRequests
<1>4. stillWaiting(v, t) = Retain(a, K) /\ timedOut(v, t) = Retain(a, L)
  BY DEF stillWaiting, timedOut
<1>5. K \in SUBSET (DOMAIN v) /\ L \in SUBSET (DOMAIN v)
  OBVIOUS
<1>6. ASSUME L # {} PROVE K # DOMAIN v
  <2>1. PICK i \in L : TRUE
    BY <1>6
  <2>2. v[i].waitingTime \in Nat
    BY <1>1 DEF FARequestItem
  <2> QED
    BY <2>1, <2>2
<1> HIDE DEF a, K, L
<1>7. FromRequests(Retain(a, K), v) /\ FromRequests(Retain(a, L), v)
  BY <1>2, <1>3, <1>5, RetainFrom
<1>8. DOMAIN Retain(a, L) # {} => L # {}
  <2>1. L \in SUBSET (DOMAIN a)
    BY <1>2, <1>5
  <2>2. Retain(a, L) \in Seq(FARequestItem) /\ IsThinned(Retain(a, L), a, L)
    BY <1>2, <2>1, RetainProperties
  <2> QED
    BY <2>2, ThinnedElements
<1>9. L # {} => Len(Retain(a, K)) < Len(v)
  <2>1. K \in SUBSET (DOMAIN a) /\ (L # {} => K # DOMAIN a)
    BY <1>2, <1>5, <1>6
  <2>2. K # DOMAIN a => Len(Retain(a, K)) < Len(a)
    BY <1>2, <2>1, RetainLength
  <2> QED
    BY <1>2, <2>1, <2>2
<1> QED
  BY <1>4, <1>7, <1>8, <1>9

LEMMA RemoveFrom ==
  ASSUME NEW v \in Seq(FARequestItem), NEW id, RequestsOf(v, id) # {}
  PROVE  /\ FromRequests(removeRequest(v, id), v)
         /\ Len(removeRequest(v, id)) < Len(v)
         /\ \E k \in DOMAIN v : foundRequest(v, id) = v[k] /\ v[k].identification = id
<1> DEFINE k == FirstOf(RequestsOf(v, id))
           K == DOMAIN v \ {k}
<1>1. RequestsOf(v, id) \in SUBSET Nat
  BY DEF RequestsOf
<1>2. k \in DOMAIN v /\ v[k].identification = id
  <2>1. k \in RequestsOf(v, id)
    BY <1>1, FirstOfMember
  <2> QED
    BY <2>1 DEF RequestsOf
<1>3. foundRequest(v, id) = v[k] /\ removeRequest(v, id) = Retain(v, K)
  BY DEF foundRequest, removeRequest, EraseAt
<1>4. K \in SUBSET (DOMAIN v) /\ K # DOMAIN v
  BY <1>2
<1> HIDE DEF k, K
<1>5. FromRequests(v, v)
  BY DEF FromRequests
<1>6. FromRequests(Retain(v, K), v)
  BY <1>4, <1>5, RetainFrom
<1>7. Len(Retain(v, K)) < Len(v)
  BY <1>4, RetainLength
<1> QED
  BY <1>2, <1>3, <1>6, <1>7
----------------------------------------------------------------------------
(***************************************************************************)
(* An item of the pending list carries the identification of its request.  *)
(***************************************************************************)
FANamed == NamedAsAsked(faRequests)

LEMMA FANamedInit == FAStart => FANamed
BY DEF FAStart, FAInit, FANamed, NamedAsAsked

LEMMA FANamedNext == FAInv /\ FANamed /\ [FANext]_faVars => FANamed'
<1> SUFFICES ASSUME FAInv, FANamed, [FANext]_faVars PROVE FANamed'
  OBVIOUS
<1>0. faRequests \in Seq(FARequestItem) /\ requestTimeout \in Nat
  BY FAAssumption DEF FAInv, FATypeOK
<1>u. ASSUME faRequests' = faRequests PROVE FANamed'
  BY <1>u DEF FANamed
<1>f. ASSUME FromRequests(faRequests', faRequests) PROVE FANamed'
  BY <1>f, FromStaysNamed DEF FANamed
<1>1. ASSUME NEW p \in net, FAPush(p) PROVE FANamed'
  <2>1. CASE FAIgnore(p) \/ FARefuse(p)
    BY <1>u, <2>1 DEF FAIgnore, FARefuse, faLists
  <2>2. CASE relayRequest(p)
    <3> DEFINE e == [identification |-> p.identification, rr |-> p,
                     requestedLifetime |-> p.lifetime, remainingLifetime |-> p.lifetime,
                     waitingTime |-> 0]
    <3>1. faRequests' = Append(faRequests, e)
      BY <2>2 DEF relayRequest
    <3>2. e.identification = e.rr.identification
      OBVIOUS
    <3> HIDE DEF e
    <3>3. /\ DOMAIN faRequests' = 1..(Len(faRequests) + 1)
          /\ DOMAIN faRequests = 1..Len(faRequests) /\ Len(faRequests) \in Nat
          /\ \A i \in DOMAIN faRequests : faRequests'[i] = faRequests[i]
          /\ faRequests'[Len(faRequests) + 1] = e
      BY <1>0, <3>1
    <3>4. \A i \in DOMAIN faRequests' : i \in DOMAIN faRequests \/ i = Len(faRequests) + 1
      BY <3>3
    <3>5. NamedAsAsked(faRequests')
      BY <3>2, <3>3, <3>4 DEF FANamed, NamedAsAsked
    <3> QED
      BY <3>5 DEF FANamed
  <2>3. CASE FAMismatch(p) \/ relayReply(p)
    <3>1. /\ RequestsOf(faRequests, p.identification) # {}
          /\ faRequests' = removeRequest(faRequests, p.identification)
      BY <2>3 DEF FAMismatch, relayReply, faAnswers
    <3> QED
      BY <1>0, <1>f, <3>1, RemoveFrom
  <2> QED
    BY <1>1, <2>1, <2>2, <2>3 DEF FAPush
<1>2. CASE FARunTimer
  <2> DEFINE left == decreaseRequests(faRequests)
  <2>1. faRequests' = stillWaiting(left, requestTimeout)
    BY <1>2 DEF FARunTimer
  <2>2. left \in Seq(FARequestItem) /\ FromRequests(left, faRequests)
    BY <1>0, DecreaseFrom
  <2> HIDE DEF left
  <2>3. FromRequests(faRequests', left)
    BY <1>0, <2>1, <2>2, TimeoutsFrom
  <2> QED
    BY <1>f, <2>2, <2>3, FromTransitive
<1>3. CASE FARestart
  BY <1>3 DEF FARestart, FANamed, NamedAsAsked
<1>4. CASE FAConfigure
  BY <1>u, <1>4 DEF FAConfigure, faLists
<1>5. CASE FAEnv
  BY <1>u, <1>5 DEF FAEnv, FASend, FATake, faLists
<1>6. CASE UNCHANGED faVars
  BY <1>u, <1>6 DEF faVars, faLists
<1> QED
  BY <1>1, <1>2, <1>3, <1>4, <1>5, <1>6 DEF FANext, FAStep

LEMMA FANamedInvariant == FASpec => []FANamed
BY FANamedInit, FANamedNext, FAInvariant, PTL DEF FASpec

(***************************************************************************)
(* The port, home address and identification of what the agent builds.     *)
(***************************************************************************)
Answers(p, rr) ==
  p.dport = rr.sport /\ p.home = rr.home /\ p.identification = rr.identification

LEMMA AnswerAnswers ==
  ASSUME NEW rr, NEW code, NEW l
  PROVE  Answers(faAnswer(rr, code, l), rr) /\ faAnswer(rr, code, l).type = "REPLY"
BY ZenonT(60) DEF Answers, faAnswer, buildRegistrationReply, UDPIP

LEMMA PassOnAnswers ==
  ASSUME NEW reply, NEW rr, reply.home = rr.home, reply.identification = rr.identification
  PROVE  Answers(faPassOn(reply, rr.sport), rr)
BY Zenon DEF Answers, faPassOn, buildRegistrationReply, UDPIP

\* What RepliesAnswerRequests says of a packet that appears.
AnswersSomething(p) ==
  \/ \E rr \in net \ net' : rr.type = "REGISTRATION" /\ Answers(p, rr)
  \/ /\ Len(faRequests') < Len(faRequests)
     /\ \E i \in DOMAIN faRequests : Answers(p, faRequests[i].rr)

LEMMA AnswersStep ==
  ASSUME FAInv, FANamed, [FANext]_faVars,
         NEW p \in net' \ net, p.type = "REPLY", p.link = "foreign"
  PROVE  AnswersSomething(p)
<1>0. faRequests \in Seq(FARequestItem) /\ requestTimeout \in Nat
  BY FAAssumption DEF FAInv, FATypeOK
<1>1. ASSUME NEW q \in net, FAPush(q) PROVE AnswersSomething(p)
  <2>1. CASE FAIgnore(q) \/ FAMismatch(q)
    BY <2>1 DEF FAIgnore, FAMismatch, faConsume
  <2>2. CASE FARefuse(q)
    <3>1. PICK code, l : faConsume(q, {faAnswer(q, code, l)})
      BY <2>2, ZenonT(60) DEF FARefuse
    <3>2. q.type = "REGISTRATION"
      BY <2>2 DEF FARefuse, faValid, faGetsRequest
    <3>3. p = faAnswer(q, code, l) /\ q \notin net'
      BY <3>1, <3>2, AnswerAnswers DEF faConsume
    <3>4. Answers(p, q)
      BY <3>3, AnswerAnswers
    <3> QED
      BY <3>2, <3>3, <3>4 DEF AnswersSomething
  <2>3. CASE relayRequest(q)
    <3>1. PICK reading \in Id : faConsume(q, {faForward(q, reading)})
      BY <2>3, ZenonT(60) DEF relayRequest
    <3>2. faForward(q, reading).type # "REPLY"
      BY DEF faForward, buildRegistrationRequest
    <3> QED
      BY <3>1, <3>2 DEF faConsume
  <2>4. CASE relayReply(q)
    <3> DEFINE request == foundRequest(faRequests, q.identification)
    <3>1. /\ RequestsOf(faRequests, q.identification) # {}
          /\ faRequests' = removeRequest(faRequests, q.identification)
          /\ faFits(q, request)
          /\ faConsume(q, {faPassOn(q, request.rr.sport)})
      BY <2>4 DEF relayReply, faAnswers
    <3> HIDE DEF request
    <3>2. /\ Len(faRequests') < Len(faRequests)
          /\ \E k \in DOMAIN faRequests : request = faRequests[k]
                                          /\ faRequests[k].identification = q.identification
      BY <1>0, <3>1, RemoveFrom, ZenonT(60) DEF request
    <3>3. PICK k \in DOMAIN faRequests : request = faRequests[k]
                                          /\ faRequests[k].identification = q.identification
      BY <3>2
    <3>4. q.identification = request.rr.identification /\ q.home = request.rr.home
      BY <3>1, <3>3 DEF FANamed, NamedAsAsked, faFits
    <3>5. p = faPassOn(q, request.rr.sport)
      BY <3>1 DEF faConsume
    <3>6. Answers(p, request.rr)
      BY <3>4, <3>5, PassOnAnswers
    <3> QED
      BY <3>2, <3>3, <3>6 DEF AnswersSomething
  <2> QED
    BY <1>1, <2>1, <2>2, <2>3, <2>4 DEF FAPush
<1>2. CASE FARunTimer
  <2> DEFINE left == decreaseRequests(faRequests)
             late == timedOut(left, requestTimeout)
  <2>1. /\ faRequests' = stillWaiting(left, requestTimeout)
        /\ net' = net \cup {faAnswer(late[i].rr, 78, late[i].rr.lifetime) : i \in DOMAIN late}
    BY <1>2 DEF FARunTimer
  <2>2. left \in Seq(FARequestItem) /\ FromRequests(left, faRequests)
    BY <1>0, DecreaseFrom
  <2>3. Len(left) <= Len(faRequests)
    BY <1>0, DecreaseRequests DEF FAInv, PendingClocksAgree
  <2> HIDE DEF left
  <2>4. /\ FromRequests(late, left)
        /\ DOMAIN late # {} => Len(faRequests') < Len(left)
    BY <1>0, <2>1, <2>2, TimeoutsFrom
  <2>5. faRequests' \in Seq(FARequestItem)
    BY FANextInv DEF FAInv, FATypeOK
  <2> HIDE DEF late
  <2>6. PICK i \in DOMAIN late : p = faAnswer(late[i].rr, 78, late[i].rr.lifetime)
    BY <2>1
  <2>7. Len(faRequests') < Len(faRequests)
    BY <1>0, <2>2, <2>3, <2>4, <2>5, <2>6
  <2>8. PICK k \in DOMAIN faRequests : late[i].rr = faRequests[k].rr
    <3>1. FromRequests(late, faRequests)
      BY <2>2, <2>4, FromTransitive
    <3> QED
      BY <2>6, <3>1 DEF FromRequests
  <2>9. Answers(p, faRequests[k].rr)
    BY <2>6, <2>8, AnswerAnswers
  <2> QED
    BY <2>7, <2>8, <2>9 DEF AnswersSomething
<1>3. CASE FARestart \/ FAConfigure \/ FATake
  BY <1>3 DEF FARestart, FAConfigure, FATake
<1>4. ASSUME NEW q \in FARequests \cup FAReplies, FASend(q) PROVE AnswersSomething(p)
  <2>1. p = q
    BY <1>4 DEF FASend
  <2>2. q \in FARequests => q \in RequestPacket
    BY FAAssumption
  <2>3. q \in FAReplies => q.link = "public"
    BY FAAssumption
  <2> QED
    BY <2>1, <2>2, <2>3 DEF RequestPacket
<1>5. CASE UNCHANGED faVars
  BY <1>5 DEF faVars
<1> QED
  BY <1>1, <1>2, <1>3, <1>4, <1>5 DEF FANext, FAStep, FAEnv

(***************************************************************************)
(* The foreign agent never answers out of the blue: a reply that appears   *)
(* on the foreign link goes to the port, and names the home address and    *)
(* the identification, of a request that arrives or leaves the list.       *)
(***************************************************************************)
THEOREM FARepliesAnswerRequests == FASpec => RepliesAnswerRequests
<1> DEFINE A ==
      \A p \in net' \ net :
        p.type = "REPLY" /\ p.link = "foreign" =>
        \/ \E rr \in net \ net' :
             /\ rr.type = "REGISTRATION" /\ p.dport = rr.sport
             /\ p.home = rr.home /\ p.identification = rr.identification
        \/ /\ Len(faRequests') < Len(faRequests)
           /\ \E i \in DOMAIN faRequests :
                LET rr == faRequests[i].rr
                IN  /\ p.dport = rr.sport
                    /\ p.home = rr.home /\ p.identification = rr.identification
<1>1. FAInv /\ FANamed /\ [FANext]_faVars => [A]_faVars
  <2>1. ASSUME NEW p, AnswersSomething(p)
        PROVE  \/ \E rr \in net \ net' :
                    /\ rr.type = "REGISTRATION" /\ p.dport = rr.sport
                    /\ p.home = rr.home /\ p.identification = rr.identification
               \/ /\ Len(faRequests') < Len(faRequests)
                  /\ \E i \in DOMAIN faRequests :
                       LET rr == faRequests[i].rr
                       IN  /\ p.dport = rr.sport
                           /\ p.home = rr.home /\ p.identification = rr.identification
    BY <2>1, Zenon DEF AnswersSomething, Answers
  <2> QED
    BY <2>1, AnswersStep, Zenon
<1>2. FASpec => [][A]_faVars
  <2> HIDE DEF A
  <2> QED
    BY <1>1, FAInvariant, FANamedInvariant, PTL DEF FASpec
<1> QED
  BY <1>2 DEF RepliesAnswerRequests
=============================================================================
