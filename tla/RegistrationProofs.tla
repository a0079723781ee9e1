------------------------- MODULE RegistrationProofs -------------------------
(***************************************************************************)
(* The composition, for every set of addresses, every lifetime, limit and  *)
(* timeout, and any number of moves, losses and starts.  Here are the      *)
(* inductive invariant, which says what the countdowns of one registration *)
(* in the three processes have to do with each other and with the packets  *)
(* in flight, and its preservation by the steps of the two agents.         *)
(***************************************************************************)
EXTENDS MobileIP, HomeAgentProofs, ForeignAgentProofs, MobileNodeProofs

\* A leaf goes to the SMT solver, with a minute, unless it names a prover; then
\* to Zenon, and to the SMT solver once more.
USE SMTT(60), ZenonT(30), SMTT(90)

(***************************************************************************)
(* The lifetimes in play: what the foreign agent lets through of the       *)
(* advertised one, and what the home agent grants of that.                 *)
(***************************************************************************)
Passed == Minimum(MRegistration, FADefaultLifetime)
Lease == Minimum(Passed, HADefaultLifetime)
Lifetimes == {0, MRegistration, Passed}

LEMMA LifetimeFacts ==
  /\ MRegistration \in 1..(Infinity - 1) /\ Infinity \in Nat /\ UIntMod \in Nat
  /\ UIntMod > Infinity + 1
  /\ FADefaultLifetime \in Nat /\ HADefaultLifetime \in Nat /\ HADefaultLifetime \in UInt
  /\ Passed \in Nat /\ Lease \in Nat
  /\ Passed <= MRegistration /\ Lease <= Passed
<1>1. UInt \subseteq Nat
  BY PacketAssumption DEF UInt
<1>2. FADefaultLifetime \in Nat /\ HADefaultLifetime \in Nat /\ HADefaultLifetime \in UInt
  BY <1>1, HAAssumption, FAAssumption
<1>3. MRegistration \in 1..(Infinity - 1) /\ Infinity \in Nat /\ UIntMod \in Nat
      /\ UIntMod > Infinity + 1
  BY MAssumption, PacketAssumption
<1> QED
  BY <1>2, <1>3 DEF Passed, Lease, Minimum

LEMMA LifetimesFit ==
  ASSUME NEW l \in Lifetimes \cup {Lease}
  PROVE  l \in Nat /\ l \in UInt /\ l # Infinity /\ htons(l) = l
<1>1. l \in Nat /\ l < Infinity
  BY LifetimeFacts DEF Lifetimes
<1>2. htons(l) = l
  BY <1>1, LifetimeFacts DEF htons
<1> QED
  BY <1>1, <1>2, LifetimeFacts DEF UInt

LEMMA LifetimesCut ==
  ASSUME NEW l \in Lifetimes
  PROVE  /\ l > FADefaultLifetime => FADefaultLifetime = Passed
         /\ ~(l > FADefaultLifetime) => l \in {0, Passed}
         /\ l \in {0, Passed} /\ l # 0 => Minimum(l, HADefaultLifetime) = Lease
         /\ l # 0 /\ Lease # 0 => Lease <= l
         /\ Minimum(Lease, FADefaultLifetime) = Lease
BY LifetimeFacts DEF Lifetimes, Passed, Lease, Minimum

(***************************************************************************)
(* What can be in flight: only requests of the node and the answers of its *)
(* agents, which grant the lease and nothing else.                         *)
(***************************************************************************)
ProperRequest(p) ==
  /\ p.home = MNHome /\ p.homeAgent = HAPublic /\ p.options = {}
  /\ p.lifetime \in Lifetimes /\ p.dst # BroadcastAddr
  /\ p.link = "public" => p.careOf = FAPublic /\ p.lifetime \in {0, Passed}

ProperReply(p) ==
  /\ p.code # 136
  /\ p.code = 69 => p.lifetime = Passed /\ p.src # BroadcastAddr
  /\ p.link = "public" => /\ p.code = 0 /\ p.lifetime = Lease /\ Lease # 0
                          /\ p.home = MNHome /\ p.homeAgent = HAPublic
  /\ p.link = "foreign" /\ p.code \in {0, 1} =>
       p.src = FAPrivate /\ p.lifetime = Lease /\ Lease # 0
  /\ p.link = "home" => p.src # FAPrivate

IsRequest(p) == p.type = "REGISTRATION"
IsGrant(p) == p.type = "REPLY" /\ p.code \in {0, 1}

Proper(p) == (IsRequest(p) => ProperRequest(p)) /\ (p.type = "REPLY" => ProperReply(p))

\* A request and the grant it leads to are not in flight together.
Distinct(n) ==
  \A p, q \in n : IsRequest(p) /\ (IsRequest(q) \/ IsGrant(q))
                  /\ p.identification = q.identification => p = q

NetGood(n) ==
  n \subseteq (RequestPacket \cup ReplyPacket) /\ (\A p \in n : Proper(p)) /\ Distinct(n)

\* Only a request for a lifetime is answered with one.
Linked(n, m) ==
  \A p \in n, i \in DOMAIN m :
    (IsRequest(p) \/ IsGrant(p)) /\ p.lifetime # 0 /\ p.identification = m[i].identification
    => m[i].requestedLifetime # 0

GoodItem(r) == r.requestedLifetime \in Lifetimes /\ r.destination # BroadcastAddr
ItemsGood(m) == \A i \in DOMAIN m : GoodItem(m[i])
AsksGood(asks) ==
  \A i \in DOMAIN asks : asks[i].lifetime \in Lifetimes /\ asks[i].destination # BroadcastAddr

LEMMA Fewer ==
  ASSUME NEW n, NEW m, NetGood(n), Linked(n, m), NEW k \in SUBSET n
  PROVE  NetGood(k) /\ Linked(k, m)
BY Zenon DEF NetGood, Linked, Distinct

\* An agent's answer q to p.
Follows(q, p) ==
  /\ IsRequest(q) => IsRequest(p)
  /\ IsRequest(q) \/ IsGrant(q) =>
       /\ IsRequest(p) \/ IsGrant(p)
       /\ q.identification = p.identification
       /\ q.lifetime # 0 => p.lifetime # 0

LEMMA Answered ==
  ASSUME NEW n, NEW m, NetGood(n), Linked(n, m), NEW p \in n,
         NEW q \in RequestPacket \cup ReplyPacket, Proper(q), Follows(q, p)
  PROVE  NetGood((n \ {p}) \cup {q}) /\ Linked((n \ {p}) \cup {q}, m)
<1> USE Zenon
<1> DEFINE k == (n \ {p}) \cup {q}
<1>1. \A x \in k : x = q \/ (x \in n /\ x # p)
  BY SMTT(60)
<1>2. Distinct(n) /\ \A x \in n : Proper(x) /\ x \in RequestPacket \cup ReplyPacket
  BY SMTT(60) DEF NetGood
<1> HIDE DEF k
<1>3. Distinct(k)
  <2> SUFFICES ASSUME NEW x \in k, NEW y \in k, IsRequest(x), IsRequest(y) \/ IsGrant(y),
                      x.identification = y.identification
               PROVE  x = y
    BY DEF Distinct
  <2> QED
    BY <1>1, <1>2 DEF Distinct, Follows
<1>4. Linked(k, m)
  BY <1>1 DEF Linked, Follows
<1> QED
  BY <1>1, <1>2, <1>3, <1>4 DEF NetGood, k

LEMMA Stemming ==
  ASSUME NEW n, NEW m, NEW w, StemsFrom(w, m), ItemsGood(m), Linked(n, m)
  PROVE  ItemsGood(w) /\ Linked(n, w)
BY Zenon DEF StemsFrom, SameRequest, ItemsGood, GoodItem, Linked

(***************************************************************************)
(* What the node sends keeps all of this, as its readings of the clock are *)
(* distinct.                                                               *)
(***************************************************************************)
LEMMA PacketIsProper ==
  ASSUME NEW r \in MNRequestItem, GoodItem(r), mnLink \in {"home", "foreign"}
  PROVE  LET q == packetOf(r, HAPublic)
         IN  /\ q \in RequestPacket /\ IsRequest(q) /\ Proper(q)
             /\ q.identification = r.identification /\ q.lifetime = r.requestedLifetime
<1> DEFINE q == packetOf(r, HAPublic)
<1>1. /\ r.destination \in Addr /\ r.careOfAddress \in Addr /\ r.identification \in Id
      /\ r.identification # 0
  BY MAddressAssumption DEF MNRequestItem
<1>2. htons(r.requestedLifetime) = r.requestedLifetime /\ r.requestedLifetime \in Nat
  BY LifetimesFit DEF GoodItem
<1>3. q \in RequestPacket
  <2>1. /\ mnLink \in Link /\ NodePort \in Nat /\ RegistrationPort \in Nat
        /\ MNHome \in Addr /\ HAPublic \in Addr
    BY MNAssumption, HAAssumption DEF Link, NodePort, RegistrationPort
  <2> QED
    BY <1>1, <1>2, <2>1, RequestType, Zenon DEF packetOf
<1>4. /\ q.type = "REGISTRATION" /\ q.link = mnLink /\ q.dst = r.destination
      /\ q.options = {} /\ q.lifetime = htons(r.requestedLifetime)
      /\ q.home = MNHome /\ q.homeAgent = HAPublic
      /\ q.identification = r.identification
  BY <1>1 DEF packetOf, buildRegistrationRequest, UDPIP
<1> HIDE DEF q
<1>5. Proper(q)
  BY <1>2, <1>4 DEF Proper, ProperRequest, IsRequest, GoodItem
<1> QED
  BY <1>2, <1>3, <1>4, <1>5 DEF q, IsRequest

LEMMA SendGood ==
  ASSUME NEW received, NEW pending \in Seq(MNRequestItem), NEW asks \in Seq(Ask),
         mnSend(received, pending, asks, HAPublic), mReadings,
         mnRequests' \in Seq(MNRequestItem), mnLink \in {"home", "foreign"},
         NetGood(net), Linked(net, pending), ItemsGood(pending), AsksGood(asks)
  PROVE  /\ NetGood(net') /\ Linked(net', mnRequests') /\ ItemsGood(mnRequests')
         /\ \A q \in net' : q \in net \ received \/ IsRequest(q)
<1> USE Zenon
<1> DEFINE m == mnRequests'
           packet(j) == packetOf(m[j], HAPublic)
<1>1. PICK out : Sent(received, pending, asks, HAPublic, out)
  BY MNSent, MAddressAssumption
<1>2. /\ net' = (net \ received) \cup out
      /\ \A q \in out : \E j \in DOMAIN m : q = packet(j)
      /\ \A j \in DOMAIN m : (\E i \in DOMAIN pending : m[j] = pending[i]) \/ packet(j) \in out
  BY <1>1 DEF Sent
<1>3. ItemsGood(m)
  <2> SUFFICES ASSUME NEW j \in DOMAIN m PROVE GoodItem(m[j])
    BY DEF ItemsGood
  <2>1. (\E i \in DOMAIN pending : m[j] = pending[i]) \/ Asks(asks, m[j])
    BY <1>1 DEF Sent
  <2>2. Asks(asks, m[j]) => GoodItem(m[j])
    BY DEF Asks, AsksGood, GoodItem
  <2> QED
    BY <2>1, <2>2 DEF ItemsGood
<1>4. ASSUME NEW j \in DOMAIN m
      PROVE  /\ packet(j) \in RequestPacket /\ IsRequest(packet(j)) /\ Proper(packet(j))
             /\ packet(j).identification = m[j].identification
             /\ packet(j).lifetime = m[j].requestedLifetime
  <2>1. m[j] \in MNRequestItem /\ GoodItem(m[j])
    BY <1>3 , SMTT(60) DEF ItemsGood
  <2> HIDE DEF m
  <2> QED
    BY <2>1, PacketIsProper
<1>5. /\ \A i, j \in DOMAIN m : m[i].identification = m[j].identification => i = j
      /\ \A q \in net' \ net, p \in net : IsRequest(q) => q.identification # p.identification
  <2> DEFINE new == {p.identification : p \in {q \in net' \ net : q.type = "REGISTRATION"}}
             used == {faRequests[i].identification : i \in DOMAIN faRequests}
                       \cup {p.identification : p \in net}
  <2>1. /\ new \cap used = {}
        /\ \A i, j \in DOMAIN m : m[i].identification = m[j].identification => i = j
    BY DEF mReadings
  <2>2. \A q \in net' \ net : IsRequest(q) => q.identification \in new
    BY SMTT(60) DEF IsRequest
  <2>3. \A p \in net : p.identification \in used
    BY SMTT(60)
  <2> HIDE DEF new, used, m
  <2> QED
    BY <2>1, <2>2, <2>3
<1> HIDE DEF m, packet
<1>6. \A q \in net' : q \in net \/ \E j \in DOMAIN m : q = packet(j) /\ q \notin net
  BY <1>2
<1>7. \A q \in net' : q \in RequestPacket \cup ReplyPacket /\ Proper(q)
  BY <1>4, <1>6 DEF NetGood
<1>8. Distinct(net')
  <2> SUFFICES ASSUME NEW x \in net', NEW y \in net', IsRequest(x), IsRequest(y) \/ IsGrant(y),
                      x.identification = y.identification
               PROVE  x = y
    BY DEF Distinct
  <2>1. CASE x \in net /\ y \in net
    BY <2>1 DEF NetGood, Distinct
  <2>2. CASE x \notin net
    <3>1. PICK j \in DOMAIN m : x = packet(j)
      BY <1>6, <2>2
    <3>2. y \notin net
      BY <1>5, <2>2
    <3>3. PICK k \in DOMAIN m : y = packet(k)
      BY <1>6, <3>2
    <3> QED
      BY <1>4, <1>5, <3>1, <3>3
  <2>3. CASE x \in net /\ y \notin net
    <3>1. PICK j \in DOMAIN m : y = packet(j)
      BY <1>6, <2>3
    <3> QED
      BY <1>4, <1>5, <2>3, <3>1
  <2> QED
    BY <2>1, <2>2, <2>3
<1>9. Linked(net', m)
  <2> SUFFICES ASSUME NEW q \in net', NEW i \in DOMAIN m, IsRequest(q) \/ IsGrant(q),
                      q.lifetime # 0, q.identification = m[i].identification
               PROVE  m[i].requestedLifetime # 0
    BY DEF Linked
  <2>1. CASE q \notin net
    <3>1. PICK j \in DOMAIN m : q = packet(j)
      BY <1>6, <2>1
    <3> QED
      BY <1>4, <1>5, <3>1
  <2>2. CASE q \in net /\ \E k \in DOMAIN pending : m[i] = pending[k]
    BY <2>2 DEF Linked
  <2>3. CASE q \in net /\ packet(i) \in out
    <3>1. packet(i) \in net'
      BY <1>2, <2>3
    <3>2. packet(i) = q
      BY <1>4, <1>8, <3>1 DEF Distinct
    <3> QED
      BY <1>4, <3>2
  <2> QED
    BY <1>2, <2>1, <2>2, <2>3
<1>10. \A q \in net' : q \in net \ received \/ IsRequest(q)
  BY <1>2, <1>4
<1> QED
  BY <1>3, <1>7, <1>8, <1>9, <1>10 DEF NetGood, m

(***************************************************************************)
(* The agents' answers keep it too.                                        *)
(***************************************************************************)
LEMMA HAAnswers ==
  ASSUME NEW p \in RequestPacket, ProperRequest(p), p.link \in {"home", "public"},
         p.dst \in {HAPrivate, HAPublic}, NEW l,
         l = 0 \/ (p.lifetime # 0 /\ l = Minimum(p.lifetime, HADefaultLifetime))
  PROVE  LET q == haReply(p, 0, l)
         IN  /\ q \in ReplyPacket /\ Proper(q) /\ Follows(q, p)
             /\ q.link # "foreign" /\ q.identification = p.identification
             /\ q.link = "public" => p.link = "public" /\ l = Lease
<1> DEFINE q == haReply(p, 0, l)
<1>1. p.type = "REGISTRATION" /\ p.dst # BroadcastAddr /\ p.dst # FAPrivate
  BY MAddressAssumption DEF RequestPacket
<1>2. l \in Nat /\ (l # 0 => p.lifetime # 0)
  <2>1. p.lifetime \in Nat
    BY LifetimesFit DEF ProperRequest
  <2> QED
    BY <2>1, LifetimeFacts DEF Minimum
<1>3. q \in ReplyPacket
  BY <1>2, HAReplyType
<1>4. /\ q.type = "REPLY" /\ q.code = 0 /\ q.src = p.dst /\ q.lifetime = htons(l)
      /\ q.link = (IF l = 0 THEN "home" ELSE p.link)
      /\ q.home = p.home /\ q.homeAgent = p.homeAgent /\ q.identification = p.identification
  BY <1>1 DEF haReply, buildRegistrationReply, UDPIP
<1>5. htons(0) = 0 /\ htons(Lease) = Lease
  BY LifetimesFit DEF Lifetimes
<1> HIDE DEF q
<1>6. q.link = "public" => p.link = "public" /\ l = Lease /\ l # 0
  BY <1>4, LifetimesCut, Zenon DEF ProperRequest
<1>7. ProperReply(q)
  <2>1. q.link # "foreign" /\ q.code \notin {69, 136}
    BY <1>4
  <2> QED
    BY <1>1, <1>4, <1>5, <1>6, <2>1 DEF ProperReply, ProperRequest
<1>8. Follows(q, p)
  BY <1>1, <1>2, <1>4, <1>5 DEF Follows, IsRequest, IsGrant
<1> QED
  BY <1>3, <1>4, <1>6, <1>7, <1>8 DEF Proper, IsRequest, q

LEMMA FAAnswers ==
  ASSUME NEW p \in RequestPacket, ProperRequest(p), NEW code \in Nat \ {0, 1, 136},
         NEW l \in Nat, code = 69 => l = Passed
  PROVE  LET q == faAnswer(p, code, l)
         IN  q \in ReplyPacket /\ Proper(q) /\ Follows(q, p) /\ ~IsGrant(q)
<1> DEFINE q == faAnswer(p, code, l)
<1>1. q \in ReplyPacket
  BY FAAnswerType
<1>2. /\ q.type = "REPLY" /\ q.code = code /\ q.link = "foreign" /\ q.lifetime = htons(l)
      /\ q.src = (IF p.src = BroadcastAddr THEN FAPrivate ELSE p.dst)
  BY DEF faAnswer, buildRegistrationReply, UDPIP
<1>3. htons(Passed) = Passed
  BY LifetimesFit DEF Lifetimes
<1>4. q.src # BroadcastAddr
  BY <1>2, MAddressAssumption DEF ProperRequest
<1> HIDE DEF q
<1>5. ProperReply(q)
  BY <1>2, <1>3, <1>4 DEF ProperReply
<1> QED
  BY <1>1, <1>2, <1>5 DEF Proper, Follows, IsRequest, IsGrant, q

LEMMA FAForwards ==
  ASSUME NEW p \in RequestPacket, ProperRequest(p), NEW reading \in Id,
         ~(p.lifetime > FADefaultLifetime)
  PROVE  LET q == faForward(p, reading)
         IN  q \in RequestPacket /\ Proper(q) /\ Follows(q, p) /\ ~IsGrant(q)
<1> DEFINE q == faForward(p, reading)
<1>1. q \in RequestPacket
  BY FAForwardType
<1>2. p.identification # 0 /\ p.type = "REGISTRATION"
  BY MAddressAssumption DEF RequestPacket
<1>3. /\ q.type = "REGISTRATION" /\ q.options = {} /\ q.lifetime = htons(p.lifetime)
      /\ q.home = p.home /\ q.homeAgent = p.homeAgent /\ q.dst = p.homeAgent
      /\ q.careOf = FAPublic /\ q.identification = p.identification
  BY <1>2 DEF faForward, buildRegistrationRequest, UDPIP
<1>4. htons(p.lifetime) = p.lifetime /\ p.lifetime \in {0, Passed} /\ p.lifetime \in Lifetimes
  BY LifetimesFit, LifetimesCut, Zenon DEF ProperRequest
<1> HIDE DEF q
<1>5. ProperRequest(q)
  BY <1>3, <1>4, MAddressAssumption DEF ProperRequest
<1> QED
  BY <1>1, <1>2, <1>3, <1>4, <1>5 DEF Proper, Follows, IsRequest, IsGrant, q

LEMMA FAPassesOn ==
  ASSUME NEW p \in ReplyPacket, ProperReply(p), p.link = "public", NEW port \in Nat
  PROVE  LET q == faPassOn(p, port)
         IN  /\ q \in ReplyPacket /\ Proper(q) /\ Follows(q, p)
             /\ q.link = "foreign" /\ q.identification = p.identification
<1> DEFINE q == faPassOn(p, port)
<1>1. q \in ReplyPacket
  BY FAPassOnType
<1>2. /\ q.type = "REPLY" /\ q.code = p.code /\ q.link = "foreign" /\ q.src = FAPrivate
      /\ q.lifetime = htons(p.lifetime) /\ q.identification = p.identification
  BY DEF faPassOn, buildRegistrationReply, UDPIP
<1>3. p.type = "REPLY" /\ p.code = 0 /\ p.lifetime = Lease /\ Lease # 0
  BY DEF ReplyPacket, ProperReply
<1>4. htons(p.lifetime) = p.lifetime
  BY <1>3, LifetimesFit
<1> HIDE DEF q
<1>5. ProperReply(q)
  BY <1>2, <1>3, <1>4 DEF ProperReply
<1> QED
  BY <1>1, <1>2, <1>3, <1>4, <1>5 DEF Proper, Follows, IsRequest, IsGrant, q

(***************************************************************************)
(* What the registrations granted rest on.  A grant on its way to the node *)
(* has a binding, and behind the foreign agent a visit, for the lease.     *)
(* While the node counts, an agent whose timer fires next has at least     *)
(* what the node counts; the other way round it may be a second less.      *)
(***************************************************************************)
BindingFor(b, n) == BindingLasts(b, MNHome, FAPublic, n)
VisitFor(v, n) == VisitLasts(v, MNHome, HAPublic, n)

Covered(n, g, b, v) ==
  \A p \in n : IsGrant(p) /\ p.identification \in g =>
    /\ p.link \in {"public", "foreign"} => BindingFor(b, Lease)
    /\ p.link = "foreign" => VisitFor(v, Lease)

Slack(t, x) == IF Before(t, x, "mn") THEN 0 ELSE 1

Backed(reg, c, link, b, v, t) ==
  reg => /\ link = "foreign" /\ c <= Lease
         /\ c > Slack(t, "ha") => BindingFor(b, c - Slack(t, "ha"))
         /\ c > Slack(t, "fa") => VisitFor(v, c - Slack(t, "fa"))

TurnsOK(t) == t \in Seq(mProcesses) /\ \E i \in DOMAIN t : t[i] = "mn"

ListsOK(b, v) == b \in Seq(MobilityBindingListItem) /\ v \in Seq(VisitorListItem)

LEMMA CoveredLess ==
  ASSUME NEW n, NEW g, NEW b, NEW v, Covered(n, g, b, v), NEW k, NEW h \in SUBSET g,
         \A p \in k : p \in n \/ ~IsGrant(p)
  PROVE  Covered(k, h, b, v)
BY Zenon DEF Covered

LEMMA NextTurns ==
  ASSUME TurnsOK(turns), NEW x \in mProcesses
  PROVE  /\ TurnsOK(mLast(x)) /\ ~Before(mLast(x), x, "mn")
         /\ \A y : x # "mn" /\ y # x /\ Before(mLast(x), y, "mn") => Before(turns, y, "mn")
<1> DEFINE u == mLast(x)
<1>1. /\ u \in Seq(mProcesses)
      /\ \A i \in DOMAIN turns : \E j \in DOMAIN u : u[j] = turns[i]
      /\ \A y : ~Before(u, x, y)
      /\ \A y, z : y # x /\ z # x /\ Before(u, y, z) => Before(turns, y, z)
  BY MovedBack, Zenon DEF TurnsOK, mLast
<1> HIDE DEF u
<1> QED
  BY <1>1, Zenon DEF TurnsOK, u

LEMMA FirstTurn ==
  ASSUME TurnsOK(turns), NEW x, x = Head(turns), x # "mn"
  PROVE  Before(turns, x, "mn")
<1>1. PICK i \in DOMAIN turns : turns[i] = "mn"
  BY DEF TurnsOK
<1>2. 1 \in DOMAIN turns /\ turns[1] = x /\ 1 < i
  BY <1>1 DEF TurnsOK
<1> QED
  BY <1>1, <1>2 DEF Before

LEMMA BackedKept ==
  ASSUME NEW reg, NEW c \in Nat, NEW link, NEW b, NEW v, NEW t,
         Backed(reg, c, link, b, v, t), NEW d, NEW w,
         \A n \in Nat : n <= Lease /\ BindingFor(b, n) => BindingFor(d, n),
         \A n \in Nat : n <= Lease /\ VisitFor(v, n) => VisitFor(w, n)
  PROVE  Backed(reg, c, link, d, w, t)
<1> SUFFICES ASSUME reg PROVE Backed(reg, c, link, d, w, t)
  BY DEF Backed
<1>1. ASSUME NEW s \in {0, 1}, c > s PROVE c - s \in Nat /\ c - s <= Lease
  BY <1>1, LifetimeFacts DEF Backed
<1>2. Slack(t, "ha") \in {0, 1} /\ Slack(t, "fa") \in {0, 1}
  BY DEF Slack
<1> QED
  BY <1>1, <1>2, Zenon DEF Backed

LEMMA BackedTickHA ==
  ASSUME NEW reg, NEW c \in Nat, NEW link, NEW b, NEW v, ListsOK(b, v),
         Backed(reg, c, link, b, v, turns), TurnsOK(turns), Head(turns) = "ha"
  PROVE  Backed(reg, c, link, decreaseBindings(b), v, mLast("ha"))
<1> DEFINE u == mLast("ha")
<1>1. /\ Before(turns, "ha", "mn") /\ ~Before(u, "ha", "mn")
      /\ Before(u, "fa", "mn") => Before(turns, "fa", "mn")
  BY FirstTurn, NextTurns DEF mProcesses
<1> HIDE DEF u
<1> SUFFICES ASSUME reg PROVE Backed(reg, c, link, decreaseBindings(b), v, u)
  BY DEF Backed, u
<1>2. Slack(turns, "ha") = 0 /\ Slack(u, "ha") = 1
  BY <1>1 DEF Slack
<1>3. c > 1 => BindingFor(decreaseBindings(b), c - 1)
  <2> HAVE c > 1
  <2>1. c - 1 \in Nat /\ c - 1 > 0 /\ (c - 1) + 1 = c /\ c > 0 /\ c - 0 = c
    OBVIOUS
  <2>2. BindingFor(b, c)
    BY <1>2, <2>1 DEF Backed
  <2> QED
    BY <2>1, <2>2, DecreaseLasts DEF BindingFor, ListsOK
<1>4. c > Slack(u, "fa") => VisitFor(v, c - Slack(u, "fa"))
  <2> HAVE c > Slack(u, "fa")
  <2>1. /\ Slack(turns, "fa") \in {0, 1} /\ Slack(u, "fa") \in {0, 1}
        /\ Slack(turns, "fa") <= Slack(u, "fa")
    BY <1>1 DEF Slack
  <2>2. /\ c > Slack(turns, "fa") /\ c - Slack(turns, "fa") \in Nat
        /\ c - Slack(u, "fa") \in Nat /\ c - Slack(u, "fa") <= c - Slack(turns, "fa")
    BY <2>1
  <2>3. VisitFor(v, c - Slack(turns, "fa"))
    BY <2>2 DEF Backed
  <2> QED
    BY <2>2, <2>3, VisitLastsLess DEF VisitFor, ListsOK
<1> QED
  BY <1>2, <1>3, <1>4 DEF Backed

LEMMA BackedTickFA ==
  ASSUME NEW reg, NEW c \in Nat, NEW link, NEW b, NEW v, ListsOK(b, v),
         Backed(reg, c, link, b, v, turns), TurnsOK(turns), Head(turns) = "fa"
  PROVE  Backed(reg, c, link, b, decreaseVisitors(v), mLast("fa"))
<1> DEFINE u == mLast("fa")
<1>1. /\ Before(turns, "fa", "mn") /\ ~Before(u, "fa", "mn")
      /\ Before(u, "ha", "mn") => Before(turns, "ha", "mn")
  BY FirstTurn, NextTurns DEF mProcesses
<1> HIDE DEF u
<1> SUFFICES ASSUME reg PROVE Backed(reg, c, link, b, decreaseVisitors(v), u)
  BY DEF Backed, u
<1>2. Slack(turns, "fa") = 0 /\ Slack(u, "fa") = 1
  BY <1>1 DEF Slack
<1>3. c > 1 => VisitFor(decreaseVisitors(v), c - 1)
  <2> HAVE c > 1
  <2>1. c - 1 \in Nat /\ c - 1 > 0 /\ (c - 1) + 1 = c /\ c > 0 /\ c - 0 = c
    OBVIOUS
  <2>2. VisitFor(v, c)
    BY <1>2, <2>1 DEF Backed
  <2> QED
    BY <2>1, <2>2, DecreaseVisitLasts DEF VisitFor, ListsOK
<1>4. c > Slack(u, "ha") => BindingFor(b, c - Slack(u, "ha"))
  <2> HAVE c > Slack(u, "ha")
  <2>1. /\ Slack(turns, "ha") \in {0, 1} /\ Slack(u, "ha") \in {0, 1}
        /\ Slack(turns, "ha") <= Slack(u, "ha")
    BY <1>1 DEF Slack
  <2>2. /\ c > Slack(turns, "ha") /\ c - Slack(turns, "ha") \in Nat
        /\ c - Slack(u, "ha") \in Nat /\ c - Slack(u, "ha") <= c - Slack(turns, "ha")
    BY <2>1
  <2>3. BindingFor(b, c - Slack(turns, "ha"))
    BY <2>2 DEF Backed
  <2> QED
    BY <2>2, <2>3, LastsLess DEF BindingFor, ListsOK
<1> QED
  BY <1>2, <1>3, <1>4 DEF Backed

\* The node's own second: whoever was a second behind may be level now.
LEMMA BackedSecondLess ==
  ASSUME NEW reg, NEW c \in Nat, NEW link, NEW b, NEW v, ListsOK(b, v), NEW t, NEW u,
         Backed(reg, c, link, b, v, t)
  PROVE  Backed(reg, IF c > 0 THEN c - 1 ELSE c, link, b, v, u)
<1> DEFINE e == IF c > 0 THEN c - 1 ELSE c
<1> SUFFICES ASSUME reg PROVE Backed(reg, e, link, b, v, u)
  BY DEF Backed
<1>1. \A x : Slack(t, x) \in {0, 1} /\ Slack(u, x) \in {0, 1}
  BY DEF Slack
<1>2. ASSUME NEW s \in {0, 1}, NEW r \in {0, 1}, e > r
      PROVE  /\ c > s /\ c - s \in Nat /\ e - r \in Nat /\ e - r <= c - s
  BY <1>2
<1>3. e <= Lease /\ link = "foreign"
  BY LifetimeFacts DEF Backed
<1> HIDE DEF e
<1>4. e > Slack(u, "ha") => BindingFor(b, e - Slack(u, "ha"))
  BY <1>1, <1>2, LastsLess DEF BindingFor, ListsOK, Backed
<1>5. e > Slack(u, "fa") => VisitFor(v, e - Slack(u, "fa"))
  BY <1>1, <1>2, VisitLastsLess DEF VisitFor, ListsOK, Backed
<1> QED
  BY <1>3, <1>4, <1>5 DEF Backed

(***************************************************************************)
(* The inductive invariant: those of the three processes, the limits, what *)
(* is in flight and pending, and what the registration rests on.           *)
(***************************************************************************)
Settings ==
  /\ haMaxLifetime = HADefaultLifetime /\ faMaxLifetime = FADefaultLifetime
  /\ homeAgentPublic = HAPublic /\ mnLink \in {"home", "foreign"} /\ TurnsOK(turns)

ConnectionGood(c) == c.lifetime \in Lifetimes /\ c.agentAddress # BroadcastAddr

Flight ==
  /\ NetGood(net) /\ Linked(net, mnRequests)
  /\ ItemsGood(mnRequests) /\ ConnectionGood(connection)

Held ==
  /\ Covered(net, grants, mobilityBindings, visitors)
  /\ Backed(registered, connection.remainingLifetime, mnLink, mobilityBindings, visitors, turns)

SysInv == HAInv /\ FAInv /\ MNInv /\ Settings /\ Flight /\ Held

LEMMA SysTypes ==
  ASSUME SysInv
  PROVE  /\ ListsOK(mobilityBindings, visitors)
         /\ MNTypeOK /\ mnRequests \in Seq(MNRequestItem)
         /\ connection \in agentConnection
         /\ connection.remainingLifetime \in Nat
<1>1. ListsOK(mobilityBindings, visitors)
  BY Zenon DEF SysInv, HAInv, HATypeOK, FAInv, FATypeOK, ListsOK
<1>2. MNTypeOK
  BY DEF SysInv, MNInv
<1>3. mnRequests \in Seq(MNRequestItem) /\ connection \in agentConnection
  BY <1>2, TypeSplit, Zenon DEF NodeTyped
<1>4. UInt \subseteq Nat
  BY LifetimeFacts DEF UInt
<1> QED
  BY <1>1, <1>2, <1>3, <1>4, Zenon DEF agentConnection

\* A process that takes no part keeps its invariant: only what is in flight changes.
LEMMA HAFrame ==
  ASSUME HAInv, NetGood(net'), UNCHANGED haState
  PROVE  HAInv'
BY Zenon DEF HAInv, HATypeOK, UniqueBindings, BindingsAlive, haState, NetGood

LEMMA FAFrame ==
  ASSUME FAInv, NetGood(net'), UNCHANGED faState
  PROVE  FAInv'
<1> USE Zenon
<1>1. \A p \in net' : ~ZeroGrant(p)
  BY DEF NetGood, ZeroGrant, faGetsReply, Proper, ProperReply
<1>2. UNCHANGED <<faRequests, visitors, faMaxLifetime, requestTimeout, maxPending>>
  BY DEF faState, faLists, faLimits
<1> QED
  BY <1>1, <1>2 DEF FAInv, FATypeOK, UniqueVisitors, PendingClocksAgree,
                           PendingBounded, VisitorsAlive, NetGood

LEMMA MNFrame ==
  ASSUME MNInv, NetGood(net'), UNCHANGED <<mnRest, solVars>>
  PROVE  MNInv'
<1> USE Zenon
<1>1. NodeTyped /\ SolTyped
  BY TypeSplit , SMTT(60) DEF MNInv
<1>2. NetTyped(net')
  BY DEF NetGood, NetTyped, MNPacket
<1>3. NodeTyped' /\ SolTyped'
  BY <1>1, <1>2 DEF NodeTyped, SolTyped, mnRest, solVars
<1>4. MNTypeOK'
  BY <1>3, TypeSplit, PTL
<1> QED
  BY <1>4 DEF MNInv, ElementsAgree, SilenceIsNoticed, mnRest, solVars

(***************************************************************************)
(* Steps of the node and of the links.  No grant is on its way after them  *)
(* that was not before.                                                    *)
(***************************************************************************)
LEMMA SysNodeStep ==
  ASSUME SysInv, MNInv', UNCHANGED <<haState, faState, homeAgentPublic>>,
         mnLink' \in {"home", "foreign"}, TurnsOK(turns'), NEW k \in SUBSET grants, grants' = k,
         NetGood(net'), \A q \in net' : q \in net \/ ~IsGrant(q),
         Linked(net', mnRequests'), ItemsGood(mnRequests'), ConnectionGood(connection'),
         Backed(registered', connection'.remainingLifetime, mnLink', mobilityBindings,
                visitors, turns')
  PROVE  SysInv'
<1> USE Zenon
<1>1. /\ homeAgentPublic' = homeAgentPublic
      /\ mobilityBindings' = mobilityBindings /\ visitors' = visitors
      /\ haMaxLifetime' = haMaxLifetime /\ faMaxLifetime' = faMaxLifetime
  BY DEF haState, faState, faLists, faLimits
<1>2. HAInv' /\ FAInv'
  BY HAFrame, FAFrame DEF SysInv
<1>3. Flight' /\ Settings'
  BY <1>1 DEF SysInv, Flight, Settings
<1>4. Covered(net', grants', mobilityBindings, visitors)
  BY CoveredLess DEF SysInv, Held
<1>5. Held'
  BY <1>1, <1>4 DEF Held
<1> QED
  BY <1>2, <1>3, <1>5 DEF SysInv

\* Packets go, and the node's requests stay as they are.
LEMMA SysSilent ==
  ASSUME SysInv, MNInv', UNCHANGED <<haState, faState, homeAgentPublic, mnRequests, connection>>,
         mnLink' \in {"home", "foreign"}, turns' = turns, net' \in SUBSET net,
         NEW k \in SUBSET grants, grants' = k,
         registered' => registered /\ mnLink' = mnLink
  PROVE  SysInv'
<1> USE Zenon
<1>1. NetGood(net') /\ Linked(net', mnRequests)
  BY Fewer DEF SysInv, Flight
<1>2. /\ mnRequests' = mnRequests /\ connection' = connection
      /\ ItemsGood(mnRequests) /\ ConnectionGood(connection) /\ TurnsOK(turns)
      /\ Backed(registered, connection.remainingLifetime, mnLink, mobilityBindings,
                visitors, turns)
  BY DEF SysInv, Flight, Settings, Held
<1>3. Backed(registered', connection.remainingLifetime, mnLink', mobilityBindings,
             visitors, turns)
  BY <1>2 DEF Backed
<1> QED
  BY <1>1, <1>2, <1>3, SysNodeStep

\* The node sends requests.
LEMMA SysSends ==
  ASSUME SysInv, MNInv', UNCHANGED <<haState, faState, homeAgentPublic, mnLink>>,
         NEW received, NEW pending \in Seq(MNRequestItem), NEW asks \in Seq(Ask),
         mnSend(received, pending, asks, homeAgentPublic), mReadings,
         StemsFrom(pending, mnRequests), AsksGood(asks), ConnectionGood(connection'),
         TurnsOK(turns'), NEW k \in SUBSET grants, grants' = k,
         Backed(registered', connection'.remainingLifetime, mnLink, mobilityBindings,
                visitors, turns')
  PROVE  SysInv'
<1> USE Zenon
<1>1. /\ homeAgentPublic = HAPublic /\ mnLink \in {"home", "foreign"} /\ NetGood(net)
      /\ mnLink' = mnLink
  BY DEF SysInv, Settings, Flight
<1>2. Linked(net, pending) /\ ItemsGood(pending)
  BY Stemming DEF SysInv, Flight
<1>3. mnRequests' \in Seq(MNRequestItem)
  BY DEF MNInv, MNTypeOK
<1>4. mnSend(received, pending, asks, HAPublic)
  BY <1>1
<1>5. /\ NetGood(net') /\ Linked(net', mnRequests') /\ ItemsGood(mnRequests')
      /\ \A q \in net' : q \in net \ received \/ IsRequest(q)
  BY <1>1, <1>2, <1>3, <1>4, SendGood
<1>6. \A q : IsRequest(q) => ~IsGrant(q)
  BY SMTT(60) DEF IsRequest, IsGrant
<1>7. \A q \in net' : q \in net \/ ~IsGrant(q)
  BY <1>5, <1>6
<1> QED
  BY <1>1, <1>5, <1>7, SysNodeStep

LEMMA OneAsk ==
  ASSUME NEW d \in Addr, d # BroadcastAddr, NEW c \in Addr, NEW l \in Lifetimes
  PROVE  <<ask(d, c, l)>> \in Seq(Ask) /\ AsksGood(<<ask(d, c, l)>>)
<1>1. ask(d, c, l) \in Ask
  BY LifetimesFit, MNAsk
<1>2. ask(d, c, l).destination = d /\ ask(d, c, l).lifetime = l
  BY DEF ask
<1> QED
  BY <1>1, <1>2 DEF AsksGood

(***************************************************************************)
(* The home agent takes a packet.                                          *)
(***************************************************************************)
LEMMA SysHomeAgent ==
  ASSUME SysInv, NEW p \in net, MPHomeAgent(p)
  PROVE  SysInv'
<1> USE Zenon
<1> DEFINE B == mobilityBindings
           c == connection.remainingLifetime
<1>1. /\ mHAGets(p) /\ HAPush(p)
      /\ grants' = IF HADeregister(p) THEN {}
                   ELSE IF HARegister(p) THEN grants \cup {p.identification} ELSE grants
      /\ registered' = (registered /\ ~HADeregister(p))
      /\ UNCHANGED faState /\ UNCHANGED mnRest /\ UNCHANGED solVars /\ turns' = turns
  BY DEF MPHomeAgent
<1>2. /\ mnRequests' = mnRequests /\ connection' = connection
      /\ homeAgentPublic' = homeAgentPublic /\ mnLink' = mnLink
      /\ visitors' = visitors /\ faMaxLifetime' = faMaxLifetime
  BY <1>1 DEF faState, faLists, faLimits, mnRest
<1>3. HAInv' /\ haMaxLifetime' = haMaxLifetime
  <2>1. HAInv'
    BY <1>1, HANextInv DEF SysInv, HANext, HAStep
  <2> QED
    BY <1>1, <2>1 DEF HAPush, HAIgnore, HARefuse, HAUnknown, HADeregister, HARegister
<1>4. /\ p.type = "REGISTRATION" /\ p.link \in {"home", "public"}
      /\ p.dst \in {HAPrivate, HAPublic, BroadcastAddr}
  BY <1>1 DEF mHAGets, HAPush, HAIgnore, HARefuse, HAUnknown, HADeregister, HARegister,
              haReceives, haAccepts
<1>5. p \in RequestPacket /\ ProperRequest(p) /\ p.dst \in {HAPrivate, HAPublic}
  <2>1. p \in RequestPacket \cup ReplyPacket /\ ProperRequest(p)
    BY <1>4 DEF SysInv, Flight, NetGood, Proper, IsRequest
  <2> QED
    BY <1>4, <2>1, RequestIsRequest DEF ProperRequest
<1>6. NetGood(net) /\ Linked(net, mnRequests) /\ Covered(net, grants, B, visitors)
      /\ Backed(registered, c, mnLink, B, visitors, turns)
  BY DEF SysInv, Flight, Held
<1>q. ASSUME NetGood(net'), Linked(net', mnRequests), Covered(net', grants', B', visitors),
             Backed(registered', c, mnLink, B', visitors, turns)
      PROVE  SysInv'
  <2>1. FAInv' /\ MNInv'
    BY <1>1, <1>q, FAFrame, MNFrame DEF SysInv
  <2>2. Settings' /\ Flight' /\ Held'
    BY <1>1, <1>2, <1>3, <1>q DEF SysInv, Settings, Flight, Held
  <2> QED
    BY <1>3, <2>1, <2>2 DEF SysInv
<1>7. CASE HAIgnore(p)
  <2>1. net' \in SUBSET net /\ B' = B
    BY <1>7 DEF HAIgnore, haConsume
  <2>2. ~HADeregister(p) /\ ~HARegister(p)
    BY <1>7 DEF HAIgnore, HADeregister, HARegister, haAccepts
  <2>3. grants' = grants /\ (registered' => registered)
    BY <1>1, <2>2
  <2>4. NetGood(net') /\ Linked(net', mnRequests)
    BY <1>6, <2>1, Fewer
  <2>5. Covered(net', grants, B, visitors)
    BY <1>6, <2>1, CoveredLess
  <2>6. Backed(registered', c, mnLink, B, visitors, turns)
    BY <1>6, <2>3 DEF Backed
  <2> QED
    BY <1>q, <2>1, <2>3, <2>4, <2>5, <2>6
<1>8. haRefusal(p) = 0 /\ haIsMine(p)
  BY <1>5 , SMTT(60) DEF ProperRequest, haRefusal, haIsMine
<1>9. CASE HADeregister(p)
  <2> DEFINE q == haReply(p, 0, 0)
  <2>1. net' = (net \ {p}) \cup {q}
    BY <1>9 DEF HADeregister, haConsume
  <2>2. q \in ReplyPacket /\ Proper(q) /\ Follows(q, p)
    BY <1>4, <1>5, HAAnswers
  <2> HIDE DEF q
  <2>3. NetGood(net') /\ Linked(net', mnRequests)
    BY <1>6, <2>1, <2>2, Answered
  <2>4. grants' = {} /\ ~registered'
    BY <1>1, <1>9
  <2> QED
    BY <1>q, <2>3, <2>4 DEF Covered, Backed
<1>10. CASE HARegister(p)
  <2> DEFINE l == Minimum(p.lifetime, HADefaultLifetime)
             q == haReply(p, 0, l)
  <2>1. /\ net' = (net \ {p}) \cup {q} /\ p.lifetime # 0
        /\ B' = addBinding(B, MNHome, p.careOf, l)
    BY <1>5, <1>10
       DEF HARegister, haConsume, haGranted, ProperRequest, SysInv, Settings
  <2>2. /\ q \in ReplyPacket /\ Proper(q) /\ Follows(q, p)
        /\ q.link # "foreign" /\ q.identification = p.identification
        /\ q.link = "public" => p.link = "public"
    BY <1>4, <1>5, <2>1, HAAnswers
  <2> HIDE DEF q
  <2>3. NetGood(net') /\ Linked(net', mnRequests)
    BY <1>6, <2>1, <2>2, Answered
  <2>4. l \in UInt /\ l \in Nat /\ Lease <= l
    <3>1. p.lifetime \in Lifetimes /\ p.lifetime \in UInt /\ p.lifetime \in Nat
      BY <1>5, LifetimesFit , SMTT(60) DEF ProperRequest
    <3> QED
      BY <2>1, <3>1, LifetimeFacts , SMTT(60) DEF Lifetimes, Lease, Minimum
  <2>5. ~HADeregister(p)
    BY <2>1 DEF HADeregister
  <2>6. grants' = grants \cup {p.identification} /\ (registered' => registered)
    BY <1>1, <1>10, <2>5
  <2> HIDE DEF l
  <2>7. ASSUME NEW n \in Nat, n <= Lease, BindingFor(B, n) \/ p.careOf = FAPublic
        PROVE  BindingFor(B', n)
    <3>1. n <= l
      BY <2>4, <2>7, LifetimeFacts, SMTT(60)
    <3>2. MNHome \in Addr /\ p.careOf \in Addr
      BY <1>5, MNAssumption , SMTT(60) DEF RequestPacket
    <3>3. B \in Seq(MobilityBindingListItem)
      BY SysTypes , SMTT(60) DEF ListsOK
    <3> QED
      BY <2>1, <2>4, <2>7, <3>1, <3>2, <3>3, AddLasts , SMTT(60) DEF BindingFor
  <2>8. Lease \in Nat /\ Lease <= Lease
    BY LifetimeFacts, SMTT(60)
  <2>9. Covered(net', grants', B', visitors)
    <3> SUFFICES ASSUME NEW x \in net', IsGrant(x), x.identification \in grants'
                 PROVE  /\ x.link \in {"public", "foreign"} => BindingFor(B', Lease)
                        /\ x.link = "foreign" => VisitFor(visitors, Lease)
      BY DEF Covered
    <3>1. CASE x = q
      <4>1. x.link \in {"public", "foreign"} => p.careOf = FAPublic
        BY <1>5, <2>2, <3>1 , SMTT(60) DEF ProperRequest
      <4> QED
        BY <2>2, <2>7, <2>8, <3>1, <4>1
    <3>2. CASE x \in net /\ x # p
      <4>1. x.identification # p.identification
        BY <1>4, <1>6, <3>2 DEF NetGood, Distinct, IsRequest
      <4>2. x.identification \in grants
        BY <2>6, <4>1, SMTT(60)
      <4> QED
        BY <1>6, <2>7, <2>8, <3>2, <4>2 DEF Covered
    <3> QED
      BY <2>1, <3>1, <3>2
  <2>10. Backed(registered, c, mnLink, B', visitors, turns)
    BY <1>6, <2>7, BackedKept, SysTypes
  <2>11. Backed(registered', c, mnLink, B', visitors, turns)
    BY <2>6, <2>10 DEF Backed
  <2> QED
    BY <1>q, <2>3, <2>9, <2>11
<1> QED
  BY <1>1, <1>7, <1>8, <1>9, <1>10 DEF HAPush, HARefuse, HAUnknown

(***************************************************************************)
(* The foreign agent takes a packet.                                       *)
(***************************************************************************)
LEMMA SysForeignAgent ==
  ASSUME SysInv, NEW p \in net, MPForeignAgent(p)
  PROVE  SysInv'
<1> USE Zenon
<1> DEFINE B == mobilityBindings
           c == connection.remainingLifetime
<1>1. /\ FAPush(p) /\ UNCHANGED haState /\ UNCHANGED mnRest /\ UNCHANGED solVars
      /\ turns' = turns /\ grants' = grants /\ registered' = registered
  BY DEF MPForeignAgent, mpVars
<1>2. /\ mnRequests' = mnRequests /\ connection' = connection
      /\ homeAgentPublic' = homeAgentPublic /\ mnLink' = mnLink
      /\ B' = B /\ haMaxLifetime' = haMaxLifetime
  BY <1>1 DEF haState, mnRest
<1>3. FAInv' /\ faMaxLifetime' = faMaxLifetime
  <2>1. FAInv'
    BY <1>1, FAPushInv DEF SysInv
  <2> QED
    BY <1>1, <2>1
       DEF FAPush, FAIgnore, FARefuse, relayRequest, FAMismatch, relayReply, faLimits
<1>4. /\ NetGood(net) /\ Linked(net, mnRequests) /\ Covered(net, grants, B, visitors)
      /\ Backed(registered, c, mnLink, B, visitors, turns)
      /\ faMaxLifetime = FADefaultLifetime /\ Proper(p) /\ p \in RequestPacket \cup ReplyPacket
  BY DEF SysInv, Flight, Held, Settings, NetGood
<1>q. ASSUME NetGood(net'), Linked(net', mnRequests), Covered(net', grants, B, visitors'),
             Backed(registered, c, mnLink, B, visitors', turns)
      PROVE  SysInv'
  <2>1. HAInv' /\ MNInv'
    BY <1>1, <1>q, HAFrame, MNFrame DEF SysInv
  <2>2. Settings' /\ Flight' /\ Held'
    BY <1>1, <1>2, <1>3, <1>q DEF SysInv, Settings, Flight, Held
  <2> QED
    BY <1>3, <2>1, <2>2 DEF SysInv
\* Nothing is sent, or something that is no grant.
<1>5. ASSUME net' \in SUBSET net, visitors' = visitors
      PROVE  SysInv'
  <2>1. NetGood(net') /\ Linked(net', mnRequests)
    BY <1>4, <1>5, Fewer
  <2>2. Covered(net', grants, B, visitors)
    BY <1>4, <1>5, CoveredLess
  <2> QED
    BY <1>4, <1>5, <1>q, <2>1, <2>2
<1>6. ASSUME NEW q \in RequestPacket \cup ReplyPacket, Proper(q), Follows(q, p), ~IsGrant(q),
             net' = (net \ {p}) \cup {q}, visitors' = visitors
      PROVE  SysInv'
  <2>1. NetGood(net') /\ Linked(net', mnRequests)
    BY <1>4, <1>6, Answered
  <2>2. Covered(net', grants, B, visitors)
    BY <1>4, <1>6, CoveredLess
  <2> QED
    BY <1>4, <1>6, <1>q, <2>1, <2>2
<1>7. CASE FAIgnore(p) \/ FAMismatch(p)
  <2>1. net' \in SUBSET net /\ visitors' = visitors
    BY <1>7 DEF FAIgnore, FAMismatch, faConsume, faLists
  <2> QED
    BY <1>5, <2>1
<1>8. ASSUME faValid(p) PROVE p \in RequestPacket /\ ProperRequest(p)
  BY <1>4, <1>8, RequestIsRequest DEF faValid, faGetsRequest, Proper, IsRequest
<1>9. CASE FARefuse(p)
  <2> DEFINE k == faRefusal(p)
             l == IF k = 69 THEN FADefaultLifetime ELSE p.lifetime
             q == faAnswer(p, k, l)
  <2>1. p \in RequestPacket /\ ProperRequest(p)
    BY <1>8, <1>9 DEF FARefuse
  <2>2. net' = (net \ {p}) \cup {q} /\ visitors' = visitors /\ k # 0
    BY <1>4, <1>9 DEF FARefuse, faConsume, faLists
  <2>3. k \in {66, 69, 77} /\ (k = 69 => p.lifetime > FADefaultLifetime)
    <3>1. faMaxLifetime = FADefaultLifetime /\ faRefusal(p) # 0
      BY <1>4, <2>2
    <3>2. p.options = {}
      BY <2>1 DEF ProperRequest
    <3> QED
      BY <3>1, <3>2, SMTT(60) DEF faRefusal
  <2>4. p.lifetime \in Nat /\ p.lifetime \in Lifetimes
    BY <2>1, LifetimesFit , SMTT(60) DEF ProperRequest
  <2>5. k \in Nat \ {0, 1, 136} /\ l \in Nat /\ (k = 69 => l = Passed)
    BY <2>3, <2>4, LifetimesCut, LifetimeFacts, SMTT(60)
  <2> HIDE DEF k, l
  <2> QED
    BY <1>6, <2>1, <2>2, <2>5, FAAnswers
<1>10. CASE relayRequest(p)
  <2>1. p \in RequestPacket /\ ProperRequest(p)
    BY <1>8, <1>10 DEF relayRequest
  <2>2. PICK reading \in Id : net' = (net \ {p}) \cup {faForward(p, reading)}
    BY <1>10 DEF relayRequest, faConsume
  <2>3. visitors' = visitors /\ ~(p.lifetime > FADefaultLifetime)
    <3>1. visitors' = visitors /\ faRefusal(p) = 0 /\ faMaxLifetime = FADefaultLifetime
      BY <1>4, <1>10 DEF relayRequest
    <3> QED
      BY <3>1, SMTT(60) DEF faRefusal
  <2> QED
    BY <1>6, <2>1, <2>2, <2>3, FAForwards
<1>11. CASE relayReply(p)
  <2> DEFINE request == foundRequest(faRequests, p.identification)
             q == faPassOn(p, request.rr.sport)
  <2>1. p.type = "REPLY" /\ p.link = "public"
    BY <1>11 DEF relayReply, faAnswers, faGetsReply
  <2>2. p \in ReplyPacket /\ ProperReply(p)
    BY <1>4, <2>1, ReplyIsReply DEF Proper
  <2>3. /\ p.code = 0 /\ p.lifetime = Lease /\ Lease # 0
        /\ p.home = MNHome /\ p.homeAgent = HAPublic
    BY <2>1, <2>2 DEF ProperReply
  <2>4. /\ net' = (net \ {p}) \cup {q} /\ visitors' = faAccepted(visitors, p, request)
        /\ RequestsOf(faRequests, p.identification) # {}
    BY <1>11, <2>3 , SMTT(60) DEF relayReply, faConsume, faAnswers
  <2>5. request \in FARequestItem /\ visitors \in Seq(VisitorListItem)
    BY <2>4, RemoveRequest DEF SysInv, FAInv, FATypeOK
  <2> HIDE DEF request
  <2>6. request.rr.sport \in Nat
    <3>1. request.rr \in RequestPacket
      BY <2>5 , SMTT(60) DEF FARequestItem
    <3> QED
      BY <3>1 , SMTT(60) DEF RequestPacket
  <2>7. /\ q \in ReplyPacket /\ Proper(q) /\ Follows(q, p)
        /\ q.link = "foreign" /\ q.identification = p.identification
    BY <2>1, <2>2, <2>6, FAPassesOn
  <2> HIDE DEF q
  <2>8. NetGood(net') /\ Linked(net', mnRequests)
    BY <1>4, <2>4, <2>7, Answered
  <2>9. VisitFor(visitors', Lease)
    <3>1. faMaxLifetime \in UInt /\ Minimum(Lease, faMaxLifetime) = Lease
      BY <1>4, FAAssumption, LifetimesCut , SMTT(60) DEF Lifetimes
    <3> QED
      BY <2>2, <2>3, <2>4, <2>5, <3>1, AcceptedLasts DEF VisitFor
  <2>10. ASSUME NEW n \in Nat, n <= Lease PROVE VisitFor(visitors', n)
    <3>1. visitors' \in Seq(VisitorListItem)
      BY <1>3 DEF FAInv, FATypeOK
    <3> QED
      BY <2>9, <2>10, <3>1, LifetimeFacts, VisitLastsLess DEF VisitFor
  <2>11. Covered(net', grants, B, visitors')
    <3>1. IsGrant(p)
      BY <2>1, <2>3 , SMTT(60) DEF IsGrant
    <3>2. \A x \in net' : x \in net \/ x = q
      BY <2>4
    <3> QED
      BY <1>4, <2>1, <2>7, <2>9, <3>1, <3>2 DEF Covered
  <2>12. Backed(registered, c, mnLink, B, visitors', turns)
    BY <1>4, <2>10, BackedKept, SysTypes
  <2> QED
    BY <1>q, <2>8, <2>11, <2>12
<1> QED
  BY <1>1, <1>7, <1>9, <1>10, <1>11 DEF FAPush
=============================================================================
