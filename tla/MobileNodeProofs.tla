-------------------------- MODULE MobileNodeProofs --------------------------
(***************************************************************************)
(* The mobile node's invariants, for every set of addresses, lifetimes,    *)
(* advertisements and replies, whatever the uninitialised lifetimes hold   *)
(* and however many requests are pending.                                  *)
(***************************************************************************)
EXTENDS MobileIPSoliciter, CommonProofs

\* A leaf goes to the SMT solver, with a minute, unless it names a prover; then
\* to Zenon, and to the SMT solver once more.
USE SMTT(60), ZenonT(30), SMTT(90)

\* What may be in flight around the node.
MNPacket == RequestPacket \cup ReplyPacket \cup AdvertPacket \cup SolicitationPacket
NetTyped(n) == n \subseteq MNPacket

(***************************************************************************)
(* The list of pending requests.                                           *)
(***************************************************************************)
SameRequest(r, s) ==
  /\ r.identification = s.identification /\ r.destination = s.destination
  /\ r.requestedLifetime = s.requestedLifetime

\* Every request of w is one of v, maybe older.
StemsFrom(w, v) == \A i \in DOMAIN w : \E k \in DOMAIN v : SameRequest(w[i], v[k])

LEMMA StemsTransitive ==
  ASSUME NEW u, NEW v, NEW w, StemsFrom(w, v), StemsFrom(v, u)
  PROVE  StemsFrom(w, u)
<1> SUFFICES ASSUME NEW i \in DOMAIN w
             PROVE  \E k \in DOMAIN u : SameRequest(w[i], u[k])
  BY DEF StemsFrom
<1>1. PICK j \in DOMAIN v : SameRequest(w[i], v[j])
  BY DEF StemsFrom
<1>2. PICK k \in DOMAIN u : SameRequest(v[j], u[k])
  BY DEF StemsFrom
<1> QED
  BY <1>1, <1>2 DEF SameRequest

LEMMA MNDecreaseRequests ==
  ASSUME NEW v \in Seq(MNRequestItem)
  PROVE  /\ decreaseRequests(v) \in Seq(MNRequestItem)
         /\ StemsFrom(decreaseRequests(v), v)
<1> DEFINE f(r) == IF CountsDown(r)
                   THEN [r EXCEPT !.remainingLifetime = MinusOne(@)] ELSE r
           a == [i \in DOMAIN v |-> f(v[i])]
           K == {i \in DOMAIN v : CountsDown(v[i]) => v[i].remainingLifetime # 0}
<1>1. ASSUME NEW r \in MNRequestItem
      PROVE  f(r) \in MNRequestItem /\ SameRequest(f(r), r)
  <2>1. r.remainingLifetime \in UInt
    BY DEF MNRequestItem
  <2>2. MinusOne(r.remainingLifetime) \in UInt
    BY <2>1, PacketAssumption DEF MinusOne, UInt
  <2> QED
    BY <2>2 DEF MNRequestItem, SameRequest
<1>2. \A i \in DOMAIN v : v[i] \in MNRequestItem
  OBVIOUS
<1> HIDE DEF f
<1>3. /\ a \in Seq(MNRequestItem) /\ DOMAIN a = DOMAIN v
      /\ \A i \in DOMAIN v : SameRequest(a[i], v[i])
  BY <1>1, <1>2
<1>4. decreaseRequests(v) = Retain(a, K)
  BY DEF decreaseRequests, f
<1>5. K \in SUBSET (DOMAIN a)
  BY <1>3
<1> HIDE DEF a, K
<1>6. /\ Retain(a, K) \in Seq(MNRequestItem)
      /\ \A i \in DOMAIN Retain(a, K) : \E j \in K : Retain(a, K)[i] = a[j]
  BY <1>3, <1>5, RetainElements
<1>7. StemsFrom(Retain(a, K), v)
  BY <1>3, <1>5, <1>6 DEF StemsFrom
<1> QED
  BY <1>4, <1>6, <1>7

LEMMA MNWaited ==
  ASSUME NEW v \in Seq(MNRequestItem)
  PROVE  /\ Waited(v) \in Seq(MNRequestItem) /\ DOMAIN Waited(v) = DOMAIN v
         /\ \A i \in DOMAIN v : SameRequest(Waited(v)[i], v[i])
<1> DEFINE g(r) == [r EXCEPT !.waitingTime = @ + 1]
<1>1. ASSUME NEW r \in MNRequestItem
      PROVE  g(r) \in MNRequestItem /\ SameRequest(g(r), r)
  BY DEF MNRequestItem, SameRequest
<1>2. \A i \in DOMAIN v : v[i] \in MNRequestItem
  OBVIOUS
<1>3. Waited(v) = [i \in DOMAIN v |-> g(v[i])]
  BY DEF Waited
<1> HIDE DEF g
<1> QED
  BY <1>1, <1>2, <1>3

LEMMA MNTimedOut ==
  ASSUME NEW v \in Seq(MNRequestItem), NEW t \in Nat
  PROVE  /\ stillWaiting(v, t) \in Seq(MNRequestItem) /\ StemsFrom(stillWaiting(v, t), v)
         /\ timedOut(v, t) \in Seq(MNRequestItem) /\ StemsFrom(timedOut(v, t), v)
<1>1. /\ Waited(v) \in Seq(MNRequestItem) /\ DOMAIN Waited(v) = DOMAIN v
      /\ \A i \in DOMAIN v : SameRequest(Waited(v)[i], v[i])
  BY MNWaited
<1>2. ASSUME NEW K \in SUBSET (DOMAIN v)
      PROVE  Retain(Waited(v), K) \in Seq(MNRequestItem) /\ StemsFrom(Retain(Waited(v), K), v)
  <2>1. /\ Retain(Waited(v), K) \in Seq(MNRequestItem)
        /\ \A i \in DOMAIN Retain(Waited(v), K) :
             \E j \in K : Retain(Waited(v), K)[i] = Waited(v)[j]
    BY <1>1, RetainElements
  <2> QED
    BY <1>1, <2>1 DEF StemsFrom
<1>3. stillWaiting(v, t) \in Seq(MNRequestItem) /\ StemsFrom(stillWaiting(v, t), v)
  BY <1>2 DEF stillWaiting
<1>4. timedOut(v, t) \in Seq(MNRequestItem) /\ StemsFrom(timedOut(v, t), v)
  BY <1>2 DEF timedOut
<1> QED
  BY <1>3, <1>4

LEMMA MNRemoveRequest ==
  ASSUME NEW v \in Seq(MNRequestItem), NEW id, NEW k \in DOMAIN v, v[k].identification = id
  PROVE  /\ foundRequest(v, id) \in MNRequestItem
         /\ \E j \in DOMAIN v : foundRequest(v, id) = v[j] /\ v[j].identification = id
         /\ removeRequest(v, id) \in Seq(MNRequestItem)
         /\ StemsFrom(removeRequest(v, id), v)
<1> DEFINE R == RequestsOf(v, id)
           first == FirstOf(R)
<1>1. R # {} /\ R \in SUBSET Nat /\ R \in SUBSET (DOMAIN v)
  BY DEF RequestsOf
<1>2. first \in DOMAIN v /\ v[first].identification = id
  <2>1. first \in R
    BY <1>1, FirstOfMember
  <2> QED
    BY <2>1 DEF RequestsOf
<1>3. /\ foundRequest(v, id) = v[first]
      /\ removeRequest(v, id) = Retain(v, DOMAIN v \ {first})
  BY DEF foundRequest, removeRequest, EraseAt
<1> HIDE DEF first
<1>4. v[first] \in MNRequestItem
  BY <1>2
<1> DEFINE K == DOMAIN v \ {first}
<1>5. K \in SUBSET (DOMAIN v)
  OBVIOUS
<1> HIDE DEF K
<1>6. /\ Retain(v, K) \in Seq(MNRequestItem)
      /\ \A i \in DOMAIN Retain(v, K) : \E j \in K : Retain(v, K)[i] = v[j]
  BY <1>5, RetainElements
<1>7. StemsFrom(Retain(v, K), v)
  BY <1>5, <1>6 DEF StemsFrom, SameRequest
<1> QED
  BY <1>2, <1>3, <1>4, <1>6, <1>7 DEF K

(***************************************************************************)
(* sendRequest, called once for every element of asks, leaves well-formed  *)
(* requests on the list and on the link.                                   *)
(***************************************************************************)
Ask == [destination: Addr, careOf: Addr, lifetime: UInt]

LEMMA MNAsk ==
  ASSUME NEW d \in Addr, NEW c \in Addr, NEW l \in UInt
  PROVE  ask(d, c, l) \in Ask
BY DEF ask, Ask

LEMMA MNSendTyped ==
  ASSUME MNTypeOK, NEW received, NEW pending \in Seq(MNRequestItem),
         NEW asks \in Seq(Ask), NEW homeAgent \in Addr,
         mnSend(received, pending, asks, homeAgent)
  PROVE  /\ mnRequests' \in Seq(MNRequestItem)
         /\ mnAllocated' \in BOOLEAN
         /\ NetTyped(net')
<1>1. PICK ids \in [DOMAIN asks -> Id], junk \in [DOMAIN asks -> MNGarbage] :
      \E readings \in [{i \in DOMAIN asks : ids[i] = 0} -> Id] :
        /\ mnRequests' = pending \o
             [i \in DOMAIN asks |->
                [destination |-> asks[i].destination, careOfAddress |-> asks[i].careOf,
                 identification |-> ids[i], requestedLifetime |-> asks[i].lifetime,
                 remainingLifetime |-> junk[i], waitingTime |-> 0]]
        /\ mnAllocated' = (mnAllocated \/ asks # <<>>)
        /\ net' = (net \ received) \cup
             {buildRegistrationRequest(
                UDPIP(mnLink, MNHome, NodePort, asks[i].destination, RegistrationPort),
                asks[i].lifetime, MNHome, homeAgent, asks[i].careOf, ids[i], readings[i])
              : i \in DOMAIN asks}
  BY Zenon DEF mnSend
<1>2. PICK readings \in [{i \in DOMAIN asks : ids[i] = 0} -> Id] :
        /\ mnRequests' = pending \o
             [i \in DOMAIN asks |->
                [destination |-> asks[i].destination, careOfAddress |-> asks[i].careOf,
                 identification |-> ids[i], requestedLifetime |-> asks[i].lifetime,
                 remainingLifetime |-> junk[i], waitingTime |-> 0]]
        /\ mnAllocated' = (mnAllocated \/ asks # <<>>)
        /\ net' = (net \ received) \cup
             {buildRegistrationRequest(
                UDPIP(mnLink, MNHome, NodePort, asks[i].destination, RegistrationPort),
                asks[i].lifetime, MNHome, homeAgent, asks[i].careOf, ids[i], readings[i])
              : i \in DOMAIN asks}
  BY <1>1, Zenon
<1>3. ASSUME NEW i \in DOMAIN asks
      PROVE  /\ asks[i].destination \in Addr /\ asks[i].careOf \in Addr
             /\ asks[i].lifetime \in UInt /\ asks[i].lifetime \in Nat
             /\ ids[i] \in Id /\ junk[i] \in UInt
             /\ ids[i] = 0 => readings[i] \in Id
  <2>1. asks[i] \in Ask
    OBVIOUS
  <2>2. /\ asks[i].destination \in Addr /\ asks[i].careOf \in Addr
        /\ asks[i].lifetime \in UInt
    BY <2>1 DEF Ask
  <2>3. UInt \subseteq Nat
    BY PacketAssumption DEF UInt
  <2>4. ids[i] \in Id /\ junk[i] \in MNGarbage /\ (ids[i] = 0 => readings[i] \in Id)
    OBVIOUS
  <2> QED
    BY <2>2, <2>3, <2>4, MNAssumption, Zenon
<1> DEFINE item(i) == [destination |-> asks[i].destination, careOfAddress |-> asks[i].careOf,
                       identification |-> ids[i], requestedLifetime |-> asks[i].lifetime,
                       remainingLifetime |-> junk[i], waitingTime |-> 0]
           sent(i) == buildRegistrationRequest(
                UDPIP(mnLink, MNHome, NodePort, asks[i].destination, RegistrationPort),
                asks[i].lifetime, MNHome, homeAgent, asks[i].careOf, ids[i], readings[i])
           new == [i \in DOMAIN asks |-> item(i)]
<1>4. mnRequests' \in Seq(MNRequestItem)
  <2>1. ASSUME NEW i \in DOMAIN asks PROVE item(i) \in MNRequestItem
    BY <1>3 DEF MNRequestItem
  <2>2. mnRequests' = pending \o new
    BY <1>2
  <2> HIDE DEF item
  <2>3. new \in Seq(MNRequestItem)
    <3>1. DOMAIN asks = 1..Len(asks) /\ Len(asks) \in Nat
      OBVIOUS
    <3>2. new \in [1..Len(asks) -> MNRequestItem]
      BY <2>1, <3>1
    <3> QED
      BY <3>1, <3>2
  <2> HIDE DEF new
  <2> QED
    BY <2>2, <2>3
<1>5. mnAllocated' \in BOOLEAN
  BY <1>2
<1>6. NetTyped(net')
  <2>1. mnLink \in Link /\ NodePort \in Nat /\ RegistrationPort \in Nat /\ MNHome \in Addr
    BY MNAssumption DEF MNTypeOK, NodePort, RegistrationPort
  <2>2. ASSUME NEW i \in DOMAIN asks PROVE sent(i) \in RequestPacket
    <3>1. /\ asks[i].destination \in Addr /\ asks[i].careOf \in Addr
          /\ asks[i].lifetime \in Nat /\ ids[i] \in Id
          /\ ids[i] = 0 => readings[i] \in Id
      BY <1>3
    <3>2. ASSUME NEW d \in Addr, NEW c \in Addr, NEW l \in Nat, NEW id \in Id, NEW r,
                 id = 0 => r \in Id
          PROVE  buildRegistrationRequest(UDPIP(mnLink, MNHome, NodePort, d, RegistrationPort),
                                          l, MNHome, homeAgent, c, id, r) \in RequestPacket
      BY <2>1, <3>2, RequestType, Zenon
    <3>3. sent(i) \in RequestPacket
      BY <3>1, <3>2, Zenon
    <3> QED
      BY <3>3
  <2>3. net' = (net \ received) \cup {sent(i) : i \in DOMAIN asks}
    BY <1>2
  <2>4. \A p \in net : p \in MNPacket
    BY DEF MNTypeOK, MNPacket
  <2> HIDE DEF sent
  <2> QED
    BY <2>2, <2>3, <2>4 DEF NetTyped, MNPacket
<1> QED
  BY <1>4, <1>5, <1>6

(***************************************************************************)
(* What sendRequest leaves behind: on the list what was there and one item *)
(* for every call, and on the link the packets that these items describe,  *)
(* when no reading of the clock is 0.                                      *)
(***************************************************************************)
packetOf(r, homeAgent) ==
  buildRegistrationRequest(
    UDPIP(mnLink, MNHome, NodePort, r.destination, RegistrationPort),
    r.requestedLifetime, MNHome, homeAgent, r.careOfAddress, r.identification, 0)

Asks(asks, r) ==
  \E i \in DOMAIN asks : asks[i].destination = r.destination /\ asks[i].lifetime = r.requestedLifetime

Sent(received, pending, asks, homeAgent, out) ==
  /\ net' = (net \ received) \cup out
  /\ \A q \in out : \E j \in DOMAIN mnRequests' : /\ q = packetOf(mnRequests'[j], homeAgent)
                                                  /\ Asks(asks, mnRequests'[j])
  /\ \A j \in DOMAIN mnRequests' : \/ \E i \in DOMAIN pending : mnRequests'[j] = pending[i]
                                   \/ /\ packetOf(mnRequests'[j], homeAgent) \in out
                                      /\ Asks(asks, mnRequests'[j])

LEMMA MNSent ==
  ASSUME 0 \notin Id, NEW received, NEW pending \in Seq(MNRequestItem),
         NEW asks \in Seq(Ask), NEW homeAgent,
         mnSend(received, pending, asks, homeAgent)
  PROVE  \E out : Sent(received, pending, asks, homeAgent, out)
<1>1. PICK ids \in [DOMAIN asks -> Id], junk \in [DOMAIN asks -> MNGarbage] :
      \E readings \in [{i \in DOMAIN asks : ids[i] = 0} -> Id] :
        /\ mnRequests' = pending \o
             [i \in DOMAIN asks |->
                [destination |-> asks[i].destination, careOfAddress |-> asks[i].careOf,
                 identification |-> ids[i], requestedLifetime |-> asks[i].lifetime,
                 remainingLifetime |-> junk[i], waitingTime |-> 0]]
        /\ net' = (net \ received) \cup
             {buildRegistrationRequest(
                UDPIP(mnLink, MNHome, NodePort, asks[i].destination, RegistrationPort),
                asks[i].lifetime, MNHome, homeAgent, asks[i].careOf, ids[i], readings[i])
              : i \in DOMAIN asks}
  BY ZenonT(60) DEF mnSend
<1>2. PICK readings \in [{i \in DOMAIN asks : ids[i] = 0} -> Id] :
        /\ mnRequests' = pending \o
             [i \in DOMAIN asks |->
                [destination |-> asks[i].destination, careOfAddress |-> asks[i].careOf,
                 identification |-> ids[i], requestedLifetime |-> asks[i].lifetime,
                 remainingLifetime |-> junk[i], waitingTime |-> 0]]
        /\ net' = (net \ received) \cup
             {buildRegistrationRequest(
                UDPIP(mnLink, MNHome, NodePort, asks[i].destination, RegistrationPort),
                asks[i].lifetime, MNHome, homeAgent, asks[i].careOf, ids[i], readings[i])
              : i \in DOMAIN asks}
  BY <1>1, Zenon
<1> DEFINE item(i) == [destination |-> asks[i].destination, careOfAddress |-> asks[i].careOf,
                       identification |-> ids[i], requestedLifetime |-> asks[i].lifetime,
                       remainingLifetime |-> junk[i], waitingTime |-> 0]
           sent(i) == buildRegistrationRequest(
                UDPIP(mnLink, MNHome, NodePort, asks[i].destination, RegistrationPort),
                asks[i].lifetime, MNHome, homeAgent, asks[i].careOf, ids[i], readings[i])
           new == [i \in DOMAIN asks |-> item(i)]
           out == {sent(i) : i \in DOMAIN asks}
<1>3. mnRequests' = pending \o new /\ net' = (net \ received) \cup out
  BY <1>2, Zenon
<1>4. ASSUME NEW i \in DOMAIN asks
      PROVE  sent(i) = packetOf(item(i), homeAgent) /\ Asks(asks, item(i))
  <2>1. ids[i] # 0
    OBVIOUS
  <2>2. /\ item(i).destination = asks[i].destination /\ item(i).careOfAddress = asks[i].careOf
        /\ item(i).identification = ids[i] /\ item(i).requestedLifetime = asks[i].lifetime
    OBVIOUS
  <2> HIDE DEF item
  <2>3. Asks(asks, item(i))
    BY <2>2, Zenon DEF Asks
  <2>4. sent(i) = packetOf(item(i), homeAgent)
    BY <2>1, <2>2, Zenon DEF packetOf, buildRegistrationRequest
  <2> QED
    BY <2>3, <2>4
<1> HIDE DEF item, sent
<1> DEFINE S == MNRequestItem \cup {item(i) : i \in DOMAIN asks}
<1>4a. /\ DOMAIN asks = 1..Len(asks) /\ Len(asks) \in Nat
       /\ DOMAIN pending = 1..Len(pending) /\ Len(pending) \in Nat
       /\ \A i \in DOMAIN pending : pending[i] \in S
       /\ \A i \in DOMAIN asks : item(i) \in S
  OBVIOUS
<1>4b. pending = [i \in 1..Len(pending) |-> pending[i]]
  OBVIOUS
<1> HIDE DEF S
<1>5. new \in Seq(S) /\ DOMAIN new = DOMAIN asks /\ \A i \in DOMAIN asks : new[i] = item(i)
  BY <1>4a
<1>6. pending \in Seq(S)
  BY <1>4a, <1>4b
<1> HIDE DEF new
<1>7. IsConcat(mnRequests', pending, new)
  BY <1>3, <1>5, <1>6, ConcatElements
<1>8. ASSUME NEW q \in out
      PROVE  \E j \in DOMAIN mnRequests' : /\ q = packetOf(mnRequests'[j], homeAgent)
                                           /\ Asks(asks, mnRequests'[j])
  <2>1. PICK i \in DOMAIN asks : q = sent(i)
    OBVIOUS
  <2>2. PICK j \in DOMAIN mnRequests' : mnRequests'[j] = item(i)
    BY <1>5, <1>7, Zenon DEF IsConcat
  <2> QED
    BY <1>4, <2>1, <2>2
<1>9. \A i \in DOMAIN asks : packetOf(item(i), homeAgent) \in out
  BY <1>4, Zenon
<1> HIDE DEF out
<1>10. ASSUME NEW j \in DOMAIN mnRequests', ~\E i \in DOMAIN pending : mnRequests'[j] = pending[i]
       PROVE  packetOf(mnRequests'[j], homeAgent) \in out /\ Asks(asks, mnRequests'[j])
  <2>1. PICK i \in DOMAIN asks : mnRequests'[j] = item(i)
    BY <1>5, <1>7, <1>10 DEF IsConcat
  <2> QED
    BY <1>4, <1>9, <2>1
<1>11. Sent(received, pending, asks, homeAgent, out)
  BY <1>3, <1>8, <1>10, Zenon DEF Sent
<1> QED
  BY <1>11

(***************************************************************************)
(* The type invariant, element by element.                                 *)
(***************************************************************************)
NodeTyped ==
  /\ NetTyped(net)
  /\ mnRequests \in Seq(MNRequestItem) /\ mnAllocated \in BOOLEAN
  /\ connection \in agentConnection
  /\ homeAgentPublic \in Addr /\ mnTimeout \in MNTimeouts
  /\ mnRunning \in BOOLEAN /\ mnLink \in Link

SolTyped ==
  /\ solConnected \in BOOLEAN /\ solAgent \in Addr /\ agentMAC \in Addr
  /\ firstConnection \in BOOLEAN /\ fastMoving \in BOOLEAN
  /\ solSequence \in UInt /\ lifetimeTimer \in BOOLEAN /\ solInterval \in UInt

LEMMA TypeSplit ==
  MNTypeOK <=> NodeTyped /\ SolTyped
<1> USE Zenon
<1>1. (\A p \in net : \/ p \in RequestPacket
                      \/ p \in ReplyPacket
                      \/ p \in AdvertPacket
                      \/ p \in SolicitationPacket) <=> NetTyped(net)
  BY DEF NetTyped, MNPacket
<1>2. {mnAllocated, mnRunning, solConnected, firstConnection, fastMoving, lifetimeTimer}
        \subseteq BOOLEAN
      <=> /\ mnAllocated \in BOOLEAN /\ mnRunning \in BOOLEAN /\ solConnected \in BOOLEAN
          /\ firstConnection \in BOOLEAN /\ fastMoving \in BOOLEAN /\ lifetimeTimer \in BOOLEAN
  OBVIOUS
<1> QED
  BY <1>1, <1>2 DEF MNTypeOK, NodeTyped, SolTyped

(***************************************************************************)
(* The node's own steps: a timer tick and a reply leave it well-formed and *)
(* registered with the same agent, reregister names the new one.           *)
(***************************************************************************)
LEMMA ReregisterTyped ==
  ASSUME MNTypeOK, NEW received, NEW address \in Addr, NEW careOf \in Addr,
         NEW lifetime \in UInt, reregister(received, address, careOf, lifetime),
         UNCHANGED mnFixed
  PROVE  NodeTyped' /\ connection'.agentAddress = address
<1>1. connection \in agentConnection
  BY DEF MNTypeOK
<1>2. /\ connection' \in agentConnection
      /\ connection'.agentAddress = address
  BY <1>1, Zenon DEF reregister, agentConnection
<1> DEFINE asks == IF address = MNHAPrivate
                   THEN <<ask(MNHAPrivate, connection.careOfAddress, 0)>>
                   ELSE <<ask(address, careOf, lifetime)>>
<1>3. asks \in Seq(Ask)
  <2>1. 0 \in UInt /\ MNHAPrivate \in Addr /\ connection.careOfAddress \in Addr
    BY <1>1, MNAssumption, PacketAssumption DEF UInt, agentConnection
  <2>2. /\ ask(MNHAPrivate, connection.careOfAddress, 0) \in Ask
        /\ ask(address, careOf, lifetime) \in Ask
    BY <2>1, MNAsk
  <2> QED
    BY <2>2
<1>4. mnSend(received, mnRequests, asks, homeAgentPublic)
  BY DEF reregister
<1>5. mnRequests \in Seq(MNRequestItem) /\ homeAgentPublic \in Addr
  BY DEF MNTypeOK
<1> HIDE DEF asks
<1>6. mnRequests' \in Seq(MNRequestItem) /\ mnAllocated' \in BOOLEAN /\ NetTyped(net')
  BY <1>3, <1>4, <1>5, MNSendTyped
<1>7. NodeTyped
  BY TypeSplit
<1> QED
  BY <1>2, <1>6, <1>7 DEF NodeTyped, mnFixed

LEMMA RunTimerAsks ==
  ASSUME MNTypeOK
  PROVE  LET left == decreaseRequests(mnRequests)
             late == timedOut(left, mnTimeout)
         IN  /\ stillWaiting(left, mnTimeout) \in Seq(MNRequestItem)
             /\ StemsFrom(stillWaiting(left, mnTimeout), mnRequests)
             /\ late \in Seq(MNRequestItem) /\ StemsFrom(late, mnRequests)
             /\ [i \in DOMAIN late |->
                   ask(late[i].destination, late[i].careOfAddress, late[i].requestedLifetime)]
                  \in Seq(Ask)
             /\ ask(connection.agentAddress, connection.careOfAddress, connection.lifetime) \in Ask
<1> DEFINE left == decreaseRequests(mnRequests)
           late == timedOut(left, mnTimeout)
           again == [i \in DOMAIN late |->
                       ask(late[i].destination, late[i].careOfAddress, late[i].requestedLifetime)]
<1>1. NodeTyped
  BY TypeSplit
<1>2. /\ stillWaiting(left, mnTimeout) \in Seq(MNRequestItem) /\ late \in Seq(MNRequestItem)
      /\ StemsFrom(stillWaiting(left, mnTimeout), mnRequests) /\ StemsFrom(late, mnRequests)
  <2>1. left \in Seq(MNRequestItem) /\ StemsFrom(left, mnRequests)
    BY <1>1, MNDecreaseRequests DEF NodeTyped
  <2>2. mnTimeout \in Nat
    BY <1>1, MNAssumption DEF NodeTyped
  <2> HIDE DEF left
  <2> QED
    BY <2>1, <2>2, MNTimedOut, StemsTransitive, Zenon
<1> HIDE DEF late
<1>3. again \in Seq(Ask)
  <2>1. ASSUME NEW i \in DOMAIN late
        PROVE  ask(late[i].destination, late[i].careOfAddress, late[i].requestedLifetime) \in Ask
    <3>1. late[i] \in MNRequestItem
      BY <1>2
    <3>2. /\ late[i].destination \in Addr /\ late[i].careOfAddress \in Addr
          /\ late[i].requestedLifetime \in UInt
      BY <3>1 DEF MNRequestItem
    <3> QED
      BY <3>2, MNAsk
  <2>2. DOMAIN late = 1..Len(late) /\ Len(late) \in Nat
    BY <1>2
  <2>3. again \in [1..Len(late) -> Ask]
    BY <2>1, <2>2
  <2> QED
    BY <2>2, <2>3
<1>4. ask(connection.agentAddress, connection.careOfAddress, connection.lifetime) \in Ask
  <2>1. /\ connection.agentAddress \in Addr /\ connection.careOfAddress \in Addr
        /\ connection.lifetime \in UInt
    BY <1>1 DEF NodeTyped, agentConnection
  <2> QED
    BY <2>1, MNAsk
<1> QED
  BY <1>2, <1>3, <1>4 DEF late

LEMMA RunTimerTyped ==
  ASSUME MNTypeOK, MNRunTimer
  PROVE  NodeTyped' /\ connection'.agentAddress = connection.agentAddress
<1> DEFINE left == decreaseRequests(mnRequests)
           pending == stillWaiting(left, mnTimeout)
           late == timedOut(left, mnTimeout)
           again == [i \in DOMAIN late |->
                       ask(late[i].destination, late[i].careOfAddress, late[i].requestedLifetime)]
           remaining == connection.remainingLifetime - 1
           renewal == ask(connection.agentAddress, connection.careOfAddress, connection.lifetime)
           asks == IF mnRenews(remaining, pending, again) THEN Append(again, renewal) ELSE again
<1>1. /\ mnSend({}, pending, asks, homeAgentPublic)
      /\ connection' = IF mnCounts
                       THEN [connection EXCEPT !.remainingLifetime = remaining]
                       ELSE connection
      /\ UNCHANGED <<homeAgentPublic, mnTimeout, mnRunning, mnLink>>
  BY DEF MNRunTimer
<1>2. NodeTyped
  BY TypeSplit
<1>3. connection' \in agentConnection /\ connection'.agentAddress = connection.agentAddress
  <2>1. connection.remainingLifetime \in UInt
    BY <1>2 DEF NodeTyped, agentConnection
  <2>2. mnCounts => remaining \in UInt
    BY <2>1, PacketAssumption DEF mnCounts, UInt
  <2> HIDE DEF remaining
  <2> QED
    BY <1>1, <1>2, <2>2 DEF NodeTyped, agentConnection
<1>4. pending \in Seq(MNRequestItem) /\ again \in Seq(Ask) /\ renewal \in Ask
  BY RunTimerAsks
<1> HIDE DEF left, pending, late, again, renewal
<1>5. asks \in Seq(Ask)
  BY <1>4
<1> HIDE DEF asks
<1>6. mnRequests' \in Seq(MNRequestItem) /\ mnAllocated' \in BOOLEAN /\ NetTyped(net')
  <2>1. homeAgentPublic \in Addr
    BY <1>2 DEF NodeTyped
  <2> QED
    BY <1>1, <1>4, <1>5, <2>1, MNSendTyped
<1> QED
  BY <1>1, <1>2, <1>3, <1>6 DEF NodeTyped

(***************************************************************************)
(* What run_timer sends: requests that were pending again, and a renewal   *)
(* of the registration.                                                    *)
(***************************************************************************)
AsksAgain(asks) ==
  \A i \in DOMAIN asks :
    \/ \E k \in DOMAIN mnRequests : /\ asks[i].destination = mnRequests[k].destination
                                   /\ asks[i].lifetime = mnRequests[k].requestedLifetime
    \/ asks[i].destination = connection.agentAddress /\ asks[i].lifetime = connection.lifetime

LEMMA RunTimerSends ==
  ASSUME MNTypeOK, MNRunTimer
  PROVE  \E pending \in Seq(MNRequestItem), asks \in Seq(Ask) :
           /\ mnSend({}, pending, asks, homeAgentPublic)
           /\ StemsFrom(pending, mnRequests) /\ AsksAgain(asks)
<1> DEFINE left == decreaseRequests(mnRequests)
           pending == stillWaiting(left, mnTimeout)
           late == timedOut(left, mnTimeout)
           again == [i \in DOMAIN late |->
                       ask(late[i].destination, late[i].careOfAddress, late[i].requestedLifetime)]
           remaining == connection.remainingLifetime - 1
           renewal == ask(connection.agentAddress, connection.careOfAddress, connection.lifetime)
           asks == IF mnRenews(remaining, pending, again) THEN Append(again, renewal) ELSE again
<1>1. mnSend({}, pending, asks, homeAgentPublic)
  BY DEF MNRunTimer
<1>2. /\ pending \in Seq(MNRequestItem) /\ again \in Seq(Ask) /\ renewal \in Ask
      /\ StemsFrom(pending, mnRequests)
      /\ late \in Seq(MNRequestItem) /\ StemsFrom(late, mnRequests)
  BY RunTimerAsks
<1> HIDE DEF left, pending, late
<1>3. AsksAgain(again)
  <2> SUFFICES ASSUME NEW i \in DOMAIN again
               PROVE  \E k \in DOMAIN mnRequests :
                        /\ again[i].destination = mnRequests[k].destination
                        /\ again[i].lifetime = mnRequests[k].requestedLifetime
    BY DEF AsksAgain
  <2>1. /\ i \in DOMAIN late
        /\ again[i].destination = late[i].destination
        /\ again[i].lifetime = late[i].requestedLifetime
    BY DEF ask
  <2>2. PICK k \in DOMAIN mnRequests : SameRequest(late[i], mnRequests[k])
    BY <1>2, <2>1 DEF StemsFrom
  <2> QED
    BY <2>1, <2>2 DEF SameRequest
<1> HIDE DEF again
<1>4. /\ renewal.destination = connection.agentAddress
      /\ renewal.lifetime = connection.lifetime
  BY DEF ask
<1> HIDE DEF renewal
<1>5. /\ Append(again, renewal) \in Seq(Ask)
      /\ \A i \in DOMAIN Append(again, renewal) :
           \/ i \in DOMAIN again /\ Append(again, renewal)[i] = again[i]
           \/ Append(again, renewal)[i] = renewal
  BY <1>2
<1>6. AsksAgain(Append(again, renewal))
  BY <1>3, <1>4, <1>5 DEF AsksAgain
<1>7. asks \in Seq(Ask) /\ AsksAgain(asks)
  BY <1>2, <1>3, <1>5, <1>6
<1> HIDE DEF asks
<1> QED
  BY <1>1, <1>2, <1>7

LEMMA MNReplyIsReply ==
  ASSUME MNTypeOK, NEW p \in net, mnGetsReply(p)
  PROVE  /\ p.src \in Addr /\ p.homeAgent \in Addr
         /\ p.lifetime \in UInt
<1>1. p.type = "REPLY"
  BY DEF mnGetsReply
<1>2. p \in ReplyPacket
  BY <1>1 DEF MNTypeOK, RequestPacket, ReplyPacket, AdvertPacket, SolicitationPacket
<1>3. 0..Infinity \subseteq UInt
  BY PacketAssumption DEF UInt
<1> QED
  BY <1>2, <1>3 DEF ReplyPacket

LEMMA MNProcessed ==
  ASSUME MNTypeOK, NEW p \in net, mnProcesses(p)
  PROVE  /\ mnRequest(p) \in MNRequestItem
         /\ \E j \in DOMAIN mnRequests : /\ mnRequest(p) = mnRequests[j]
                                         /\ mnRequests[j].identification = p.identification
         /\ mnOthers(p) \in Seq(MNRequestItem) /\ StemsFrom(mnOthers(p), mnRequests)
         /\ mnGranted(p) \in UInt
<1>1. mnRequests \in Seq(MNRequestItem)
  BY DEF MNTypeOK
<1>2. /\ Len(mnRequests) \in DOMAIN mnRequests
      /\ mnRequests[Len(mnRequests)].identification = p.identification
  BY <1>1 DEF mnProcesses, mnIsLast
<1>3. /\ mnRequest(p) \in MNRequestItem
      /\ \E j \in DOMAIN mnRequests : /\ mnRequest(p) = mnRequests[j]
                                      /\ mnRequests[j].identification = p.identification
      /\ mnOthers(p) \in Seq(MNRequestItem) /\ StemsFrom(mnOthers(p), mnRequests)
  BY <1>1, <1>2, MNRemoveRequest DEF mnRequest, mnOthers
<1>4. mnGranted(p) \in UInt
  <2>1. mnRequest(p).requestedLifetime \in UInt
    BY <1>3 DEF MNRequestItem
  <2>2. p.lifetime \in UInt
    BY MNReplyIsReply DEF mnProcesses
  <2>3. ASSUME NEW a \in UInt, NEW l \in UInt
        PROVE  (a + UIntMod - absDifference(l, a)) % UIntMod \in UInt
    <3>1. a + UIntMod - absDifference(l, a) \in Nat
      BY <2>3, PacketAssumption DEF UInt, absDifference, Minimum
    <3>2. \A n \in Nat : n % UIntMod \in 0..(UIntMod - 1)
      BY PacketAssumption
    <3> QED
      BY <3>1, <3>2 DEF UInt
  <2> QED
    BY <2>1, <2>2, <2>3, Zenon DEF mnGranted
<1> QED
  BY <1>3, <1>4

LEMMA PushTyped ==
  ASSUME MNTypeOK, NEW p \in net, MNPush(p)
  PROVE  NodeTyped' /\ connection'.agentAddress = connection.agentAddress
<1>1. NodeTyped
  BY TypeSplit
<1>2. \A q \in net \ {p} : q \in MNPacket
  BY <1>1 DEF NodeTyped, NetTyped
<1>3. CASE MNDie(p) \/ MNIgnore(p)
  <2>1. NetTyped(net')
    BY <1>2, <1>3 DEF MNDie, MNIgnore, NetTyped
  <2> QED
    BY <1>1, <1>3, <2>1, Zenon DEF MNDie, MNIgnore, NodeTyped
<1>4. ASSUME mnProcesses(p), NEW asks \in Seq(Ask), NEW homeAgent \in Addr,
             mnSend({p}, mnOthers(p), asks, homeAgent)
      PROVE  mnRequests' \in Seq(MNRequestItem) /\ mnAllocated' \in BOOLEAN /\ NetTyped(net')
  BY <1>4, MNProcessed, MNSendTyped
<1>5. << >> \in Seq(Ask)
  OBVIOUS
<1>6. homeAgentPublic \in Addr /\ connection \in agentConnection
  BY <1>1 DEF NodeTyped
<1>7. CASE MNAccept(p)
  <2>1. mnRequests' \in Seq(MNRequestItem) /\ mnAllocated' \in BOOLEAN /\ NetTyped(net')
    BY <1>4, <1>5, <1>6, <1>7, Zenon DEF MNAccept
  <2>2. mnGranted(p) \in UInt
    BY <1>7, MNProcessed DEF MNAccept
  <2>3. connection' \in agentConnection /\ connection'.agentAddress = connection.agentAddress
    BY <1>6, <1>7, <2>2, Zenon DEF MNAccept, agentConnection
  <2> QED
    BY <1>1, <1>7, <2>1, <2>3 DEF MNAccept, NodeTyped
<1>8. mnProcesses(p) => <<ask(p.src, mnRequest(p).careOfAddress, p.lifetime)>> \in Seq(Ask)
  <2> HAVE mnProcesses(p)
  <2>1. p.src \in Addr /\ p.lifetime \in UInt
    BY MNReplyIsReply DEF mnProcesses
  <2>2. mnRequest(p).careOfAddress \in Addr
    BY MNProcessed DEF MNRequestItem
  <2>3. ask(p.src, mnRequest(p).careOfAddress, p.lifetime) \in Ask
    BY <2>1, <2>2, MNAsk
  <2> QED
    BY <2>3
<1>9. CASE MNRetry(p)
  <2>1. mnRequests' \in Seq(MNRequestItem) /\ mnAllocated' \in BOOLEAN /\ NetTyped(net')
    BY <1>4, <1>6, <1>8, <1>9, Zenon DEF MNRetry
  <2>2. p.lifetime \in UInt
    BY <1>9, MNReplyIsReply DEF MNRetry, mnProcesses
  <2>3. connection' \in agentConnection /\ connection'.agentAddress = connection.agentAddress
    BY <1>6, <1>9, <2>2 DEF MNRetry, agentConnection
  <2> QED
    BY <1>1, <1>9, <2>1, <2>3 DEF MNRetry, NodeTyped
<1>10. CASE MNLearn(p)
  <2>1. p.homeAgent \in Addr
    BY <1>10, MNReplyIsReply DEF MNLearn, mnProcesses
  <2>2. mnRequests' \in Seq(MNRequestItem) /\ mnAllocated' \in BOOLEAN /\ NetTyped(net')
    <3> DEFINE asks == IF connection.isHome
                       THEN <<ask(p.src, mnRequest(p).careOfAddress, p.lifetime)>> ELSE << >>
    <3>1. mnProcesses(p) /\ mnSend({p}, mnOthers(p), asks, p.homeAgent)
      BY <1>10 DEF MNLearn
    <3>2. asks \in Seq(Ask)
      BY <1>5, <1>8, <3>1
    <3> HIDE DEF asks
    <3> QED
      BY <1>4, <2>1, <3>1, <3>2
  <2> QED
    BY <1>1, <1>10, <2>1, <2>2 DEF MNLearn, NodeTyped
<1>11. CASE MNRefused(p)
  <2>1. mnRequests' \in Seq(MNRequestItem) /\ mnAllocated' \in BOOLEAN /\ NetTyped(net')
    BY <1>4, <1>5, <1>6, <1>11, ZenonT(60) DEF MNRefused
  <2> QED
    BY <1>1, <1>11, <2>1 DEF MNRefused, NodeTyped
<1> QED
  BY <1>3, <1>7, <1>9, <1>10, <1>11 DEF MNPush

(***************************************************************************)
(* What MobileIPSoliciter reads from an advertisement, garbage included.   *)
(***************************************************************************)
LEMMA SolReads ==
  ASSUME NEW p \in MNPacket, solGetsAdvert(p), NEW adv \in solReads(p)
  PROVE  /\ p.src \in Addr
         /\ adv.src \in Addr /\ adv.careOf \in Addr
         /\ adv.registrationLifetime \in UInt /\ adv.sequenceNumber \in UInt
<1>1. p.type = "ADVERTISEMENT"
  BY DEF solGetsAdvert
<1>2. p \in AdvertPacket
  BY <1>1 DEF MNPacket, RequestPacket, ReplyPacket, AdvertPacket, SolicitationPacket
<1>3. 0..Infinity \subseteq UInt /\ 0..SequenceMax \subseteq UInt
  BY PacketAssumption DEF UInt
<1>4. CASE p.sum = "ok"
  BY <1>2, <1>3, <1>4 DEF solReads, AdvertPacket
<1>5. CASE p.sum # "ok"
  <2>1. PICK junk \in MNGarbage \X MNGarbage :
          adv = [p EXCEPT !.src = AnyAddr, !.careOf = AnyAddr,
                          !.registrationLifetime = junk[1], !.sequenceNumber = junk[2]]
    BY <1>5 , Zenon DEF solReads
  <2>2. junk[1] \in UInt /\ junk[2] \in UInt /\ AnyAddr \in Addr
    BY MNAssumption, PacketAssumption
  <2>3. /\ adv.src = AnyAddr /\ adv.careOf = AnyAddr
        /\ adv.registrationLifetime = junk[1] /\ adv.sequenceNumber = junk[2]
    BY <1>2, <2>1 DEF AdvertPacket
  <2>4. p.src \in Addr
    BY <1>2 DEF AdvertPacket
  <2> QED
    BY <2>2, <2>3, <2>4
<1> QED
  BY <1>4, <1>5

(***************************************************************************)
(* The inductive invariant: the three invariants together.  The agreement  *)
(* of the two elements needs no more than that every step that changes     *)
(* one side changes the other.                                             *)
(***************************************************************************)
MNInv == MNTypeOK /\ ElementsAgree /\ SilenceIsNoticed

LEMMA MNInvInit ==
  MNStart => MNInv
<1> SUFFICES ASSUME MNStart PROVE MNInv
  OBVIOUS
<1>1. 0 \in UInt /\ AnyAddr \in Addr
  BY PacketAssumption DEF UInt
<1>2. NodeTyped
  <2>1. noConnection \in agentConnection
    BY <1>1 DEF noConnection, agentConnection
  <2>2. NetTyped(net)
    BY DEF MNStart, NetTyped
  <2>3. mnRequests \in Seq(MNRequestItem)
    BY DEF MNStart, MNInit
  <2>4. /\ connection = noConnection /\ homeAgentPublic = MNHAPublic
        /\ mnTimeout = MNDefaultTimeout /\ mnLink = "home"
        /\ mnAllocated \in BOOLEAN /\ mnRunning \in BOOLEAN
    BY Zenon DEF MNStart, MNInit
  <2> QED
    BY <2>1, <2>2, <2>3, <2>4, MNAssumption DEF NodeTyped, Link
<1>3. SolTyped
  BY <1>1, Zenon DEF MNStart, SolInit, SolTyped
<1>4. MNTypeOK
  BY <1>2, <1>3, TypeSplit
<1> QED
  BY <1>4 DEF MNInv, ElementsAgree, SilenceIsNoticed, MNStart, SolInit

LEMMA MNInvPush ==
  ASSUME MNInv, NEW p \in net, MNPush(p), UNCHANGED solVars
  PROVE  MNInv'
<1>1. MNTypeOK /\ SolTyped
  BY TypeSplit DEF MNInv
<1>2. NodeTyped' /\ connection'.agentAddress = connection.agentAddress
  BY <1>1, PushTyped
<1>3. SolTyped'
  BY <1>1 DEF SolTyped, solVars
<1>4. MNTypeOK'
  BY <1>2, <1>3, TypeSplit, PTL
<1> QED
  BY <1>2, <1>4 DEF MNInv, ElementsAgree, SilenceIsNoticed, solVars

LEMMA MNInvAdvert ==
  ASSUME MNInv, NEW p \in MNPacket, simple_action(p)
  PROVE  MNInv'
<1>1. MNTypeOK /\ NodeTyped /\ SolTyped
  BY TypeSplit DEF MNInv
<1>2. solSilent(p) => NodeTyped' /\ connection' = connection
  <2> HAVE solSilent(p)
  <2>1. NetTyped(net')
    BY <1>1 DEF NodeTyped, NetTyped, solSilent
  <2> QED
    BY <1>1, <2>1 DEF NodeTyped, solSilent, mnRest
<1>3. CASE SolRefresh(p)
  <2>1. SolTyped'
    <3>1. \A n \in UInt : solNext(n) \in UInt
      BY PacketAssumption DEF solNext, UInt
    <3> QED
      BY <1>1, <1>3, <3>1 DEF SolRefresh, SolTyped
  <2>2. MNTypeOK'
    BY <1>2, <1>3, <2>1, TypeSplit, PTL DEF SolRefresh
  <2> QED
    BY <1>2, <1>3, <2>2 DEF MNInv, SolRefresh, ElementsAgree, SilenceIsNoticed
<1>4. CASE SolFirstHome(p)
  <2>1. PICK adv \in solReads(p) : solFromHome(adv) /\ solConnect(p, adv)
    BY <1>4 DEF SolFirstHome
  <2>2. solGetsAdvert(p)
    BY <1>4 DEF SolFirstHome
  <2>3. SolTyped'
    BY <1>1, <1>4, <2>1, <2>2, SolReads, Zenon DEF SolFirstHome, solConnect, SolTyped
  <2>4. MNTypeOK'
    BY <1>2, <1>4, <2>3, TypeSplit, PTL DEF SolFirstHome
  <2>5. solAgent' = MNHAPrivate /\ lifetimeTimer' = TRUE
    BY <2>1 DEF solConnect, solFromHome
  <2> QED
    BY <2>4, <2>5 DEF MNInv, ElementsAgree, SilenceIsNoticed
<1>5. CASE SolMove(p)
  <2>1. PICK adv \in solReads(p) : solConnect(p, adv) /\ solRegister(p, adv)
    BY <1>5 DEF SolMove
  <2>2. solGetsAdvert(p)
    BY <1>5 DEF SolMove
  <2>3. /\ p.src \in Addr /\ adv.src \in Addr /\ adv.careOf \in Addr
        /\ adv.registrationLifetime \in UInt /\ adv.sequenceNumber \in UInt
    BY <1>1, <2>2, SolReads
  <2>4. SolTyped'
    BY <1>1, <1>5, <2>1, <2>3 DEF SolMove, solConnect, SolTyped
  <2>5. NodeTyped' /\ connection'.agentAddress = adv.src
    BY <1>1, <2>1, <2>3, ReregisterTyped DEF solRegister
  <2>6. MNTypeOK'
    BY <2>4, <2>5, TypeSplit, PTL
  <2>7. solAgent' = adv.src /\ lifetimeTimer' = TRUE
    BY <2>1, ZenonT(60) DEF solConnect
  <2> QED
    BY <2>5, <2>6, <2>7 DEF MNInv, ElementsAgree, SilenceIsNoticed
<1>6. CASE SolAgentReset(p)
  <2>1. PICK adv \in solReads(p) : /\ solFromCurrent(adv) /\ solRegister(p, adv)
                                   /\ solSequence' = adv.sequenceNumber
    BY <1>6 DEF SolAgentReset
  <2>2. solGetsAdvert(p)
    BY <1>6 DEF SolAgentReset
  <2>3. /\ adv.src \in Addr /\ adv.careOf \in Addr
        /\ adv.registrationLifetime \in UInt /\ adv.sequenceNumber \in UInt
    BY <1>1, <2>2, SolReads
  <2>4. SolTyped'
    BY <1>1, <1>6, <2>1, <2>3 DEF SolAgentReset, SolTyped
  <2>5. NodeTyped' /\ connection'.agentAddress = adv.src
    BY <1>1, <2>1, <2>3, ReregisterTyped DEF solRegister
  <2>6. MNTypeOK'
    BY <2>4, <2>5, TypeSplit, PTL
  <2>7. solAgent' = adv.src
    BY <1>6, <2>1 DEF SolAgentReset, solFromCurrent
  <2> QED
    BY <1>6, <2>5, <2>6, <2>7, ZenonT(60) DEF MNInv, SolAgentReset, ElementsAgree, SilenceIsNoticed
<1>7. CASE SolSinkhole(p)
  <2>1. SolTyped'
    BY <1>1, <1>7 DEF SolSinkhole, SolTyped, solVars
  <2>2. MNTypeOK'
    BY <1>2, <1>7, <2>1, TypeSplit, PTL DEF SolSinkhole
  <2> QED
    BY <1>2, <1>7, <2>2 DEF MNInv, SolSinkhole, ElementsAgree, SilenceIsNoticed, solVars
<1> QED
  BY <1>3, <1>4, <1>5, <1>6, <1>7 DEF simple_action

LEMMA MNInvStep ==
  ASSUME MNInv, MNStep
  PROVE  MNInv'
<1>1. MNTypeOK /\ NodeTyped /\ SolTyped
  BY TypeSplit DEF MNInv
<1>2. CASE \E p \in net : MNPush(p) /\ UNCHANGED solVars
  BY <1>2, MNInvPush, Zenon
<1>3. CASE MNRunTimer /\ UNCHANGED solVars
  <2>1. NodeTyped' /\ connection'.agentAddress = connection.agentAddress
    BY <1>1, <1>3, RunTimerTyped
  <2>2. SolTyped'
    BY <1>1, <1>3 DEF SolTyped, solVars
  <2>3. MNTypeOK'
    BY <2>1, <2>2, TypeSplit, PTL
  <2> QED
    BY <1>3, <2>1, <2>3 DEF MNInv, ElementsAgree, SilenceIsNoticed, solVars
<1>4. CASE \E t \in MNTimeouts : MNSetTimeout(t) /\ UNCHANGED solVars
  <2>1. NodeTyped' /\ SolTyped'
    BY <1>1, <1>4 DEF MNSetTimeout, NodeTyped, SolTyped, solVars
  <2>2. MNTypeOK'
    BY <2>1, TypeSplit, PTL
  <2> QED
    BY <1>4, <2>2 DEF MNInv, MNSetTimeout, ElementsAgree, SilenceIsNoticed, solVars
<1>5. CASE \E p \in net : simple_action(p)
  <2>1. net \subseteq MNPacket
    BY <1>1 DEF NodeTyped, NetTyped
  <2> QED
    BY <1>5, <2>1, MNInvAdvert, Zenon
<1>6. CASE SolRunTimer
  <2>1. 0 \in UInt /\ AnyAddr \in Addr
    BY PacketAssumption DEF UInt
  <2>2. NodeTyped' /\ SolTyped'
    BY <1>1, <1>6, <2>1, ZenonT(60) DEF SolRunTimer, NodeTyped, SolTyped, mnVars
  <2>3. MNTypeOK'
    BY <2>2, TypeSplit, PTL
  <2> QED
    BY <1>6, <2>3 DEF MNInv, SolRunTimer, ElementsAgree, SilenceIsNoticed
<1>7. CASE \E b \in BOOLEAN : SolSetFastMoving(b)
  <2>1. NodeTyped' /\ SolTyped'
    BY <1>1, <1>7 DEF SolSetFastMoving, NodeTyped, SolTyped, mnVars
  <2>2. MNTypeOK'
    BY <2>1, TypeSplit, PTL
  <2> QED
    BY <1>7, <2>2 DEF MNInv, SolSetFastMoving, ElementsAgree, SilenceIsNoticed, mnVars
<1>8. CASE \E n \in SolIntervals : SolSetInterval(n)
  <2>1. NodeTyped' /\ SolTyped'
    BY <1>1, <1>8, SolAssumption DEF SolSetInterval, NodeTyped, SolTyped, mnVars
  <2>2. MNTypeOK'
    BY <2>1, TypeSplit, PTL
  <2> QED
    BY <1>8, <2>2 DEF MNInv, SolSetInterval, ElementsAgree, SilenceIsNoticed, mnVars
<1>9. CASE SolSolicit
  <2>1. buildRouterSolicitation(mnLink, MNHome, BroadcastAddr) \in SolicitationPacket
    BY <1>1, MNAssumption, PacketAssumption
       DEF buildRouterSolicitation, SolicitationPacket, NodeTyped, Checksum
  <2>2. NetTyped(net')
    BY <1>1, <1>9, <2>1 DEF SolSolicit, NodeTyped, NetTyped, MNPacket
  <2>3. NodeTyped' /\ SolTyped'
    BY <1>1, <1>9, <2>2 DEF SolSolicit, NodeTyped, SolTyped, mnRest, solVars
  <2>4. MNTypeOK'
    BY <2>3, TypeSplit, PTL
  <2> QED
    BY <1>9, <2>4 DEF MNInv, SolSolicit, ElementsAgree, SilenceIsNoticed, mnRest, solVars
<1>10. CASE MNRestart
  <2>1. 0 \in UInt /\ AnyAddr \in Addr
    BY PacketAssumption DEF UInt
  <2>2. noConnection \in agentConnection
    BY <2>1 DEF noConnection, agentConnection
  <2>3. SolTyped'
    BY <1>10, <2>1, Zenon DEF MNRestart, SolTyped
  <2>4. NodeTyped'
    <3>1. mnRequests' \in Seq(MNRequestItem)
      BY <1>10 DEF MNRestart
    <3>2. /\ connection' = noConnection /\ homeAgentPublic' = MNHAPublic
          /\ mnTimeout' = MNDefaultTimeout /\ mnLink' = mnLink /\ net' = net
          /\ mnAllocated' \in BOOLEAN /\ mnRunning' \in BOOLEAN
      BY <1>10, Zenon DEF MNRestart
    <3> QED
      BY <1>1, <2>2, <3>1, <3>2, MNAssumption DEF NodeTyped
  <2>5. MNTypeOK'
    BY <2>3, <2>4, TypeSplit, PTL
  <2> QED
    BY <1>10, <2>5 DEF MNInv, MNRestart, ElementsAgree, SilenceIsNoticed
<1> QED
  BY <1>2, <1>3, <1>4, <1>5, <1>6, <1>7, <1>8, <1>9, <1>10 DEF MNStep

LEMMA MNInvEnv ==
  ASSUME MNInv, MNEnv \/ MNLose
  PROVE  MNInv'
<1>1. NodeTyped /\ SolTyped
  BY TypeSplit DEF MNInv
<1>2. /\ NetTyped(net') /\ mnLink' \in Link
      /\ UNCHANGED <<mnRequests, mnAllocated, connection, homeAgentPublic,
                     mnTimeout, mnRunning, solVars>>
  <2>1. CASE \E link \in {"home", "foreign"} : MNCarry(link)
    BY <2>1 DEF MNCarry, NetTyped, Link
  <2>2. CASE \E p \in MNAdverts \cup MNReplies : MNPut(p)
    <3>1. PICK p \in MNAdverts \cup MNReplies : MNPut(p)
      BY <2>2
    <3>2. p \in MNPacket
      BY SolAssumption DEF MNPacket
    <3> QED
      BY <1>1, <3>1, <3>2 DEF MNPut, NetTyped, NodeTyped, mnRest
  <2>3. CASE MNLose
    BY <1>1, <2>3 DEF MNLose, NetTyped, NodeTyped, mnRest
  <2> QED
    BY <2>1, <2>2, <2>3 DEF MNEnv
<1>3. NodeTyped' /\ SolTyped'
  BY <1>1, <1>2 DEF NodeTyped, SolTyped, solVars
<1>4. MNTypeOK'
  BY <1>3, TypeSplit, PTL
<1> QED
  BY <1>2, <1>4 DEF MNInv, ElementsAgree, SilenceIsNoticed, solVars

LEMMA MNInvNext ==
  MNInv /\ [MNNext]_mnAll => MNInv'
<1> SUFFICES ASSUME MNInv, [MNNext]_mnAll PROVE MNInv'
  OBVIOUS
<1>1. CASE MNNext
  BY <1>1, MNInvStep, MNInvEnv, Zenon DEF MNNext
<1>2. CASE UNCHANGED mnAll
  <2>1. MNTypeOK'
    BY <1>2 DEF MNInv, MNTypeOK, mnAll, mnVars, solVars
  <2> QED
    BY <1>2, <2>1 DEF MNInv, ElementsAgree, SilenceIsNoticed, mnAll, mnVars, solVars
<1> QED
  BY <1>1, <1>2

LEMMA MNInvariant ==
  MNSpec => []MNInv
BY MNInvInit, MNInvNext, PTL DEF MNSpec

(***************************************************************************)
(* Every variable of the two elements stays in its set, the lifetimes and  *)
(* sequence numbers within an unsigned int, whatever an advertisement with *)
(* a wrong checksum and an uninitialised lifetime bring in.                *)
(***************************************************************************)
THEOREM MNTypeCorrect ==
  MNSpec => []MNTypeOK
<1>1. MNInv => MNTypeOK
  BY DEF MNInv
<1> QED
  BY <1>1, MNInvariant, PTL

(***************************************************************************)
(* MobileIPSoliciter and MobileIPNode never disagree on the foreign agent  *)
(* the node is connected to.                                               *)
(***************************************************************************)
THEOREM MNElementsAgree ==
  MNSpec => []ElementsAgree
<1>1. MNInv => ElementsAgree
  BY DEF MNInv
<1> QED
  BY <1>1, MNInvariant, PTL

(***************************************************************************)
(* Whenever MobileIPSoliciter is connected, the lifetime timer that ends   *)
(* the connection is scheduled.                                            *)
(***************************************************************************)
THEOREM MNSilenceNoticed ==
  MNSpec => []SilenceIsNoticed
<1>1. MNInv => SilenceIsNoticed
  BY DEF MNInv
<1> QED
  BY <1>1, MNInvariant, PTL

(***************************************************************************)
(* What was pending before sendRequest and what it asks for are pending    *)
(* after it.                                                               *)
(***************************************************************************)
LEMMA MNSendPending ==
  ASSUME NEW received, NEW pending \in Seq(MNRequestItem), NEW asks \in Seq(Ask),
         NEW homeAgent, mnSend(received, pending, asks, homeAgent),
         NEW d, NEW c,
         \/ hasRequest(pending, d, c)
         \/ \E i \in DOMAIN asks : asks[i].destination = d /\ asks[i].careOf = c
  PROVE  hasRequest(mnRequests', d, c)
<1>1. PICK ids \in [DOMAIN asks -> Id], junk \in [DOMAIN asks -> MNGarbage] :
        mnRequests' = pending \o
             [i \in DOMAIN asks |->
                [destination |-> asks[i].destination, careOfAddress |-> asks[i].careOf,
                 identification |-> ids[i], requestedLifetime |-> asks[i].lifetime,
                 remainingLifetime |-> junk[i], waitingTime |-> 0]]
  BY ZenonT(60) DEF mnSend
<1> DEFINE item(i) == [destination |-> asks[i].destination, careOfAddress |-> asks[i].careOf,
                       identification |-> ids[i], requestedLifetime |-> asks[i].lifetime,
                       remainingLifetime |-> junk[i], waitingTime |-> 0]
           new == [i \in DOMAIN asks |-> item(i)]
<1>2. mnRequests' = pending \o new
  BY <1>1
<1>3. \A i \in DOMAIN asks : /\ item(i).destination = asks[i].destination
                             /\ item(i).careOfAddress = asks[i].careOf
  OBVIOUS
<1> HIDE DEF item
<1>4. /\ DOMAIN asks = 1..Len(asks) /\ Len(asks) \in Nat
      /\ DOMAIN pending = 1..Len(pending) /\ Len(pending) \in Nat
  OBVIOUS
<1> DEFINE Items == MNRequestItem \cup {item(i) : i \in DOMAIN asks}
<1>5. new \in Seq(Items) /\ Len(new) = Len(asks) /\ \A i \in DOMAIN asks : new[i] = item(i)
  <2>1. new \in [1..Len(asks) -> Items]
    BY <1>4
  <2> QED
    BY <1>4, <2>1
<1>6. pending \in Seq(Items)
  <2>1. pending \in [1..Len(pending) -> Items]
    BY <1>4
  <2> QED
    BY <1>4, <2>1
<1> HIDE DEF new, Items
<1>7. IsConcat(mnRequests', pending, new)
  BY <1>2, <1>5, <1>6, ConcatElements
<1>8. CASE hasRequest(pending, d, c)
  <2>1. PICK i \in DOMAIN pending : pending[i].destination = d /\ pending[i].careOfAddress = c
    BY <1>8 DEF hasRequest
  <2>2. PICK k \in DOMAIN mnRequests' : mnRequests'[k] = pending[i]
    BY <1>7, <2>1 DEF IsConcat
  <2> QED
    BY <2>1, <2>2 DEF hasRequest
<1>9. CASE \E i \in DOMAIN asks : asks[i].destination = d /\ asks[i].careOf = c
  <2>1. PICK i \in DOMAIN asks : asks[i].destination = d /\ asks[i].careOf = c
    BY <1>9
  <2>2. i \in DOMAIN new /\ new[i] = item(i)
    BY <1>4, <1>5
  <2>3. PICK k \in DOMAIN mnRequests' : mnRequests'[k] = item(i)
    BY <1>7, <2>2 DEF IsConcat
  <2>4. item(i).destination = d /\ item(i).careOfAddress = c
    BY <1>3, <2>1
  <2> QED
    BY <2>3, <2>4 DEF hasRequest
<1> QED
  BY <1>8, <1>9

(***************************************************************************)
(* run_timer renews in time: a registration away from home that is counted *)
(* down and in the second half of its lifetime has a request for its agent *)
(* and care-of address pending after the tick, also when the tick dropped  *)
(* or resent the previous one.                                             *)
(***************************************************************************)
THEOREM MNRenewalPending ==
  MNSpec => RenewalPending
<1> DEFINE Due == /\ MNRunTimer /\ ~connection.isHome
                  /\ connection'.remainingLifetime < connection.remainingLifetime
                  /\ 2 * connection'.remainingLifetime <= connection.lifetime
           Asked == hasRequest(mnRequests', connection.agentAddress, connection.careOfAddress)
<1>1. ASSUME MNTypeOK, Due PROVE Asked
  <2> DEFINE left == decreaseRequests(mnRequests)
             pending == stillWaiting(left, mnTimeout)
             late == timedOut(left, mnTimeout)
             again == [i \in DOMAIN late |->
                         ask(late[i].destination, late[i].careOfAddress, late[i].requestedLifetime)]
             remaining == connection.remainingLifetime - 1
             renewal == ask(connection.agentAddress, connection.careOfAddress, connection.lifetime)
             asks == IF mnRenews(remaining, pending, again) THEN Append(again, renewal) ELSE again
  <2>1. /\ mnSend({}, pending, asks, homeAgentPublic)
        /\ connection' = IF mnCounts
                         THEN [connection EXCEPT !.remainingLifetime = remaining]
                         ELSE connection
    BY <1>1 DEF MNRunTimer
  <2>2. NodeTyped
    BY <1>1, TypeSplit, Zenon
  <2>3. pending \in Seq(MNRequestItem) /\ again \in Seq(Ask) /\ renewal \in Ask
    BY <1>1, RunTimerAsks
  <2> HIDE DEF left, pending, late, again
  <2>4. mnCounts /\ 2 * remaining <= connection.lifetime
    <3>1. connection.remainingLifetime \in Nat
      BY <2>2, PacketAssumption DEF NodeTyped, agentConnection, UInt
    <3>2. mnCounts
      BY <1>1, <2>1, <3>1
    <3>3. connection' = [connection EXCEPT !.remainingLifetime = remaining]
      BY <2>1, <3>2, Zenon
    <3>4. connection'.remainingLifetime = remaining
      <4> HIDE DEF remaining, renewal, asks
      <4>1. connection \in agentConnection
        BY <2>2 DEF NodeTyped
      <4> QED
        BY <3>3, <4>1 DEF agentConnection
    <3> QED
      BY <1>1, <3>2, <3>4
  <2>5. CASE mnRenews(remaining, pending, again)
    <3>1. asks \in Seq(Ask) /\ Len(asks) \in DOMAIN asks /\ asks[Len(asks)] = renewal
      BY <2>3, <2>5
    <3>2. renewal.destination = connection.agentAddress /\ renewal.careOf = connection.careOfAddress
      BY DEF ask
    <3> HIDE DEF asks, renewal
    <3>3. \E i \in DOMAIN asks : /\ asks[i].destination = connection.agentAddress
                                 /\ asks[i].careOf = connection.careOfAddress
      BY <3>1, <3>2
    <3> QED
      BY <2>1, <2>3, <3>1, <3>3, MNSendPending, ZenonT(60)
  <2>6. CASE ~mnRenews(remaining, pending, again)
    <3>1. asks = again
      BY <2>6
    <3>2. \/ hasRequest(pending, connection.agentAddress, connection.careOfAddress)
          \/ \E i \in DOMAIN again : /\ again[i].destination = connection.agentAddress
                                     /\ again[i].careOf = connection.careOfAddress
      BY <1>1, <2>4, <2>6 DEF mnRenews
    <3> HIDE DEF asks
    <3> QED
      BY <2>1, <2>3, <3>1, <3>2, MNSendPending, ZenonT(60)
  <2> QED
    BY <2>5, <2>6
<1>2. MNInv => MNTypeOK
  BY DEF MNInv
<1>3. MNInv => [Due => Asked]_mnAll
  BY <1>1, <1>2
<1> QED
  BY <1>3, MNInvariant, PTL DEF RenewalPending, MNSpec
=============================================================================
