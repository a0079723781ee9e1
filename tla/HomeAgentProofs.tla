-------------------------- MODULE HomeAgentProofs --------------------------
(***************************************************************************)
(* The home agent's invariants, for every set of addresses, requests and   *)
(* lifetimes, and what its list of bindings is to the rest of the system:  *)
(* HomeAgent implements BindingLeases, each operation on the vector being  *)
(* the operation of the same meaning on the set of its elements, and the   *)
(* tunnel that follows the list passes packets on unchanged, for every     *)
(* list of bindings, every list of visitors and every width of the time to *)
(* live.                                                                   *)
(***************************************************************************)
EXTENDS HomeAgent, DataPath, CommonProofs

\* A leaf goes to the SMT solver, with a minute, unless it names a prover; then
\* to Zenon, and to the SMT solver once more.
USE SMTT(60), ZenonT(30), SMTT(90)

(***************************************************************************)
(* Every answer the agent builds is a well-formed reply.                   *)
(***************************************************************************)
LEMMA HAReplyType ==
  ASSUME NEW rr \in RequestPacket, NEW code \in Nat, NEW l \in Nat
  PROVE  haReply(rr, code, l) \in ReplyPacket
<1>1. /\ rr.src \in Addr /\ rr.dst \in Addr /\ rr.sport \in Nat /\ rr.link \in Link
      /\ rr.home \in Addr /\ rr.homeAgent \in Addr /\ rr.identification \in Id
  BY DEF RequestPacket
<1> DEFINE s == IF rr.dst = BroadcastAddr /\ rr.link = "home" THEN HAPrivate ELSE rr.dst
           k == IF l = 0 THEN "home" ELSE rr.link
<1>2. s \in Addr /\ k \in Link /\ RegistrationPort \in Nat
  BY <1>1, HAAssumption DEF Link, RegistrationPort
<1>3. haReply(rr, code, l) =
        buildRegistrationReply(UDPIP(k, s, RegistrationPort, rr.src, rr.sport),
                               l, code, rr.home, rr.homeAgent, rr.identification)
  BY DEF haReply
<1> HIDE DEF s, k
<1>4. buildRegistrationReply(UDPIP(k, s, RegistrationPort, rr.src, rr.sport),
                             l, code, rr.home, rr.homeAgent, rr.identification)
        \in ReplyPacket
  BY <1>1, <1>2, ReplyType, Zenon
<1> QED
  BY <1>3, <1>4, Zenon

LEMMA HAUnknownReplyType ==
  ASSUME NEW rr \in RequestPacket, haMaxLifetime \in HALifetimes
  PROVE  haUnknownReply(rr) \in ReplyPacket
<1>1. /\ rr.src \in Addr /\ rr.dst \in Addr /\ rr.sport \in Nat /\ rr.link \in Link
      /\ rr.home \in Addr /\ rr.homeAgent \in Addr /\ rr.identification \in Id
  BY DEF RequestPacket
<1> DEFINE s == IF rr.src # BroadcastAddr THEN rr.dst
                ELSE IF rr.link = "home" THEN HAPrivate ELSE AnyAddr
<1>2. s \in Addr /\ RegistrationPort \in Nat /\ HAPublic \in Addr /\ haMaxLifetime \in Nat
  BY <1>1, HAAssumption, PacketAssumption DEF RegistrationPort, UInt
<1>3. haUnknownReply(rr) =
        buildRegistrationReply(UDPIP(rr.link, s, RegistrationPort, rr.src, rr.sport),
                               haMaxLifetime, 136, rr.home, HAPublic, rr.identification)
  BY DEF haUnknownReply
<1> HIDE DEF s
<1>4. buildRegistrationReply(UDPIP(rr.link, s, RegistrationPort, rr.src, rr.sport),
                             haMaxLifetime, 136, rr.home, HAPublic, rr.identification)
        \in ReplyPacket
  BY <1>1, <1>2, ReplyType, ZenonT(60)
<1> QED
  BY <1>3, <1>4, Zenon

(***************************************************************************)
(* The lifetime an accepted request is given.                              *)
(***************************************************************************)
LEMMA HAGrantedRange ==
  ASSUME NEW rr \in RequestPacket, haMaxLifetime \in HALifetimes
  PROVE  /\ haGranted(rr) \in UInt /\ haGranted(rr) \in Nat
         /\ rr.lifetime # 0 /\ 0 \notin HALifetimes => haGranted(rr) \in 1..Infinity
<1>1. rr.lifetime \in 0..Infinity
  BY DEF RequestPacket
<1>2. haMaxLifetime \in UInt /\ (0 \notin HALifetimes => haMaxLifetime # 0)
  BY HAAssumption
<1> QED
  BY <1>1, <1>2, PacketAssumption DEF haGranted, Minimum, UInt

----------------------------------------------------------------------------
(***************************************************************************)
(* The inductive invariant: types, unique pairs and, unless the handler    *)
(* max_lifetime may be given 0, no expired entry.                          *)
(***************************************************************************)
HAInv ==
  /\ HATypeOK
  /\ UniqueBindings
  /\ 0 \notin HALifetimes => BindingsAlive

LEMMA HAInitInv == HAInit /\ net = {} => HAInv
<1> SUFFICES ASSUME HAInit, net = {} PROVE HAInv
  OBVIOUS
<1> USE DEF HAInit
<1>1. HATypeOK
  BY HAAssumption DEF HATypeOK
<1>2. UniqueBindings /\ BindingsAlive
  BY DEF UniqueBindings, BindingsAlive, NoDuplicatePairs, AllAlive
<1> QED
  BY <1>1, <1>2 DEF HAInv

LEMMA HANextInv == HAInv /\ [HANext]_haVars => HAInv'
<1> SUFFICES ASSUME HAInv, [HANext]_haVars PROVE HAInv'
  OBVIOUS
<1> DEFINE B == mobilityBindings
           Good(v) == /\ v \in Seq(MobilityBindingListItem)
                      /\ NoDuplicatePairs(v)
                      /\ 0 \notin HALifetimes => AllAlive(v)
<1>0. /\ net \subseteq (RequestPacket \cup ReplyPacket)
      /\ haMaxLifetime \in HALifetimes
      /\ Good(B)
  BY DEF HAInv, HATypeOK, UniqueBindings, BindingsAlive
<1>q. ASSUME net' \subseteq (RequestPacket \cup ReplyPacket),
             haMaxLifetime' \in HALifetimes, Good(B')
      PROVE  HAInv'
  BY <1>q DEF HAInv, HATypeOK, UniqueBindings, BindingsAlive
<1> HIDE DEF Good
<1>1. ASSUME NEW rr \in net, HAPush(rr) PROVE HAInv'
  <2>0. rr \in RequestPacket
    <3>1. rr.type = "REGISTRATION"
      BY <1>1 DEF HAPush, HAIgnore, HARefuse, HAUnknown, HADeregister, HARegister,
                  haAccepts, haReceives
    <3> QED
      BY <1>0, <3>1, RequestIsRequest
  <2>1. CASE HAIgnore(rr)
    <3>1. net' \subseteq (RequestPacket \cup ReplyPacket)
      BY <1>0, <2>1 DEF HAIgnore, haConsume
    <3> QED
      BY <1>0, <1>q, <2>1, <3>1 DEF HAIgnore, Good
  <2>2. CASE HARefuse(rr)
    <3>1. haRefusal(rr) \in Nat /\ rr.lifetime \in Nat
      BY <2>0, PacketAssumption DEF haRefusal, RequestPacket
    <3>2. haReply(rr, haRefusal(rr), rr.lifetime) \in ReplyPacket
      BY <2>0, <3>1, HAReplyType
    <3>3. net' \subseteq (RequestPacket \cup ReplyPacket)
      BY <1>0, <2>2, <3>2 DEF HARefuse, haConsume
    <3> QED
      BY <1>0, <1>q, <2>2, <3>3 DEF HARefuse, Good
  <2>3. CASE HAUnknown(rr)
    <3>1. haUnknownReply(rr) \in ReplyPacket
      BY <1>0, <2>0, HAUnknownReplyType
    <3>2. net' \subseteq (RequestPacket \cup ReplyPacket)
      BY <1>0, <2>3, <3>1 DEF HAUnknown, haConsume
    <3> QED
      BY <1>0, <1>q, <2>3, <3>2 DEF HAUnknown, Good
  <2>4. CASE HADeregister(rr)
    <3>1. haReply(rr, 0, 0) \in ReplyPacket
      BY <2>0, HAReplyType
    <3>2. net' \subseteq (RequestPacket \cup ReplyPacket)
      BY <1>0, <2>4, <3>1 DEF HADeregister, haConsume
    <3>3. ASSUME NEW K \in SUBSET (DOMAIN B)
          PROVE  Good(Retain(B, K))
      <4>1. 0 \notin HALifetimes => \A k \in K : B[k].remainingLifetime \in 1..Infinity
        BY <1>0 DEF Good, AllAlive
      <4> QED
        BY <1>0, <4>1, RetainBindings DEF Good
    <3>4. Good(B')
      BY <2>4, <3>3 DEF HADeregister, removeHome, removeBinding
    <3> QED
      BY <1>0, <1>q, <2>4, <3>2, <3>4 DEF HADeregister
  <2>5. CASE HARegister(rr)
    <3>1. /\ haGranted(rr) \in UInt /\ haGranted(rr) \in Nat
          /\ 0 \notin HALifetimes => haGranted(rr) \in 1..Infinity
      BY <1>0, <2>0, <2>5, HAGrantedRange DEF HARegister
    <3>2. haReply(rr, 0, haGranted(rr)) \in ReplyPacket
      BY <2>0, <3>1, HAReplyType
    <3>3. net' \subseteq (RequestPacket \cup ReplyPacket)
      BY <1>0, <2>5, <3>2 DEF HARegister, haConsume
    <3>4. rr.home \in Addr /\ rr.careOf \in Addr
      BY <2>0 DEF RequestPacket
    <3>5. Good(B')
      BY <1>0, <2>5, <3>1, <3>4, AddBinding DEF HARegister, Good
    <3> QED
      BY <1>0, <1>q, <2>5, <3>3, <3>5 DEF HARegister
  <2> QED
    BY <1>1, <2>1, <2>2, <2>3, <2>4, <2>5 DEF HAPush
<1>2. CASE HARunTimer
  <2>1. Good(B')
    BY <1>0, <1>2, DecreaseBindings DEF HARunTimer, Good
  <2> QED
    BY <1>0, <1>q, <1>2, <2>1 DEF HARunTimer
<1>3. ASSUME NEW l \in HALifetimes, HASetMaxLifetime(l) PROVE HAInv'
  BY <1>0, <1>q, <1>3 DEF HASetMaxLifetime, Good
<1>4. CASE HARestart
  <2>1. Good(B')
    BY <1>4 DEF HARestart, Good, NoDuplicatePairs, AllAlive
  <2> QED
    BY <1>0, <1>q, <1>4, <2>1, HAAssumption DEF HARestart
<1>5. ASSUME NEW rr \in HARequests, HASend(rr) PROVE HAInv'
  <2>1. net' \subseteq (RequestPacket \cup ReplyPacket)
    BY <1>5, HAAssumption DEF HASend
  <2> QED
    BY <1>0, <1>q, <1>5, <2>1 DEF HASend, Good
<1>6. CASE HATake
  <2>1. net' \subseteq (RequestPacket \cup ReplyPacket)
    BY <1>0, <1>6 DEF HATake
  <2> QED
    BY <1>0, <1>q, <1>6, <2>1 DEF HATake, Good
<1>7. CASE UNCHANGED haVars
  BY <1>0, <1>q, <1>7 DEF haVars, Good
<1> QED
  BY <1>1, <1>2, <1>3, <1>4, <1>5, <1>6, <1>7 DEF HANext, HAStep, HAEnv

(***************************************************************************)
(* Every reachable state of the home agent satisfies the invariant.        *)
(***************************************************************************)
THEOREM HAInvariant == HASpec => []HAInv
BY HAInitInv, HANextInv, PTL DEF HASpec, HAStart

(***************************************************************************)
(* The variables of MobileIPHomeAgent stay in their types.                 *)
(***************************************************************************)
THEOREM HATypeCorrect == HASpec => []HATypeOK
<1>1. HAInv => HATypeOK
  BY DEF HAInv
<1> QED
  BY <1>1, HAInvariant, PTL

(***************************************************************************)
(* MobilityBindingList never holds two entries of one home address and     *)
(* care-of address.                                                        *)
(***************************************************************************)
THEOREM HAUnique == HASpec => []UniqueBindings
<1>1. HAInv => UniqueBindings
  BY DEF HAInv
<1> QED
  BY <1>1, HAInvariant, PTL

(***************************************************************************)
(* Unless max_lifetime can be set to 0, the unsigned countdown of          *)
(* decreaseLifetime never starts from 0.                                   *)
(***************************************************************************)
THEOREM HAAlive ==
  ASSUME 0 \notin HALifetimes
  PROVE  HASpec => []BindingsAlive
<1>1. HAInv => BindingsAlive
  BY DEF HAInv
<1> QED
  BY <1>1, HAInvariant, PTL

----------------------------------------------------------------------------
(***************************************************************************)
(* decreaseLifetime is a second of the leases, if none has expired.        *)
(***************************************************************************)
LEMMA DecreaseSet ==
  ASSUME NEW v \in Seq(MobilityBindingListItem), AllAlive(v)
  PROVE  ElementsOf(decreaseBindings(v)) =
           {Leases!SecondLess(b) : b \in {x \in ElementsOf(v) : Leases!Outlasts(x)}}
<1> DEFINE a == [i \in DOMAIN v |-> Aged(v[i])]
           K == {i \in DOMAIN a : a[i].remainingLifetime # 0}
<1>1. ASSUME NEW i \in DOMAIN v
      PROVE  /\ a[i] \in MobilityBindingListItem
             /\ a[i] = Leases!SecondLess(v[i])
             /\ a[i].remainingLifetime # 0 <=> Leases!Outlasts(v[i])
  <2>1. v[i] \in MobilityBindingListItem /\ v[i].remainingLifetime \in 1..Infinity
    BY DEF AllAlive
  <2>2. MinusOne(v[i].remainingLifetime) = v[i].remainingLifetime - 1
    BY <2>1, PacketAssumption DEF MinusOne
  <2>3. v[i].remainingLifetime - 1 \in UInt
    BY <2>1, PacketAssumption DEF UInt
  <2>4. a[i] = Leases!SecondLess(v[i])
    BY <2>2 DEF Aged, Leases!SecondLess
  <2> QED
    BY <2>1, <2>2, <2>3, <2>4, PacketAssumption
       DEF Aged, MobilityBindingListItem, Leases!Outlasts
<1>2. a \in Seq(MobilityBindingListItem) /\ DOMAIN a = DOMAIN v
  BY <1>1
<1>3. decreaseBindings(v) = Retain(a, K)
  BY DEF decreaseBindings
<1> HIDE DEF a
<1>4. ElementsOf(decreaseBindings(v)) = {a[k] : k \in K}
  BY <1>2, <1>3, RetainSet
<1>5. K = {i \in DOMAIN v : Leases!Outlasts(v[i])}
  BY <1>1, <1>2
<1>6. {a[k] : k \in K} = {Leases!SecondLess(v[i]) : i \in {j \in DOMAIN v : Leases!Outlasts(v[j])}}
  BY <1>1, <1>2, <1>5
<1> QED
  BY <1>4, <1>6, ZenonT(60) DEF ElementsOf

----------------------------------------------------------------------------
(***************************************************************************)
(* The refinement: an accepted request is a Grant, a Release or a          *)
(* ReleaseAll, the timer a Second, a restart a Forget, and every other     *)
(* step leaves the leases alone.                                           *)
(***************************************************************************)
LEMMA HAInitLeases == HAStart => Leases!LeasesStart
BY DEF HAStart, HAInit, Leases!LeasesStart, haLeases

LEMMA HAStepLeases ==
  ASSUME 0 \notin HALifetimes, HAInv, [HANext]_haVars
  PROVE  [Leases!LeasesNext]_haLeases
<1> DEFINE B == mobilityBindings
<1>0. /\ B \in Seq(MobilityBindingListItem) /\ NoDuplicatePairs(B) /\ AllAlive(B)
      /\ haMaxLifetime \in HALifetimes
      /\ net \subseteq (RequestPacket \cup ReplyPacket)
  BY DEF HAInv, HATypeOK, UniqueBindings, BindingsAlive
<1>e. haLeases = ElementsOf(B) /\ haLeases' = ElementsOf(B')
  BY DEF haLeases, ElementsOf
<1>s. ASSUME B' = B PROVE [Leases!LeasesNext]_haLeases
  BY <1>s DEF haLeases
<1>1. ASSUME NEW rr \in net, HAPush(rr) PROVE [Leases!LeasesNext]_haLeases
  <2>1. CASE HAIgnore(rr) \/ HARefuse(rr) \/ HAUnknown(rr)
    BY <1>s, <2>1 DEF HAIgnore, HARefuse, HAUnknown
  <2>r. ASSUME haAccepts(rr)
        PROVE  rr \in RequestPacket /\ rr.home \in Addr /\ rr.careOf \in Addr
    <3>1. rr.type = "REGISTRATION"
      BY <2>r DEF haAccepts, haReceives
    <3>2. rr \in RequestPacket
      BY <1>0, <3>1, RequestIsRequest
    <3> QED
      BY <3>2 DEF RequestPacket
  <2>2. CASE HADeregister(rr)
    <3>0. rr.home \in Addr /\ rr.careOf \in Addr
      BY <2>2, <2>r DEF HADeregister
    <3>1. CASE rr.careOf = rr.home
      <4>1. B' = removeHome(B, rr.home)
        BY <2>2, <3>1 DEF HADeregister
      <4>2. haLeases' = {b \in haLeases : b.homeAddress # rr.home}
        BY <1>0, <1>e, <4>1, RemoveSet, ZenonT(60)
      <4> QED
        BY <3>0, <4>2 DEF Leases!LeasesNext, Leases!ReleaseAll
    <3>2. CASE rr.careOf # rr.home
      <4>1. B' = removeBinding(B, rr.home, rr.careOf)
        BY <2>2, <3>2 DEF HADeregister
      <4>2. haLeases' = {b \in haLeases : ~(b.homeAddress = rr.home /\ b.careOfAddress = rr.careOf)}
        BY <1>0, <1>e, <4>1, RemoveSet
      <4>3. haLeases' = haLeases \ Leases!LeasesOf(rr.home, rr.careOf)
        BY <4>2 DEF Leases!LeasesOf
      <4> QED
        BY <3>0, <4>3 DEF Leases!LeasesNext, Leases!Release
    <3> QED
      BY <3>1, <3>2
  <2>3. CASE HARegister(rr)
    <3>0. rr \in RequestPacket /\ rr.home \in Addr /\ rr.careOf \in Addr
      BY <2>3, <2>r DEF HARegister
    <3> DEFINE l == haGranted(rr)
    <3>1. l \in UInt /\ l \in 1..Infinity
      BY <1>0, <2>3, <3>0, HAGrantedRange DEF HARegister
    <3>2. B' = addBinding(B, rr.home, rr.careOf, l)
      BY <2>3 DEF HARegister
    <3> HIDE DEF l
    <3>3. haLeases' =
            {b \in haLeases : ~(b.homeAddress = rr.home /\ b.careOfAddress = rr.careOf)}
              \cup {[homeAddress |-> rr.home, careOfAddress |-> rr.careOf,
                     remainingLifetime |-> l]}
      BY <1>0, <1>e, <3>0, <3>1, <3>2, AddSet
    <3>4. Leases!Grant(rr.home, rr.careOf, l)
      BY <3>3 DEF Leases!Grant, Leases!LeasesOf
    <3> QED
      BY <3>0, <3>1, <3>4 DEF Leases!LeasesNext
  <2> QED
    BY <1>1, <2>1, <2>2, <2>3 DEF HAPush
<1>2. CASE HARunTimer
  <2>1. B' = decreaseBindings(B)
    BY <1>2 DEF HARunTimer
  <2>2. Leases!Second
    BY <1>0, <1>e, <2>1, DecreaseSet DEF Leases!Second
  <2> QED
    BY <2>2 DEF Leases!LeasesNext
<1>3. CASE HARestart
  <2>1. haLeases' = {}
    BY <1>3 DEF HARestart, haLeases
  <2> QED
    BY <2>1 DEF Leases!LeasesNext, Leases!Forget
<1>4. ASSUME NEW l \in HALifetimes, HASetMaxLifetime(l) PROVE [Leases!LeasesNext]_haLeases
  BY <1>s, <1>4 DEF HASetMaxLifetime
<1>5. ASSUME NEW rr \in HARequests, HASend(rr) PROVE [Leases!LeasesNext]_haLeases
  BY <1>s, <1>5 DEF HASend
<1>6. CASE HATake
  BY <1>s, <1>6 DEF HATake
<1>7. CASE UNCHANGED haVars
  BY <1>s, <1>7 DEF haVars
<1> QED
  BY <1>1, <1>2, <1>3, <1>4, <1>5, <1>6, <1>7 DEF HANext, HAStep, HAEnv

(***************************************************************************)
(* Unless max_lifetime can be set to 0, the home agent is a lease table:   *)
(* every step on its vector is a step of BindingLeases or leaves the       *)
(* leases unchanged.                                                       *)
(***************************************************************************)
THEOREM HAImplementsLeases ==
  ASSUME 0 \notin HALifetimes
  PROVE  HASpec => ImplementsLeases
<1>1. HAInv /\ [HANext]_haVars => [Leases!LeasesNext]_haLeases
  BY HAStepLeases
<1> QED
  BY <1>1, HAInitLeases, HAInvariant, PTL DEF HASpec, ImplementsLeases, Leases!LeasesSpec

----------------------------------------------------------------------------
(***************************************************************************)
(* What the agent tells a node is what it records: an answer of code 0     *)
(* with a lifetime is only sent with the binding that has that lifetime.   *)
(***************************************************************************)
GrantRecorded ==
  \A p \in net' \ net :
    p.type = "REPLY" /\ p.code = 0 /\ p.lifetime # 0
    => \E i \in HomeBindings(mobilityBindings', p.home) :
         mobilityBindings'[i].remainingLifetime = p.lifetime

LEMMA HAStepGrant ==
  ASSUME HAInv, [HANext]_haVars
  PROVE  GrantRecorded
<1> DEFINE B == mobilityBindings
<1>0. /\ B \in Seq(MobilityBindingListItem) /\ NoDuplicatePairs(B)
      /\ haMaxLifetime \in HALifetimes
      /\ net \subseteq (RequestPacket \cup ReplyPacket)
  BY DEF HAInv, HATypeOK, UniqueBindings
<1>s. ASSUME net' \subseteq net PROVE GrantRecorded
  BY <1>s DEF GrantRecorded
<1>o. ASSUME NEW rr, NEW q, net' = (net \ {rr}) \cup {q},
             q.code # 0 \/ q.lifetime = 0
      PROVE  GrantRecorded
  BY <1>o DEF GrantRecorded
<1>1. ASSUME NEW rr \in net, HAPush(rr) PROVE GrantRecorded
  <2>1. CASE HAIgnore(rr)
    BY <1>s, <2>1 DEF HAIgnore, haConsume
  <2>2. CASE HARefuse(rr)
    <3>1. haReply(rr, haRefusal(rr), rr.lifetime).code # 0
      BY <2>2 DEF HARefuse, haReply, buildRegistrationReply
    <3> QED
      BY <1>o, <2>2, <3>1 DEF HARefuse, haConsume
  <2>3. CASE HAUnknown(rr)
    <3>1. haUnknownReply(rr).code # 0
      BY DEF haUnknownReply, buildRegistrationReply
    <3> QED
      BY <1>o, <2>3, <3>1 DEF HAUnknown, haConsume
  <2>4. CASE HADeregister(rr)
    <3>1. haReply(rr, 0, 0).lifetime = 0
      BY PacketAssumption DEF haReply, buildRegistrationReply, htons
    <3> QED
      BY <1>o, <2>4, <3>1 DEF HADeregister, haConsume
  <2>5. CASE HARegister(rr)
    <3>1. rr \in RequestPacket
      <4>1. rr.type = "REGISTRATION"
        BY <2>5 DEF HARegister, haAccepts, haReceives
      <4> QED
        BY <1>0, <4>1, RequestIsRequest
    <3>2. rr.home \in Addr /\ rr.careOf \in Addr /\ rr.lifetime \in 0..Infinity
      BY <3>1 DEF RequestPacket
    <3> DEFINE l == haGranted(rr)
               q == haReply(rr, 0, l)
               e == [homeAddress |-> rr.home, careOfAddress |-> rr.careOf,
                     remainingLifetime |-> l]
    <3>3. l \in UInt /\ l \in 0..Infinity
      BY <1>0, <3>1, <3>2, HAGrantedRange, HAAssumption, PacketAssumption
         DEF haGranted, Minimum, UInt
    <3>4. q.lifetime = l /\ q.home = rr.home
      BY <3>3, PacketAssumption DEF haReply, buildRegistrationReply, htons
    <3>5. B' = addBinding(B, rr.home, rr.careOf, l) /\ net' = (net \ {rr}) \cup {q}
      BY <2>5 DEF HARegister, haConsume
    <3> HIDE DEF l, q
    <3>6. e \in ElementsOf(B')
      BY <1>0, <3>2, <3>3, <3>5, AddSet
    <3>7. PICK i \in DOMAIN B' : B'[i] = e
      BY <3>6 DEF ElementsOf
    <3>8. B'[i].homeAddress = q.home /\ B'[i].remainingLifetime = q.lifetime
      BY <3>4, <3>7
    <3> QED
      BY <3>5, <3>7, <3>8 DEF GrantRecorded, HomeBindings
  <2> QED
    BY <1>1, <2>1, <2>2, <2>3, <2>4, <2>5 DEF HAPush
<1>2. ASSUME NEW rr \in HARequests, HASend(rr) PROVE GrantRecorded
  <2>1. rr.type # "REPLY"
    BY HAAssumption DEF RequestPacket
  <2> QED
    BY <1>2, <2>1 DEF HASend, GrantRecorded
<1>3. CASE HATake
  BY <1>s, <1>3 DEF HATake
<1>4. CASE HARunTimer \/ HARestart \/ UNCHANGED haVars
  BY <1>s, <1>4 DEF HARunTimer, HARestart, haVars
<1>5. ASSUME NEW l \in HALifetimes, HASetMaxLifetime(l) PROVE GrantRecorded
  BY <1>s, <1>5 DEF HASetMaxLifetime
<1> QED
  BY <1>1, <1>2, <1>3, <1>4, <1>5 DEF HANext, HAStep, HAEnv

(***************************************************************************)
(* Every answer of code 0 with a lifetime comes with a binding of exactly  *)
(* that lifetime, whatever the limits were before.                         *)
(***************************************************************************)
THEOREM HAGrantRecorded == HASpec => GrantIsRecorded
<1>1. HAInv /\ [HANext]_haVars => [GrantRecorded]_haVars
  BY HAStepGrant
<1> QED
  BY <1>1, HAInvariant, PTL DEF HASpec, GrantIsRecorded, GrantRecorded

----------------------------------------------------------------------------
(***************************************************************************)
(* The tunnel of a home address follows its oldest binding.                *)
(***************************************************************************)
TunnelKept(v, w, h) ==
  LET c == getCareOfAddress(v, h)
  IN  isMobileBinded(v, h) /\ BindingsOf(w, h, c) # {} => getCareOfAddress(w, h) = c

(***************************************************************************)
(* A vector with the same pairs as v, from which any positions are erased. *)
(***************************************************************************)
LEMMA RetainTunnel ==
  ASSUME NEW v \in Seq(MobilityBindingListItem), NoDuplicatePairs(v),
         NEW a \in Seq(MobilityBindingListItem), DOMAIN a = DOMAIN v,
         \A i \in DOMAIN v : /\ a[i].homeAddress = v[i].homeAddress
                             /\ a[i].careOfAddress = v[i].careOfAddress,
         NEW K \in SUBSET (DOMAIN a), NEW h
  PROVE  TunnelKept(v, Retain(a, K), h)
<1> DEFINE w == Retain(a, K)
           H == HomeBindings(v, h)
           f == FirstOf(H)
           c == v[f].careOfAddress
<1>1. w \in Seq(MobilityBindingListItem) /\ IsThinned(w, a, K)
  BY RetainProperties
<1> HIDE DEF w
<1>2. PICK m \in [1..Len(w) -> K] :
        /\ \A i, j \in 1..Len(w) : i < j => m[i] < m[j]
        /\ \A i \in 1..Len(w) : w[i] = a[m[i]]
  BY <1>1, Zenon DEF IsThinned
<1>3. DOMAIN w = 1..Len(w) /\ Len(w) \in Nat /\ DOMAIN v \in SUBSET Nat
  BY <1>1
<1>4. SUFFICES ASSUME H # {}, BindingsOf(w, h, c) # {}
               PROVE  getCareOfAddress(w, h) = c
  BY DEF TunnelKept, getCareOfAddress, isMobileBinded, w
<1>5. f \in H /\ \A j \in H : f <= j
  <2>1. H \in SUBSET Nat
    BY <1>3 DEF HomeBindings
  <2> QED
    BY <1>4, <2>1, FirstOfMember
<1>6. f \in DOMAIN v /\ v[f].homeAddress = h
  BY <1>5 DEF HomeBindings
<1> HIDE DEF f
<1>7. PICK i \in DOMAIN w : w[i].homeAddress = h /\ w[i].careOfAddress = c
  BY <1>4 DEF BindingsOf
<1>8. m[i] = f
  <2>1. m[i] \in DOMAIN v /\ w[i] = a[m[i]]
    BY <1>2, <1>3, <1>7
  <2>2. v[m[i]].homeAddress = h /\ v[m[i]].careOfAddress = c
    BY <1>7, <2>1
  <2> QED
    BY <1>6, <2>1, <2>2 DEF NoDuplicatePairs
<1> DEFINE G == HomeBindings(w, h)
           g == FirstOf(G)
<1>9. g \in DOMAIN w /\ w[g].homeAddress = h /\ g <= i
  <2>1. i \in G /\ G \in SUBSET Nat
    BY <1>3, <1>7 DEF HomeBindings
  <2>2. g \in G /\ g <= i
    BY <2>1, FirstOfMember
  <2> QED
    BY <2>2 DEF HomeBindings
<1>10. f <= m[g]
  <2>1. m[g] \in DOMAIN v /\ w[g] = a[m[g]]
    BY <1>2, <1>3, <1>9
  <2>2. m[g] \in H
    BY <1>9, <2>1 DEF HomeBindings
  <2> QED
    BY <1>5, <2>2
<1>11. G # {} /\ getCareOfAddress(w, h) = w[g].careOfAddress
  <2>1. i \in G
    BY <1>7 DEF HomeBindings
  <2> QED
    BY <2>1 DEF getCareOfAddress, isMobileBinded
<1> HIDE DEF g
<1>12. g = i
  <2>1. m[g] \in Nat /\ m[i] \in Nat /\ g \in 1..Len(w) /\ i \in 1..Len(w)
    BY <1>2, <1>3, <1>7, <1>9
  <2>2. ~(g < i)
    BY <1>2, <1>8, <1>10, <2>1
  <2> QED
    BY <1>3, <1>9, <2>1, <2>2
<1> QED
  BY <1>7, <1>11, <1>12

(***************************************************************************)
(* A registration updates in place or adds behind all others.              *)
(***************************************************************************)
LEMMA AddTunnel ==
  ASSUME NEW v \in Seq(MobilityBindingListItem), NEW home \in Addr, NEW careOf \in Addr,
         NEW l \in UInt, NEW h
  PROVE  TunnelKept(v, addBinding(v, home, careOf, l), h)
<1> DEFINE w == addBinding(v, home, careOf, l)
           H == HomeBindings(v, h)
           G == HomeBindings(w, h)
<1>1. /\ DOMAIN v \subseteq DOMAIN w /\ DOMAIN w \subseteq Nat
      /\ \A i \in DOMAIN v : /\ w[i].homeAddress = v[i].homeAddress
                             /\ w[i].careOfAddress = v[i].careOfAddress
      /\ \A i \in DOMAIN v, j \in DOMAIN w \ DOMAIN v : i < j
  <2> DEFINE I == BindingsOf(v, home, careOf)
             e == [homeAddress |-> home, careOfAddress |-> careOf, remainingLifetime |-> l]
  <2>1. CASE I # {}
    <3> DEFINE k == FirstOf(I)
    <3>1. k \in DOMAIN v
      <4>1. I \in SUBSET Nat /\ I \in SUBSET DOMAIN v
        BY DEF BindingsOf
      <4> QED
        BY <2>1, <4>1, FirstOfMember
    <3>2. w = [v EXCEPT ![k].remainingLifetime = l]
      BY <2>1 DEF addBinding
    <3>3. v[k] \in MobilityBindingListItem
      BY <3>1
    <3>4. /\ [v[k] EXCEPT !.remainingLifetime = l].homeAddress = v[k].homeAddress
          /\ [v[k] EXCEPT !.remainingLifetime = l].careOfAddress = v[k].careOfAddress
      BY <3>3 DEF MobilityBindingListItem
    <3> HIDE DEF k, w
    <3> QED
      BY <3>1, <3>2, <3>4
  <2>2. CASE I = {}
    <3>1. w = Append(v, e)
      BY <2>2 DEF addBinding
    <3>2. e \in MobilityBindingListItem
      BY DEF MobilityBindingListItem
    <3> HIDE DEF w, e
    <3> QED
      BY <3>1, <3>2
  <2> QED
    BY <2>1, <2>2
<1> HIDE DEF w
<1>2. SUFFICES ASSUME H # {} PROVE getCareOfAddress(w, h) = v[FirstOf(H)].careOfAddress
  BY DEF TunnelKept, getCareOfAddress, isMobileBinded, w
<1>3. H \subseteq G /\ \A j \in G \ H, i \in H : i < j
  BY <1>1 DEF HomeBindings
<1>4. H \in SUBSET Nat /\ G \in SUBSET Nat /\ G # {} /\ H \subseteq DOMAIN v
  BY <1>1, <1>2, <1>3 DEF HomeBindings
<1>5. FirstOf(H) \in H /\ \A j \in H : FirstOf(H) <= j
  BY <1>2, <1>4, FirstOfMember
<1>6. FirstOf(G) \in G /\ \A j \in G : FirstOf(G) <= j
  BY <1>4, FirstOfMember
<1>7. FirstOf(G) = FirstOf(H)
  <2>1. FirstOf(G) <= FirstOf(H)
    BY <1>3, <1>5, <1>6
  <2>2. FirstOf(G) \in H
    BY <1>3, <1>4, <1>5, <1>6, <2>1
  <2> QED
    BY <1>4, <1>5, <2>1, <2>2
<1> QED
  BY <1>1, <1>4, <1>5, <1>7 DEF getCareOfAddress, isMobileBinded

TunnelsKept == \A h \in Addr : TunnelKept(mobilityBindings, mobilityBindings', h)

LEMMA HAStepTunnel ==
  ASSUME HAInv, [HANext]_haVars
  PROVE  TunnelsKept
<1> DEFINE B == mobilityBindings
<1>0. /\ B \in Seq(MobilityBindingListItem) /\ NoDuplicatePairs(B)
      /\ haMaxLifetime \in HALifetimes
      /\ net \subseteq (RequestPacket \cup ReplyPacket)
  BY DEF HAInv, HATypeOK, UniqueBindings
<1>s. ASSUME B' = B PROVE TunnelsKept
  BY <1>s DEF TunnelsKept, TunnelKept
<1>r. ASSUME NEW K \in SUBSET (DOMAIN B), B' = Retain(B, K) PROVE TunnelsKept
  BY <1>0, <1>r, RetainTunnel DEF TunnelsKept
<1>1. ASSUME NEW rr \in net, HAPush(rr) PROVE TunnelsKept
  <2>1. CASE HAIgnore(rr) \/ HARefuse(rr) \/ HAUnknown(rr)
    BY <1>s, <2>1 DEF HAIgnore, HARefuse, HAUnknown
  <2>2. CASE HADeregister(rr)
    BY <1>r, <2>2 DEF HADeregister, removeHome, removeBinding
  <2>3. CASE HARegister(rr)
    <3>1. rr \in RequestPacket
      <4>1. rr.type = "REGISTRATION"
        BY <2>3 DEF HARegister, haAccepts, haReceives
      <4> QED
        BY <1>0, <4>1, RequestIsRequest
    <3>2. rr.home \in Addr /\ rr.careOf \in Addr /\ haGranted(rr) \in UInt
      BY <1>0, <3>1, HAGrantedRange DEF RequestPacket
    <3> QED
      BY <1>0, <2>3, <3>2, AddTunnel DEF HARegister, TunnelsKept
  <2> QED
    BY <1>1, <2>1, <2>2, <2>3 DEF HAPush
<1>2. CASE HARunTimer
  <2> DEFINE a == [i \in DOMAIN B |-> Aged(B[i])]
             K == {i \in DOMAIN a : a[i].remainingLifetime # 0}
  <2>1. ASSUME NEW i \in DOMAIN B
        PROVE  /\ a[i] \in MobilityBindingListItem
               /\ a[i].homeAddress = B[i].homeAddress
               /\ a[i].careOfAddress = B[i].careOfAddress
    <3>1. B[i] \in MobilityBindingListItem
      BY <1>0
    <3>2. B[i].remainingLifetime \in UInt
      BY <3>1 DEF MobilityBindingListItem
    <3>3. MinusOne(B[i].remainingLifetime) \in UInt
      BY <3>2, PacketAssumption DEF MinusOne, UInt
    <3> QED
      BY <3>1, <3>3 DEF Aged, MobilityBindingListItem
  <2>2. a \in Seq(MobilityBindingListItem) /\ DOMAIN a = DOMAIN B
    BY <1>0, <2>1
  <2>3. B' = Retain(a, K)
    BY <1>2 DEF HARunTimer, decreaseBindings
  <2> HIDE DEF a
  <2> QED
    BY <1>0, <2>1, <2>2, <2>3, RetainTunnel DEF TunnelsKept
<1>3. CASE HARestart
  BY <1>3 DEF HARestart, TunnelsKept, TunnelKept, BindingsOf
<1>4. ASSUME NEW l \in HALifetimes, HASetMaxLifetime(l) PROVE TunnelsKept
  BY <1>s, <1>4 DEF HASetMaxLifetime
<1>5. ASSUME NEW rr \in HARequests, HASend(rr) PROVE TunnelsKept
  BY <1>s, <1>5 DEF HASend
<1>6. CASE HATake \/ UNCHANGED haVars
  BY <1>s, <1>6 DEF HATake, haVars
<1> QED
  BY <1>1, <1>2, <1>3, <1>4, <1>5, <1>6 DEF HANext, HAStep, HAEnv

(***************************************************************************)
(* getCareOfAddress goes on naming the same care-of address as long as its *)
(* binding is there, for any number of nodes and bindings.                 *)
(***************************************************************************)
THEOREM HATunnelStable == HASpec => TunnelStable
<1>1. HAInv /\ [HANext]_haVars => [TunnelsKept]_haVars
  BY HAStepTunnel
<1> QED
  BY <1>1, HAInvariant, PTL DEF HASpec, TunnelStable, TunnelsKept, TunnelKept

(***************************************************************************)
(* What the encapsulator puts on the wire for a node with a binding.       *)
(***************************************************************************)
LEMMA Encapsulated ==
  ASSUME NEW b, NEW ha, NEW p \in DataPacket, p.ttl > 0, isMobileBinded(b, p.dst)
  PROVE  encapsulate(b, ha, p) =
           IF p.ttl <= 2 THEN {}
           ELSE {[type |-> "IPINIP", src |-> ha, dst |-> getCareOfAddress(b, p.dst),
                  ttl |-> p.ttl - 2, inner |-> p]}
<1>1. p.ttl \in Nat
  BY TTLAssumption DEF DataPacket, TTL
<1> DEFINE q == buildTunnelIPPacket(p, ha, getCareOfAddress(b, p.dst))
<1>2. q = [type |-> "IPINIP", src |-> ha, dst |-> getCareOfAddress(b, p.dst),
           ttl |-> p.ttl - 1, inner |-> p]
  BY <1>1 DEF buildTunnelIPPacket, ttlLess
<1>3. encapsulate(b, ha, p) = IF q.ttl <= 1 THEN {} ELSE {[q EXCEPT !.ttl = q.ttl - 1]}
  BY DEF encapsulate, DecIPTTL
<1>4. q.ttl = p.ttl - 1 /\ q.ttl - 1 = p.ttl - 2
  BY <1>1, <1>2
<1>5. [q EXCEPT !.ttl = p.ttl - 2] =
        [type |-> "IPINIP", src |-> ha, dst |-> getCareOfAddress(b, p.dst),
         ttl |-> p.ttl - 2, inner |-> p]
  BY <1>2
<1> HIDE DEF q
<1> QED
  BY <1>1, <1>3, <1>4, <1>5

(***************************************************************************)
(* The tunnel is transparent: what the foreign agent takes out of it and   *)
(* passes on has the source and the destination of the packet that went    *)
(* in, and less time to live.  A packet that came in with a time to live   *)
(* of 0 is left out: buildTunnelIPPacket takes it round to 255.            *)
(***************************************************************************)
THEOREM TunnelTransparent ==
  ASSUME NEW b, NEW v, NEW ha, NEW p \in DataPacket, p.ttl > 0, isMobileBinded(b, p.dst),
         NEW t \in encapsulate(b, ha, p), NEW d \in decapsulate(v, t)
  PROVE  /\ d.src = p.src /\ d.dst = p.dst
         /\ d.ttl \in 1..(p.ttl - 3)
<1>1. p.ttl \in Nat /\ DOMAIN p = {"type", "src", "dst", "ttl"}
  BY TTLAssumption DEF DataPacket, TTL
<1>2. /\ p.ttl > 2
      /\ t = [type |-> "IPINIP", src |-> ha, dst |-> getCareOfAddress(b, p.dst),
              ttl |-> p.ttl - 2, inner |-> p]
  BY <1>1, Encapsulated
<1>3. t.inner = p /\ t.ttl = p.ttl - 2
  BY <1>2
<1> DEFINE q == [p EXCEPT !.ttl = t.ttl]
<1>4. q.ttl = t.ttl /\ q.src = p.src /\ q.dst = p.dst
  BY DEF DataPacket
<1>5. d \in DecIPTTL(q)
  BY <1>3 DEF decapsulate
<1>6. q.ttl > 1 /\ d = [q EXCEPT !.ttl = q.ttl - 1]
  BY <1>1, <1>3, <1>4, <1>5 DEF DecIPTTL
<1>7. d.ttl = q.ttl - 1 /\ d.src = q.src /\ d.dst = q.dst
  BY <1>6 DEF DataPacket
<1> QED
  BY <1>1, <1>3, <1>4, <1>6, <1>7

(***************************************************************************)
(* And it is open: a packet that can make four hops gets out at the        *)
(* foreign agent its node is bound to, if that agent has the node on its   *)
(* list of visitors with the home agent that sent it.                      *)
(***************************************************************************)
THEOREM TunnelDelivers ==
  ASSUME NEW b, NEW v, NEW ha, NEW p \in DataPacket, p.ttl > 3, isMobileBinded(b, p.dst),
         hasVisitor(v, p.dst, ha)
  PROVE  \E t \in encapsulate(b, ha, p) :
           /\ t.type = "IPINIP" /\ t.dst = getCareOfAddress(b, p.dst)
           /\ decapsulate(v, t) # {}
<1>1. p.ttl \in Nat
  BY TTLAssumption DEF DataPacket, TTL
<1> DEFINE t == [type |-> "IPINIP", src |-> ha, dst |-> getCareOfAddress(b, p.dst),
                 ttl |-> p.ttl - 2, inner |-> p]
<1>2. t \in encapsulate(b, ha, p)
  BY <1>1, Encapsulated
<1> DEFINE q == [p EXCEPT !.ttl = t.ttl]
<1>3. q.ttl = p.ttl - 2
  BY DEF DataPacket
<1>4. decapsulate(v, t) = DecIPTTL(q)
  BY DEF decapsulate
<1>5. DecIPTTL(q) # {}
  <2>1. ~(q.ttl <= 1)
    BY <1>1, <1>3
  <2> HIDE DEF q
  <2>2. DecIPTTL(q) = {[q EXCEPT !.ttl = q.ttl - 1]}
    BY <2>1 DEF DecIPTTL
  <2> QED
    BY <2>2, Zenon
<1> QED
  BY <1>2, <1>4, <1>5
=============================================================================
