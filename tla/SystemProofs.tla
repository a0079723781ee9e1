---------------------------- MODULE SystemProofs ----------------------------
(***************************************************************************)
(* The composition: the steps of the node, of the clocks and of the links  *)
(* keep the invariant of RegistrationProofs, so the countdowns of one      *)
(* registration keep in step, a registration delivers, and what was proved *)
(* of each process alone holds of it among the others.                     *)
(***************************************************************************)
EXTENDS RegistrationProofs

\* A leaf goes to the SMT solver, with a minute, unless it names a prover; then
\* to Zenon, and to the SMT solver once more.
USE SMTT(60), ZenonT(30), SMTT(90)

(***************************************************************************)
(* The node takes an answer.  What it counts from then on is the lease.    *)
(***************************************************************************)
LEMMA GrantedIsLease ==
  ASSUME NEW a \in Lifetimes, a # 0, Lease # 0
  PROVE  (a + UIntMod - absDifference(Lease, a)) % UIntMod = Lease
<1>1. a \in Nat /\ Lease \in Nat /\ Lease <= a /\ Lease < UIntMod /\ UIntMod \in Nat \ {0}
  BY LifetimesFit, LifetimesCut, LifetimeFacts
<1>2. a < Infinity /\ Infinity \in Nat /\ 2 * Infinity <= UIntMod
  BY LifetimeFacts, MAssumption DEF Lifetimes
<1>3. a + UIntMod - absDifference(Lease, a) = Lease + UIntMod
  <2>1. absDifference(Lease, a) = a - Lease
    BY <1>1, <1>2 DEF absDifference, Minimum
  <2> QED
    BY <1>1, <2>1
<1>4. (Lease + UIntMod) % UIntMod = Lease
  BY <1>1
<1> QED
  BY <1>3, <1>4

LEMMA BackedFresh ==
  ASSUME NEW reg, NEW b, NEW v, ListsOK(b, v), NEW t,
         reg => BindingFor(b, Lease) /\ VisitFor(v, Lease)
  PROVE  Backed(reg, Lease, "foreign", b, v, t)
<1>1. ASSUME NEW s \in {0, 1}, Lease > s PROVE Lease - s \in Nat /\ Lease - s <= Lease
  BY <1>1, LifetimeFacts
<1>2. Slack(t, "ha") \in {0, 1} /\ Slack(t, "fa") \in {0, 1}
  BY DEF Slack
<1>3. Lease \in Nat /\ Lease <= Lease
  BY LifetimeFacts
<1> QED
  BY <1>1, <1>2, <1>3, LastsLess, VisitLastsLess, Zenon
     DEF Backed, BindingFor, VisitFor, ListsOK

LEMMA SysNode ==
  ASSUME SysInv, NEW p \in net, MPNode(p)
  PROVE  SysInv'
<1> USE Zenon
<1>1. /\ MNPush(p) /\ mReadings /\ turns' = turns
      /\ UNCHANGED haState /\ UNCHANGED faState /\ UNCHANGED solVars
      /\ grants' = grants \ {p.identification}
      /\ registered' = IF MNAccept(p) /\ p.src = FAPrivate
                       THEN p.identification \in grants ELSE registered
  BY DEF MPNode
<1>2. MNInv'
  BY <1>1, MNInvPush DEF SysInv
<1>3. mnGetsReply(p)
  BY <1>1 DEF MNPush, MNDie, MNIgnore, MNAccept, MNRetry, MNLearn, MNRefused, mnProcesses
<1>4. p.type = "REPLY" /\ p.link = mnLink /\ mnRunning
  BY <1>3 DEF mnGetsReply
<1>5. p \in ReplyPacket /\ ProperReply(p)
  BY <1>4, ReplyIsReply DEF SysInv, Flight, NetGood, Proper
<1>6. /\ mnLink \in {"home", "foreign"} /\ TurnsOK(turns) /\ ConnectionGood(connection)
      /\ Linked(net, mnRequests) /\ ItemsGood(mnRequests)
      /\ Covered(net, grants, mobilityBindings, visitors)
      /\ Backed(registered, connection.remainingLifetime, mnLink, mobilityBindings,
                visitors, turns)
  BY DEF SysInv, Settings, Flight, Held
<1>7. MNTypeOK /\ connection \in agentConnection /\ ListsOK(mobilityBindings, visitors)
  BY SysTypes, SMTT(60)
<1> DEFINE k == grants \ {p.identification}
<1>8. k \in SUBSET grants /\ grants' = k
  BY <1>1, SMTT(60)
<1> HIDE DEF k
<1>9. CASE MNDie(p) \/ MNIgnore(p)
  <2>1. ~MNAccept(p)
    BY <1>4, <1>9 DEF MNDie, MNIgnore, MNAccept, mnProcesses
  <2>2. registered' = registered
    BY <1>1, <2>1
  <2>3. /\ net' \in SUBSET net /\ mnLink' = mnLink
        /\ UNCHANGED <<homeAgentPublic, mnRequests, connection>>
    BY <1>9 DEF MNDie, MNIgnore
  <2>4. /\ UNCHANGED <<haState, faState, homeAgentPublic, mnRequests, connection>>
        /\ mnLink' \in {"home", "foreign"} /\ turns' = turns
    BY <1>1, <1>6, <2>3
  <2> QED
    BY <1>2, <1>8, <2>2, <2>3, <2>4, SysSilent
<1>10. ASSUME mnProcesses(p)
       PROVE  mnOthers(p) \in Seq(MNRequestItem) /\ StemsFrom(mnOthers(p), mnRequests)
  BY <1>7, <1>10, MNProcessed
<1>11. <<>> \in Seq(Ask) /\ AsksGood(<<>>)
  BY SMTT(60) DEF AsksGood
<1>12. CASE MNAccept(p)
  <2>1. /\ mnProcesses(p) /\ p.code \in {0, 1}
        /\ mnSend({p}, mnOthers(p), <<>>, homeAgentPublic)
        /\ UNCHANGED <<homeAgentPublic, mnLink>>
    BY <1>12 DEF MNAccept
  <2>2. /\ connection'.lifetime = connection.lifetime
        /\ connection'.agentAddress = connection.agentAddress
        /\ connection'.remainingLifetime = mnGranted(p)
    BY <1>7, <1>12 DEF MNAccept, agentConnection
  <2>3. ConnectionGood(connection')
    BY <1>6, <2>2 DEF ConnectionGood
  <2>4. CASE p.link = "home"
    <3>1. p.src # FAPrivate /\ mnLink # "foreign"
      BY <1>4, <1>5, <2>4 , SMTT(60) DEF ProperReply
    <3>2. registered' = registered /\ ~registered
      BY <1>1, <1>6, <3>1 DEF Backed
    <3>3. Backed(registered', connection'.remainingLifetime, mnLink, mobilityBindings,
                 visitors, turns')
      BY <3>2 DEF Backed
    <3> QED
      BY <1>1, <1>2, <1>6, <1>8, <1>10, <1>11, <2>1, <2>3, <3>3, SysSends
  <2>5. CASE p.link = "foreign"
    <3>1. p.src = FAPrivate /\ p.lifetime = Lease /\ Lease # 0 /\ IsGrant(p)
      BY <1>4, <1>5, <2>1, <2>5 DEF ProperReply, IsGrant
    <3>2. registered' => BindingFor(mobilityBindings, Lease) /\ VisitFor(visitors, Lease)
      BY <1>1, <1>6, <1>12, <2>5, <3>1 DEF Covered
    <3>3. PICK j \in DOMAIN mnRequests : /\ mnRequest(p) = mnRequests[j]
                                         /\ mnRequests[j].identification = p.identification
      BY <1>7, <2>1, MNProcessed
    <3>4. mnRequest(p).requestedLifetime \in Lifetimes /\ mnRequest(p).requestedLifetime # 0
      BY <1>6, <3>1, <3>3 DEF Linked, ItemsGood, GoodItem
    <3>5. mnGranted(p) = Lease
      BY <3>1, <3>4, GrantedIsLease DEF mnGranted
    <3>6. Backed(registered', connection'.remainingLifetime, mnLink, mobilityBindings,
                 visitors, turns')
      BY <1>4, <1>7, <2>2, <2>5, <3>2, <3>5, BackedFresh
    <3> QED
      BY <1>1, <1>2, <1>6, <1>8, <1>10, <1>11, <2>1, <2>3, <3>6, SysSends
  <2> QED
    BY <1>4, <1>6, <2>4, <2>5
<1>13. CASE MNRetry(p)
  <2> DEFINE asks == <<ask(p.src, mnRequest(p).careOfAddress, p.lifetime)>>
  <2>1. /\ mnProcesses(p) /\ p.code = 69
        /\ mnSend({p}, mnOthers(p), asks, homeAgentPublic)
        /\ UNCHANGED <<homeAgentPublic, mnLink>>
    BY <1>13 DEF MNRetry
  <2>2. /\ connection'.lifetime = p.lifetime
        /\ connection'.agentAddress = connection.agentAddress
        /\ connection'.remainingLifetime = connection.remainingLifetime
    BY <1>7, <1>13 DEF MNRetry, agentConnection
  <2>3. p.lifetime \in Lifetimes /\ p.src # BroadcastAddr /\ p.src \in Addr
    BY <1>5, <2>1 , SMTT(60) DEF ProperReply, Lifetimes, ReplyPacket
  <2>4. mnRequest(p).careOfAddress \in Addr
    BY <1>7, <2>1, MNProcessed , SMTT(60) DEF MNRequestItem
  <2>5. asks \in Seq(Ask) /\ AsksGood(asks)
    BY <2>3, <2>4, OneAsk
  <2> HIDE DEF asks
  <2>6. ConnectionGood(connection')
    BY <1>6, <2>2, <2>3 DEF ConnectionGood
  <2>7. ~MNAccept(p)
    BY <2>1 , SMTT(60) DEF MNAccept
  <2>8. registered' = registered
    BY <1>1, <2>7
  <2> QED
    BY <1>1, <1>2, <1>6, <1>8, <1>10, <2>1, <2>2, <2>5, <2>6, <2>8, SysSends
<1>14. CASE MNRefused(p)
  <2>1. /\ mnProcesses(p) /\ ~MNAccept(p) /\ connection' = connection
        /\ mnSend({p}, mnOthers(p), <<>>, homeAgentPublic)
        /\ UNCHANGED <<homeAgentPublic, mnLink>>
    BY <1>14 DEF MNRefused, MNAccept
  <2>2. registered' = registered
    BY <1>1, <2>1
  <2> QED
    BY <1>1, <1>2, <1>6, <1>8, <1>10, <1>11, <2>1, <2>2, SysSends
<1> QED
  BY <1>1, <1>5, <1>9, <1>12, <1>13, <1>14 DEF MNPush, MNLearn, ProperReply

(***************************************************************************)
(* The node hears an agent.                                                *)
(***************************************************************************)
LEMMA Heard ==
  ASSUME NEW p \in {mHomeAdvert, mForeignAdvert}
  PROVE  /\ p \in MNPacket /\ solReads(p) = {p}
         /\ p.src \in {HAPrivate, FAPrivate} /\ p.src \in Addr /\ p.src # BroadcastAddr
         /\ p.careOf \in Addr /\ p.registrationLifetime = MRegistration
<1>1. PICK link \in {"home", "foreign"}, a \in {HAPrivate, FAPrivate},
           c \in {HAPublic, FAPublic}, n \in {0, SolReset} :
        p = buildRouterAdvertisement(link, a, BroadcastAddr, 1, MRegistration, c, n)
  BY Zenon DEF mHomeAdvert, mForeignAdvert
<1>2. a \in Addr /\ a # BroadcastAddr /\ c \in Addr /\ BroadcastAddr \in Addr
  BY HAAssumption, FAAssumption, PacketAssumption, MAddressAssumption
<1>3. htons(MRegistration) = MRegistration
  BY LifetimesFit DEF Lifetimes
<1>4. htons(1) \in 0..Infinity /\ MRegistration \in 0..Infinity
  BY HtonsRange, LifetimeFacts
<1>5. n % (SequenceMax + 1) \in 0..SequenceMax
  BY SolAssumption, PacketAssumption
<1>6. /\ p.sum = "ok" /\ p.src = a /\ p.careOf = c
      /\ p.registrationLifetime = MRegistration
  BY <1>1, <1>3 DEF buildRouterAdvertisement
<1>7. p \in AdvertPacket
  BY <1>1, <1>2, <1>3, <1>4, <1>5 DEF buildRouterAdvertisement, AdvertPacket, Link, Checksum
<1> QED
  BY <1>2, <1>6, <1>7, Zenon DEF solReads, MNPacket

LEMMA SysHear ==
  ASSUME SysInv, MPHear
  PROVE  SysInv'
<1> USE Zenon
<1>1. /\ mReadings /\ registered' = FALSE /\ grants' = grants /\ turns' = turns
      /\ UNCHANGED haState /\ UNCHANGED faState
  BY DEF MPHear
<1>2. PICK p \in {mHomeAdvert, mForeignAdvert} :
        SolFirstHome(p) \/ SolMove(p) \/ SolAgentReset(p)
  BY DEF MPHear
<1>3. MNInv'
  BY <1>2, Heard, MNInvAdvert DEF SysInv, simple_action
<1>4. TurnsOK(turns) /\ mnLink \in {"home", "foreign"}
  BY DEF SysInv, Settings
<1>5. CASE SolFirstHome(p)
  <2>1. net' \in SUBSET net /\ mnLink' = mnLink
        /\ UNCHANGED <<homeAgentPublic, mnRequests, connection>>
    BY <1>5 DEF SolFirstHome, solSilent, mnRest
  <2>2. /\ UNCHANGED <<haState, faState, homeAgentPublic, mnRequests, connection>>
        /\ mnLink' \in {"home", "foreign"}
    BY <1>1, <1>4, <2>1
  <2> QED
    BY <1>1, <1>3, <2>1, <2>2, SysSilent, SMTT(60)
<1>6. CASE solRegister(p, p)
  <2> DEFINE asks == IF p.src = MNHAPrivate
                     THEN <<ask(MNHAPrivate, connection.careOfAddress, 0)>>
                     ELSE <<ask(p.src, p.careOf, p.registrationLifetime)>>
  <2>1. /\ mnSend({p}, mnRequests, asks, homeAgentPublic)
        /\ UNCHANGED <<haState, faState, homeAgentPublic, mnLink>>
    BY <1>1, <1>6 DEF solRegister, reregister, mnFixed
  <2>2. mnRequests \in Seq(MNRequestItem) /\ connection \in agentConnection
    BY SysTypes, SMTT(60)
  <2>3. /\ connection'.lifetime = p.registrationLifetime
        /\ connection'.agentAddress = p.src
    BY <1>6, <2>2 DEF solRegister, reregister, agentConnection
  <2>4. 0 \in Lifetimes /\ p.registrationLifetime \in Lifetimes
    BY Heard , SMTT(60) DEF Lifetimes
  <2>5. asks \in Seq(Ask) /\ AsksGood(asks)
    <3>1. connection.careOfAddress \in Addr /\ MNHAPrivate \in Addr
          /\ MNHAPrivate # BroadcastAddr
      BY <2>2, MNAssumption, MAssumption, MAddressAssumption , SMTT(60) DEF agentConnection
    <3> QED
      BY <2>4, <3>1, Heard, OneAsk
  <2> HIDE DEF asks
  <2>6. ConnectionGood(connection')
    BY <2>3, <2>4, Heard DEF ConnectionGood
  <2>7. StemsFrom(mnRequests, mnRequests)
    BY DEF StemsFrom, SameRequest
  <2>8. Backed(registered', connection'.remainingLifetime, mnLink, mobilityBindings,
               visitors, turns')
    BY <1>1 DEF Backed
  <2>9. TurnsOK(turns') /\ grants \in SUBSET grants
    BY <1>1, <1>4
  <2> QED
    BY <1>1, <1>3, <2>1, <2>2, <2>5, <2>6, <2>7, <2>8, <2>9, SysSends
<1>7. SolMove(p) \/ SolAgentReset(p) => solRegister(p, p)
  BY Heard DEF SolMove, SolAgentReset
<1> QED
  BY <1>2, <1>5, <1>6, <1>7

(***************************************************************************)
(* A second passes for one of the processes, when nothing is in flight.    *)
(***************************************************************************)
LEMMA SysTickHA ==
  ASSUME SysInv, MPTickHA
  PROVE  SysInv'
<1> USE Zenon
<1>1. /\ Head(turns) = "ha" /\ turns' = mLast("ha") /\ HARunTimer
      /\ grants' = grants /\ registered' = registered
      /\ UNCHANGED faState /\ UNCHANGED mnRest /\ UNCHANGED solVars
  BY DEF MPTickHA, mTick
<1>2. /\ mobilityBindings' = decreaseBindings(mobilityBindings)
      /\ net' = {} /\ haMaxLifetime' = haMaxLifetime
  BY <1>1 DEF MPTickHA, mTick, HARunTimer
<1>3. /\ mnRequests' = mnRequests /\ connection' = connection
      /\ homeAgentPublic' = homeAgentPublic /\ mnLink' = mnLink
      /\ visitors' = visitors /\ faMaxLifetime' = faMaxLifetime
  BY <1>1 DEF faState, faLists, faLimits, mnRest
<1>4. NetGood(net') /\ Linked(net', mnRequests) /\ Covered(net', grants, mobilityBindings', visitors)
  BY <1>2 DEF NetGood, Distinct, Linked, Covered
<1>5. HAInv'
  BY <1>1, HANextInv DEF SysInv, HANext, HAStep
<1>6. FAInv' /\ MNInv'
  BY <1>1, <1>4, FAFrame, MNFrame DEF SysInv
<1>7. TurnsOK(turns) /\ TurnsOK(turns')
  BY <1>1, NextTurns , SMTT(60) DEF SysInv, Settings, mProcesses
<1>8. Backed(registered, connection.remainingLifetime, mnLink, mobilityBindings', visitors, turns')
  BY <1>1, <1>2, <1>7, SysTypes, BackedTickHA DEF SysInv, Held
<1>9. Settings' /\ Flight' /\ Held'
  BY <1>1, <1>2, <1>3, <1>4, <1>7, <1>8 DEF SysInv, Settings, Flight, Held
<1> QED
  BY <1>5, <1>6, <1>9 DEF SysInv

LEMMA SysTickFA ==
  ASSUME SysInv, MPTickFA
  PROVE  SysInv'
<1> USE Zenon
<1>1. /\ Head(turns) = "fa" /\ turns' = mLast("fa") /\ FARunTimer /\ net = {}
      /\ grants' = grants /\ registered' = registered
      /\ UNCHANGED haState /\ UNCHANGED mnRest /\ UNCHANGED solVars
  BY DEF MPTickFA, mTick
<1>2. visitors' = decreaseVisitors(visitors) /\ faMaxLifetime' = faMaxLifetime
  BY <1>1 DEF FARunTimer, faLimits
<1>3. /\ mnRequests' = mnRequests /\ connection' = connection
      /\ homeAgentPublic' = homeAgentPublic /\ mnLink' = mnLink
      /\ mobilityBindings' = mobilityBindings /\ haMaxLifetime' = haMaxLifetime
  BY <1>1 DEF haState, mnRest
<1>4. ASSUME NEW q \in net'
      PROVE  /\ q \in RequestPacket \cup ReplyPacket
             /\ Proper(q) /\ ~IsRequest(q) /\ ~IsGrant(q)
  <2>1. PICK rr \in RequestPacket : q = faAnswer(rr, 78, rr.lifetime)
    BY <1>1, TimerAnswers DEF SysInv
  <2>2. rr.lifetime \in Nat
    BY PacketAssumption , SMTT(60) DEF RequestPacket
  <2>3. q \in ReplyPacket
    BY <2>1, <2>2, FAAnswerType, SMTT(60)
  <2>4. q.type = "REPLY" /\ q.code = 78 /\ q.link = "foreign"
    BY <2>1 , SMTT(60) DEF faAnswer, buildRegistrationReply, UDPIP
  <2> QED
    BY <2>3, <2>4 , SMTT(60) DEF Proper, ProperReply, IsRequest, IsGrant
<1>5. NetGood(net') /\ Linked(net', mnRequests) /\ Covered(net', grants, mobilityBindings, visitors')
  BY <1>4 DEF NetGood, Distinct, Linked, Covered
<1>6. FAInv'
  BY <1>1, FATimerInv DEF SysInv
<1>7. HAInv' /\ MNInv'
  BY <1>1, <1>5, HAFrame, MNFrame DEF SysInv
<1>8. TurnsOK(turns) /\ TurnsOK(turns')
  BY <1>1, NextTurns , SMTT(60) DEF SysInv, Settings, mProcesses
<1>9. Backed(registered, connection.remainingLifetime, mnLink, mobilityBindings, visitors', turns')
  BY <1>1, <1>2, <1>8, SysTypes, BackedTickFA DEF SysInv, Held
<1>10. Settings' /\ Flight' /\ Held'
  BY <1>1, <1>2, <1>3, <1>5, <1>8, <1>9 DEF SysInv, Settings, Flight, Held
<1> QED
  BY <1>6, <1>7, <1>10 DEF SysInv

LEMMA SysTickMN ==
  ASSUME SysInv, MPTickMN
  PROVE  SysInv'
<1> USE Zenon
<1> DEFINE c == connection.remainingLifetime
           d == IF c > 0 THEN c - 1 ELSE c
<1>1. /\ turns' = mLast("mn") /\ MNRunTimer /\ mReadings
      /\ grants' = grants /\ registered' = registered
      /\ UNCHANGED haState /\ UNCHANGED faState /\ UNCHANGED solVars
  BY DEF MPTickMN, mTick
<1>2. MNInv'
  BY <1>1, MNInvStep DEF SysInv, MNStep
<1>3. /\ MNTypeOK /\ connection \in agentConnection /\ c \in Nat
      /\ ListsOK(mobilityBindings, visitors)
  BY SysTypes, SMTT(60)
<1>4. /\ connection' = IF mnCounts THEN [connection EXCEPT !.remainingLifetime = c - 1]
                       ELSE connection
      /\ UNCHANGED <<homeAgentPublic, mnLink>>
  BY <1>1 DEF MNRunTimer
<1>5. ConnectionGood(connection) /\ ItemsGood(mnRequests) /\ TurnsOK(turns)
      /\ Backed(registered, c, mnLink, mobilityBindings, visitors, turns)
  BY DEF SysInv, Settings, Flight, Held
<1>6. mnCounts <=> c > 0
  BY <1>5, LifetimesFit , SMTT(60) DEF ConnectionGood, mnCounts
<1>7. /\ connection'.remainingLifetime = d /\ connection'.lifetime = connection.lifetime
      /\ connection'.agentAddress = connection.agentAddress
  BY <1>3, <1>4, <1>6 DEF agentConnection
<1>8. ConnectionGood(connection')
  BY <1>5, <1>7 DEF ConnectionGood
<1>9. Backed(registered', connection'.remainingLifetime, mnLink, mobilityBindings,
             visitors, turns')
  BY <1>1, <1>3, <1>5, <1>7, BackedSecondLess, ZenonT(60)
<1>10. PICK pending \in Seq(MNRequestItem), asks \in Seq(Ask) :
         /\ mnSend({}, pending, asks, homeAgentPublic)
         /\ StemsFrom(pending, mnRequests) /\ AsksAgain(asks)
  BY <1>1, <1>3, RunTimerSends
<1>11. AsksGood(asks)
  BY <1>5, <1>10 DEF AsksAgain, AsksGood, ItemsGood, GoodItem, ConnectionGood
<1>12. TurnsOK(turns') /\ grants \in SUBSET grants
  BY <1>1, <1>5, NextTurns , SMTT(60) DEF mProcesses
<1>13. UNCHANGED <<haState, faState, homeAgentPublic, mnLink>>
  BY <1>1, <1>4
<1> QED
  BY <1>1, <1>2, <1>8, <1>9, <1>10, <1>11, <1>12, <1>13, SysSends

(***************************************************************************)
(* Moves and starts.                                                       *)
(***************************************************************************)
LEMMA SysCarry ==
  ASSUME SysInv, MPCarry
  PROVE  SysInv'
<1> USE Zenon
<1>1. /\ mnLink' = (IF mnLink = "home" THEN "foreign" ELSE "home") /\ ~registered'
      /\ net' = net /\ turns' = turns /\ grants' = grants
      /\ UNCHANGED <<haState, faState, homeAgentPublic, mnRequests, connection>>
      /\ UNCHANGED <<mnAllocated, mnTimeout, mnRunning, solVars>>
  BY DEF MPCarry
<1>2. mnLink' \in {"home", "foreign"}
  BY <1>1
<1>3. NodeTyped /\ SolTyped /\ ElementsAgree /\ SilenceIsNoticed
  BY TypeSplit DEF SysInv, MNInv
<1>4. NodeTyped' /\ SolTyped'
  BY <1>1, <1>2, <1>3 DEF NodeTyped, SolTyped, solVars, Link
<1>5. MNTypeOK'
  BY <1>4, TypeSplit, PTL
<1>6. MNInv'
  BY <1>1, <1>3, <1>5 DEF MNInv, ElementsAgree, SilenceIsNoticed, solVars
<1>7. net' \in SUBSET net /\ grants \in SUBSET grants
  BY <1>1
<1> QED
  BY <1>1, <1>2, <1>6, <1>7, SysSilent

LEMMA SysStartHA ==
  ASSUME SysInv, MPStartHA
  PROVE  SysInv'
<1> USE Zenon
<1>1. /\ turns' = mLast("ha") /\ HARestart /\ grants' = {} /\ ~registered' /\ net' = net
      /\ haMaxLifetime' = HADefaultLifetime
      /\ UNCHANGED faState /\ UNCHANGED mnRest /\ UNCHANGED solVars
  BY DEF MPStartHA, HARestart
<1>2. /\ mnRequests' = mnRequests /\ connection' = connection
      /\ homeAgentPublic' = homeAgentPublic /\ mnLink' = mnLink
      /\ faMaxLifetime' = faMaxLifetime
  BY <1>1 DEF faState, faLists, faLimits, mnRest
<1>3. HAInv'
  BY <1>1, HANextInv DEF SysInv, HANext, HAStep
<1>4. NetGood(net')
  BY <1>1 DEF SysInv, Flight
<1>5. FAInv' /\ MNInv'
  BY <1>1, <1>4, FAFrame, MNFrame DEF SysInv
<1>6. TurnsOK(turns')
  BY <1>1, NextTurns , SMTT(60) DEF SysInv, Settings, mProcesses
<1>7. Held'
  BY <1>1 DEF Held, Covered, Backed
<1>8. Settings' /\ Flight'
  BY <1>1, <1>2, <1>6 DEF SysInv, Settings, Flight
<1> QED
  BY <1>3, <1>5, <1>7, <1>8 DEF SysInv

LEMMA SysStartFA ==
  ASSUME SysInv, MPStartFA
  PROVE  SysInv'
<1> USE Zenon
<1>1. /\ turns' = mLast("fa") /\ FARestart /\ grants' = {} /\ ~registered' /\ net' = net
      /\ faMaxLifetime' = FADefaultLifetime
      /\ UNCHANGED haState /\ UNCHANGED mnRest /\ UNCHANGED solVars
  BY DEF MPStartFA, FARestart
<1>2. /\ mnRequests' = mnRequests /\ connection' = connection
      /\ homeAgentPublic' = homeAgentPublic /\ mnLink' = mnLink
      /\ haMaxLifetime' = haMaxLifetime
  BY <1>1 DEF haState, mnRest
<1>3. FAInv'
  BY <1>1, FANextInv DEF SysInv, FANext, FAStep
<1>4. NetGood(net')
  BY <1>1 DEF SysInv, Flight
<1>5. HAInv' /\ MNInv'
  BY <1>1, <1>4, HAFrame, MNFrame DEF SysInv
<1>6. TurnsOK(turns')
  BY <1>1, NextTurns , SMTT(60) DEF SysInv, Settings, mProcesses
<1>7. Held'
  BY <1>1 DEF Held, Covered, Backed
<1>8. Settings' /\ Flight'
  BY <1>1, <1>2, <1>6 DEF SysInv, Settings, Flight
<1> QED
  BY <1>3, <1>5, <1>7, <1>8 DEF SysInv

LEMMA NoConnectionGood == ConnectionGood(noConnection)
BY MAddressAssumption DEF ConnectionGood, noConnection, Lifetimes

LEMMA SysStartMN ==
  ASSUME SysInv, MPStartMN
  PROVE  SysInv'
<1> USE Zenon
<1>1. /\ turns' = mLast("mn") /\ MNRestart /\ grants' = grants /\ ~registered'
      /\ UNCHANGED haState /\ UNCHANGED faState
  BY DEF MPStartMN
<1>2. /\ mnRequests' = <<>> /\ connection' = noConnection
      /\ homeAgentPublic' = MNHAPublic /\ mnLink' = mnLink /\ net' = net
  BY <1>1 DEF MNRestart
<1>3. MNInv'
  BY <1>1, MNInvStep DEF SysInv, MNStep
<1>4. /\ NetGood(net) /\ TurnsOK(turns) /\ mnLink \in {"home", "foreign"}
      /\ homeAgentPublic = HAPublic
  BY DEF SysInv, Settings, Flight
<1>5. TurnsOK(turns')
  BY <1>1, <1>4, NextTurns , SMTT(60) DEF mProcesses
<1>6. Linked(net', mnRequests') /\ ItemsGood(mnRequests')
  BY <1>2 , SMTT(60) DEF Linked, ItemsGood
<1>7. UNCHANGED <<haState, faState, homeAgentPublic>>
  BY <1>1, <1>2, <1>4, MAssumption
<1>8. Backed(registered', connection'.remainingLifetime, mnLink', mobilityBindings,
             visitors, turns')
  BY <1>1 DEF Backed
<1>9. ConnectionGood(connection') /\ NetGood(net') /\ mnLink' \in {"home", "foreign"}
      /\ (\A q \in net' : q \in net) /\ grants \in SUBSET grants
  BY <1>2, <1>4, NoConnectionGood
<1> QED
  BY <1>1, <1>3, <1>5, <1>6, <1>7, <1>8, <1>9, SysNodeStep

----------------------------------------------------------------------------
LEMMA SysInitInv == MPStart => SysInv
<1> USE Zenon
<1> SUFFICES ASSUME MPStart PROVE SysInv
  BY SMTT(60)
<1>1. /\ HAInit /\ FAInit /\ MNInit /\ SolInit /\ net = {} /\ mnLink = "home"
      /\ turns \in Bijection(1..3, mProcesses) /\ grants = {} /\ ~registered
  BY DEF MPStart
<1>2. HAInv /\ FAInv
  BY <1>1, HAInitInv, FAInitInv
<1>3. MNInv
  BY <1>1, MNInvInit DEF MNStart
<1>4. TurnsOK(turns)
  <2>1. turns \in [1..3 -> mProcesses] /\ \A x \in mProcesses : \E i \in 1..3 : turns[i] = x
    BY <1>1 DEF Bijection, Surjection
  <2>2. ASSUME NEW n \in Nat, NEW S, NEW t \in [1..n -> S] PROVE t \in Seq(S)
    BY SMTT(60)
  <2>3. turns \in Seq(mProcesses) /\ DOMAIN turns = 1..3
    <3>1. 3 \in Nat
      BY SMTT(60)
    <3> QED
      BY <2>1, <2>2, <3>1
  <2> QED
    BY <2>1, <2>3 DEF TurnsOK, mProcesses
<1>5. Settings
  BY <1>1, <1>4, MAssumption DEF Settings, HAInit, FAInit, MNInit
<1>6. mnRequests = <<>> /\ connection = noConnection
  BY <1>1 DEF MNInit
<1>7. Flight
  <2>1. NetGood(net) /\ Linked(net, mnRequests)
    BY <1>1 DEF NetGood, Distinct, Linked
  <2>2. ItemsGood(mnRequests)
    BY <1>6 , SMTT(60) DEF ItemsGood
  <2> QED
    BY <1>6, <2>1, <2>2, NoConnectionGood DEF Flight
<1>8. Held
  BY <1>1 DEF Held, Covered, Backed
<1> QED
  BY <1>2, <1>3, <1>5, <1>7, <1>8 DEF SysInv

LEMMA SysNextInv == SysInv /\ [MPNext]_mpAll => SysInv'
<1> USE Zenon
<1> SUFFICES ASSUME SysInv, [MPNext]_mpAll PROVE SysInv'
  BY SMTT(60)
<1>1. grants \in SUBSET grants /\ net \in SUBSET net /\ mnLink \in {"home", "foreign"}
  BY DEF SysInv, Settings
<1>2. ASSUME net' \in SUBSET net, turns' = turns, grants' = grants, registered' = registered,
             UNCHANGED haState, UNCHANGED faState, UNCHANGED mnRest, MNInv' \/ UNCHANGED solVars
      PROVE  SysInv'
  <2>1. /\ UNCHANGED <<haState, faState, homeAgentPublic, mnRequests, connection>>
        /\ mnLink' = mnLink
    BY <1>2 DEF mnRest
  <2>2. NetGood(net')
    BY <1>2, Fewer DEF SysInv, Flight
  <2>3. MNInv'
    BY <1>2, <2>2, MNFrame DEF SysInv
  <2> QED
    BY <1>1, <1>2, <2>1, <2>3, SysSilent
<1>3. ASSUME NEW p \in net, MPVanish(p) \/ MPLose(p) PROVE SysInv'
  BY <1>2, <1>3 DEF MPVanish, MPLose, mpVars
<1>4. CASE MPExpire
  <2>1. MNInv'
    BY <1>4, MNInvStep DEF SysInv, MPExpire, MNStep
  <2> QED
    BY <1>1, <1>2, <1>4, <2>1 DEF MPExpire, SolRunTimer, mpVars, mnVars, mnRest
<1>5. CASE MPFreshPasses
  BY <1>1, <1>2, <1>5 DEF MPFreshPasses
<1>6. CASE UNCHANGED mpAll
  BY <1>1, <1>2, <1>6 DEF mpAll, mpVars
<1>7. CASE MPNetwork
  BY <1>3, <1>7, SysHomeAgent, SysForeignAgent, SysNode DEF MPNetwork
<1>8. CASE MPTick
  BY <1>8, SysTickHA, SysTickFA, SysTickMN DEF MPTick
<1> QED
  BY <1>3, <1>4, <1>5, <1>6, <1>7, <1>8, SysHear, SysCarry, SysStartHA, SysStartFA, SysStartMN DEF MPNext

LEMMA SysInvariant == MPSpec => []SysInv
BY SysInitInv, SysNextInv, PTL DEF MPSpec

\* What the invariant says of a registered node, whoever ticked last.
LEMMA SysBacked ==
  ASSUME SysInv, registered, connection.remainingLifetime > 1
  PROVE  /\ BindingFor(mobilityBindings, connection.remainingLifetime - 1)
         /\ VisitFor(visitors, connection.remainingLifetime - 1)
         /\ mnLink = "foreign"
<1> DEFINE c == connection.remainingLifetime
<1>1. /\ Backed(registered, c, mnLink, mobilityBindings, visitors, turns)
      /\ c \in Nat /\ ListsOK(mobilityBindings, visitors)
  BY SysTypes, Zenon DEF SysInv, Held
<1> HIDE DEF c
<1>2. Slack(turns, "ha") \in {0, 1} /\ Slack(turns, "fa") \in {0, 1}
  BY DEF Slack
<1>3. ASSUME NEW s \in {0, 1} PROVE c > s /\ c - s \in Nat /\ c - 1 \in Nat /\ c - 1 <= c - s
  BY <1>1 DEF c
<1>4. /\ BindingFor(mobilityBindings, c - Slack(turns, "ha"))
      /\ VisitFor(visitors, c - Slack(turns, "fa")) /\ mnLink = "foreign"
  BY <1>1, <1>2, <1>3, Zenon DEF Backed
<1> QED
  BY <1>1, <1>2, <1>3, <1>4, LastsLess, VisitLastsLess, Zenon DEF BindingFor, VisitFor, ListsOK, c

(***************************************************************************)
(* The three countdowns of a registration keep in step: while the node     *)
(* counts on more than a second (setRemainingLifetime, decreased by its    *)
(* own run_timer), the home agent's binding and the foreign agent's visit, *)
(* which their own timers decrease, have at most one second less than the  *)
(* node believes.                                                          *)
(***************************************************************************)
THEOREM MPCountBacked == MPSpec => []CountIsBacked
<1>1. SysInv => CountIsBacked
  BY SysBacked DEF CountIsBacked, mBindingLasts, mVisitLasts, BindingsOf, VisitsOf,
                   BindingFor, VisitFor, BindingLasts, VisitLasts
<1> QED
  BY <1>1, SysInvariant, PTL

(***************************************************************************)
(* A registration delivers: while the node counts on more than a second    *)
(* and the tunnel leads to its foreign agent, every data packet that can   *)
(* make four hops gets to the node.  The tunnel may lead elsewhere when a  *)
(* binding of an earlier stay is still the first on the list.              *)
(***************************************************************************)
THEOREM MPDelivers ==
  MPSpec => [](/\ registered /\ connection.remainingLifetime > 1
               /\ getCareOfAddress(mobilityBindings, MNHome) = FAPublic
               => mReachable)
<1> DEFINE Delivers == /\ registered /\ connection.remainingLifetime > 1
                       /\ getCareOfAddress(mobilityBindings, MNHome) = FAPublic
                       => mReachable
<1>1. SysInv => Delivers
  <2> SUFFICES ASSUME SysInv, registered, connection.remainingLifetime > 1,
                      getCareOfAddress(mobilityBindings, MNHome) = FAPublic,
                      NEW ttl \in 4..(TTLMod - 1)
               PROVE  mDelivered(ttl) # {}
    BY DEF mReachable
  <2>1. isMobileBinded(mobilityBindings, MNHome) /\ hasVisitor(visitors, MNHome, HAPublic)
    BY SysBacked DEF BindingFor, VisitFor, BindingLasts, VisitLasts,
                     isMobileBinded, HomeBindings, hasVisitor, VisitsOf
  <2> DEFINE d == mData(ttl)
  <2>2. d \in DataPacket /\ d.ttl > 3 /\ d.dst = MNHome
    BY TTLAssumption, MNAssumption, PacketAssumption DEF mData, DataPacket, TTL
  <2> HIDE DEF d
  <2>3. PICK t \in encapsulate(mobilityBindings, HAPublic, d) :
          /\ t.type = "IPINIP" /\ t.dst = FAPublic /\ decapsulate(visitors, t) # {}
    <3>1. /\ isMobileBinded(mobilityBindings, d.dst) /\ hasVisitor(visitors, d.dst, HAPublic)
          /\ getCareOfAddress(mobilityBindings, d.dst) = FAPublic
      BY <2>1, <2>2, Zenon
    <3>2. \E t \in encapsulate(mobilityBindings, HAPublic, d) :
            /\ t.type = "IPINIP" /\ t.dst = getCareOfAddress(mobilityBindings, d.dst)
            /\ decapsulate(visitors, t) # {}
      BY <2>2, <3>1, TunnelDelivers
    <3> QED
      BY <3>1, <3>2, Zenon
  <2>4. mnLink = "foreign"
    BY SysBacked, Zenon
  <2>5. decapsulate(visitors, t) \subseteq mDelivered(ttl)
    BY <2>3, <2>4 DEF mDelivered, d
  <2> QED
    BY <2>3, <2>5, Zenon
<1> HIDE DEF Delivers
<1>2. MPSpec => []Delivers
  BY <1>1, SysInvariant, PTL
<1> QED
  BY <1>2 DEF Delivers

(***************************************************************************)
(* What holds of each process whatever the others do holds in the whole    *)
(* system: the lists have no duplicates and are bounded, the clocks of a   *)
(* pending request agree, and the elements of the node agree on its agent. *)
(***************************************************************************)
THEOREM MPProcesses ==
  MPSpec => [](/\ HATypeOK /\ UniqueBindings
               /\ FATypeOK /\ UniqueVisitors /\ PendingClocksAgree /\ PendingBounded
               /\ MNTypeOK /\ ElementsAgree /\ SilenceIsNoticed)
<1>1. SysInv => /\ HATypeOK /\ UniqueBindings
                /\ FATypeOK /\ UniqueVisitors /\ PendingClocksAgree /\ PendingBounded
                /\ MNTypeOK /\ ElementsAgree /\ SilenceIsNoticed
  BY Zenon DEF SysInv, HAInv, FAInv, MNInv
<1> QED
  BY <1>1, SysInvariant, PTL

\* Only steps of the home agent change its bindings.
LEMMA SysBindings ==
  ASSUME [MPNext]_mpAll
  PROVE  [HANext]_haVars \/ mobilityBindings' = mobilityBindings
<1> USE Zenon
<1>1. ASSUME NEW p \in net, MPHomeAgent(p) PROVE HANext
  BY <1>1 DEF MPHomeAgent, HANext, HAStep
<1>2. MPTickHA \/ MPStartHA => HANext
  BY DEF MPTickHA, MPStartHA, HANext, HAStep
<1>3. UNCHANGED haState => mobilityBindings' = mobilityBindings
  BY DEF haState
<1>4. ASSUME NEW p \in net, MPForeignAgent(p) \/ MPNode(p) \/ MPVanish(p) \/ MPLose(p)
      PROVE  UNCHANGED haState
  BY <1>4 DEF MPForeignAgent, MPNode, MPVanish, MPLose
<1>5. \/ MPHear \/ MPExpire \/ MPTickFA \/ MPTickMN \/ MPCarry \/ MPStartFA \/ MPStartMN
      \/ MPFreshPasses \/ UNCHANGED mpAll
      => UNCHANGED haState
  BY DEF MPHear, MPExpire, MPTickFA, MPTickMN, MPCarry, MPStartFA, MPStartMN,
               MPFreshPasses, mpAll
<1> QED
  BY <1>1, <1>2, <1>3, <1>4, <1>5 DEF MPNext, MPNetwork, MPTick

(***************************************************************************)
(* The home agent among the others is a table of leases: whatever the      *)
(* packets, moves and starts, its list of bindings goes through steps of   *)
(* BindingLeases only.  As for the home agent alone, max_lifetime must not *)
(* be settable to 0.                                                       *)
(***************************************************************************)
THEOREM MPImplementsLeases ==
  ASSUME 0 \notin HALifetimes
  PROVE  MPSpec => ImplementsLeases
<1> USE Zenon
<1>1. MPStart => Leases!LeasesStart
  BY HAInitLeases DEF MPStart, HAStart
<1>2. SysInv /\ [MPNext]_mpAll => [Leases!LeasesNext]_haLeases
  <2> SUFFICES ASSUME SysInv, [MPNext]_mpAll PROVE [Leases!LeasesNext]_haLeases
    BY SMTT(60)
  <2>1. [HANext]_haVars => [Leases!LeasesNext]_haLeases
    BY HAStepLeases DEF SysInv
  <2>2. mobilityBindings' = mobilityBindings => haLeases' = haLeases
    BY DEF haLeases
  <2> QED
    BY <2>1, <2>2, SysBindings
<1> QED
  BY <1>1, <1>2, SysInvariant, PTL DEF MPSpec, ImplementsLeases, Leases!LeasesSpec

(***************************************************************************)
(* In the whole system, too, the tunnel of a home address stays where it   *)
(* leads (getCareOfAddress) for as long as the binding it follows stays.   *)
(***************************************************************************)
THEOREM MPTunnelStable == MPSpec => TunnelStable
<1> USE Zenon
<1>1. SysInv /\ [MPNext]_mpAll => [TunnelsKept]_haVars
  <2> SUFFICES ASSUME SysInv, [MPNext]_mpAll PROVE TunnelsKept
    BY SMTT(60)
  <2>1. [HANext]_haVars => TunnelsKept
    BY HAStepTunnel DEF SysInv
  <2>2. mobilityBindings' = mobilityBindings => TunnelsKept
    BY DEF TunnelsKept, TunnelKept
  <2> QED
    BY <2>1, <2>2, SysBindings
<1> QED
  BY <1>1, SysInvariant, PTL DEF MPSpec, TunnelStable, TunnelsKept, TunnelKept
=============================================================================
