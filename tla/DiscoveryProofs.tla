-------------------------- MODULE DiscoveryProofs --------------------------
(***************************************************************************)
(* Sequence numbers tell a start of a foreign agent from its next          *)
(* advertisement, for every number of agents, every largest number and     *)
(* every timing.  At the end, the invariant on times that SilenceProofs    *)
(* needs, and what it says of an advertisement the node hears.             *)
(***************************************************************************)
EXTENDS Discovery, TLAPS

\* A leaf goes to the SMT solver, with a minute, unless it names a prover; then
\* to Zenon, and to the SMT solver once more.
USE SMTT(60), ZenonT(30), SMTT(90)

(***************************************************************************)
(* The inductive invariant.  At most one advertisement is in flight, and   *)
(* the number of its sender is the one after it.  As long as the node has  *)
(* missed nothing of its foreign agent, the agent's next number (the one   *)
(* in flight, if any) follows the node's count or is past the start of the *)
(* roll-over; after a start of the agent it is 0, which the count is not   *)
(* about to reach.                                                         *)
(***************************************************************************)
Adverts(n) == {p \in n : p.type = "ADVERTISEMENT"}
Mine(n) == {p \in Adverts(n) : p.src = solAgent}

Follows(n) == n >= SolReset \/ MinusOne(n) = solSequence

DCounted ==
  /\ advSequence \in [Advertisers -> 0..SequenceMax] /\ solSequence \in UInt

DInFlight ==
  /\ \A p, q \in Adverts(net) : p = q
  /\ \A p \in Adverts(net) :
       /\ p.sum = "ok" /\ p.sequenceNumber \in 0..SequenceMax
       /\ IF p.src \in Advertisers
          THEN advSequence[p.src] = advNext(p.sequenceNumber)
          ELSE p.sequenceNumber >= SolReset

Upcoming(n) == \/ \E p \in Mine(net) : p.sequenceNumber = n
               \/ Mine(net) = {} /\ advSequence[solAgent] = n

DFollows ==
  /\ solConnected /\ solAgent \in Advertisers \ {MNHAPrivate}
  /\ ~skipped /\ agentReset = "none"
  => \A n \in 0..SequenceMax : Upcoming(n) => Follows(n)

DFresh ==
  /\ agentReset = "fresh" => solAgent \in Advertisers
  /\ agentReset = "fresh" /\ solAgent # MNHAPrivate =>
       /\ solSequence # UIntMod - 1
       /\ \A n \in 0..SequenceMax : Upcoming(n) => n = 0

DInv == DCounted /\ DInFlight /\ DFollows /\ DFresh

(***************************************************************************)
(* The arithmetic of the two counts: the agent's rolls over to AdvReset,   *)
(* the node's goes on in unsigned arithmetic.                              *)
(***************************************************************************)
LEMMA AdvNextRange ==
  ASSUME NEW n \in 0..SequenceMax
  PROVE  /\ advNext(n) \in 0..SequenceMax
         /\ n >= SolReset => advNext(n) >= SolReset
         /\ advNext(n) >= SolReset \/ MinusOne(advNext(n)) = n
BY PacketAssumption, AdvAssumption, SolAssumption, DAssumption DEF advNext, MinusOne

LEMMA CountsTogether ==
  ASSUME NEW n \in 0..SequenceMax, NEW s \in UInt, MinusOne(n) = s
  PROVE  advNext(n) >= SolReset \/ MinusOne(advNext(n)) = solNext(s)
<1>1. n \in Nat /\ s \in Nat /\ UIntMod \in Nat /\ n < UIntMod /\ UIntMod > 0
  BY PacketAssumption DEF UInt
<1>2. solNext(s) = n
  <2>1. CASE n = 0
    <3>1. s + 1 = UIntMod
      BY <1>1, <2>1 DEF MinusOne
    <3>2. UIntMod % UIntMod = 0
      BY <1>1
    <3> QED
      BY <2>1, <3>1, <3>2 DEF solNext
  <2>2. CASE n # 0
    <3>1. s + 1 = n
      BY <1>1, <2>2 DEF MinusOne
    <3>2. n % UIntMod = n
      BY <1>1
    <3> QED
      BY <3>1, <3>2 DEF solNext
  <2> QED
    BY <2>1, <2>2
<1> QED
  BY <1>2, AdvNextRange

LEMMA SolNextRange ==
  ASSUME NEW s \in UInt
  PROVE  solNext(s) \in UInt
BY PacketAssumption DEF solNext, UInt

(***************************************************************************)
(* Steps that leave the counts and the advertisements in flight alone.     *)
(***************************************************************************)
dCounts == <<solConnected, solAgent, solSequence, advSequence, skipped, agentReset>>

LEMMA QuietStep ==
  ASSUME DInv, UNCHANGED dCounts, Adverts(net') = Adverts(net)
  PROVE  DInv'
<1>1. Mine(net)' = Mine(net)
  BY DEF Mine, dCounts
<1>2. DCounted' /\ DInFlight'
  BY DEF DInv, DCounted, DInFlight, dCounts
<1>3. \A n : (Upcoming(n)' <=> Upcoming(n)) /\ (Follows(n)' <=> Follows(n))
  BY <1>1 DEF Upcoming, Follows, dCounts
<1>4. DFollows' /\ DFresh'
  BY <1>3 DEF DInv, DFollows, DFresh, dCounts
<1> QED
  BY <1>2, <1>4 DEF DInv

LEMMA SendsNoAdvert ==
  ASSUME NEW p, NEW pending, NEW asks, NEW homeAgent,
         mnSend({p}, pending, asks, homeAgent)
  PROVE  Adverts(net') = Adverts(net) \ {p}
<1>1. \A q \in net' : q \in net \ {p} \/ q.type = "REGISTRATION"
  BY DEF mnSend, buildRegistrationRequest
<1>2. \A q \in net \ {p} : q \in net'
  BY DEF mnSend
<1> QED
  BY <1>1, <1>2 DEF Adverts

LEMMA RegisterNoAdvert ==
  ASSUME NEW p, NEW adv, solRegister(p, adv)
  PROVE  Adverts(net') = Adverts(net) \ {p}
<1> DEFINE asks == IF adv.src = MNHAPrivate
                   THEN <<ask(MNHAPrivate, connection.careOfAddress, 0)>>
                   ELSE <<ask(adv.src, adv.careOf, adv.registrationLifetime)>>
<1>1. mnSend({p}, mnRequests, asks, homeAgentPublic)
  BY DEF solRegister, reregister
<1> HIDE DEF asks
<1> QED
  BY <1>1, SendsNoAdvert, Zenon

LEMMA PushNoAdvert ==
  ASSUME NEW p \in net, MNPush(p)
  PROVE  Adverts(net') = Adverts(net)
<1>1. p.type = "REPLY"
  BY DEF MNPush, MNDie, MNIgnore, MNAccept, MNRetry, MNLearn, MNRefused,
         mnProcesses, mnGetsReply
<1>2. CASE MNDie(p) \/ MNIgnore(p)
  BY <1>1, <1>2 DEF MNDie, MNIgnore, Adverts
<1>3. ASSUME MNAccept(p) \/ MNRetry(p) \/ MNLearn(p) \/ MNRefused(p)
      PROVE  Adverts(net') = Adverts(net) \ {p}
  <2>1. CASE MNAccept(p)
    BY <2>1, SendsNoAdvert, Zenon DEF MNAccept
  <2>2. CASE MNRetry(p)
    BY <2>2, SendsNoAdvert, Zenon DEF MNRetry
  <2>3. CASE MNLearn(p)
    <3> DEFINE asks == IF connection.isHome
                       THEN <<ask(p.src, mnRequest(p).careOfAddress, p.lifetime)>> ELSE << >>
    <3>1. mnSend({p}, mnOthers(p), asks, p.homeAgent)
      BY <2>3 DEF MNLearn
    <3> HIDE DEF asks
    <3> QED
      BY <3>1, SendsNoAdvert, Zenon
  <2>4. CASE MNRefused(p)
    BY <2>4, SendsNoAdvert, Zenon DEF MNRefused
  <2> QED
    BY <1>3, <2>1, <2>2, <2>3, <2>4
<1> QED
  BY <1>1, <1>2, <1>3 DEF MNPush, Adverts

(***************************************************************************)
(* The end of a connection.                                                *)
(***************************************************************************)
LEMMA EndStep ==
  ASSUME DInv, UNCHANGED <<net, advSequence>>, solConnected' = FALSE, solSequence' = 0,
         agentReset' = "none"
  PROVE  DInv'
<1>1. 0 \in UInt
  BY PacketAssumption DEF UInt
<1>2. DCounted' /\ DInFlight'
  BY <1>1 DEF DInv, DCounted, DInFlight
<1> QED
  BY <1>2 DEF DInv, DFollows, DFresh

(***************************************************************************)
(* sendAdvertisement: the number goes from the agent into the packet.      *)
(***************************************************************************)
LEMMA SendStep ==
  ASSUME DInv, NEW a \in Advertisers, NEW received, NEW destination,
         Adverts(net) = {}, advSend(a, received, destination),
         UNCHANGED <<solConnected, solAgent, solSequence, skipped, agentReset>>
  PROVE  DInv'
<1> DEFINE m == advMessage(a, destination)
           k == advSequence[a]
<1>1. k \in 0..SequenceMax
  BY DEF DInv, DCounted
<1>2. /\ m.type = "ADVERTISEMENT" /\ m.src = a /\ m.sum = "ok"
      /\ m.sequenceNumber = k
  <2>1. k % (SequenceMax + 1) = k
    BY <1>1, PacketAssumption
  <2> QED
    BY <2>1 DEF advMessage, buildRouterAdvertisement
<1>3. net' = (net \ received) \cup {m} /\ advSequence' = [advSequence EXCEPT ![a] = advNext(@)]
  BY DEF advSend
<1> HIDE DEF m
<1>4. Adverts(net') = {m}
  BY <1>2, <1>3 DEF Adverts
<1>5. DCounted'
  BY <1>1, <1>3, AdvNextRange DEF DInv, DCounted
<1>6. DInFlight'
  <2>1. advSequence'[m.src] = advNext(m.sequenceNumber)
    BY <1>2, <1>3 DEF DInv, DCounted
  <2> QED
    BY <1>1, <1>2, <1>4, <2>1 DEF DInFlight
<1>7. ASSUME NEW n, Upcoming(n)', solAgent \in Advertisers
      PROVE  Upcoming(n)
  <2>1. Mine(net) = {} /\ Mine(net)' = {p \in {m} : p.src = solAgent}
    BY <1>4 DEF Mine
  <2>2. CASE solAgent = a
    BY <1>2, <1>7, <2>1, <2>2 DEF Upcoming
  <2>3. CASE solAgent # a
    BY <1>2, <1>3, <1>7, <2>1, <2>3, Zenon DEF Upcoming, DInv, DCounted
  <2> QED
    BY <2>2, <2>3
<1>8. \A n : Follows(n)' <=> Follows(n)
  BY DEF Follows
<1>9. DFollows' /\ DFresh'
  BY <1>7, <1>8 DEF DInv, DFollows, DFresh
<1> QED
  BY <1>5, <1>6, <1>9 DEF DInv

(***************************************************************************)
(* An advertisement of another agent goes, and one of an agent that is not *)
(* timed comes.                                                            *)
(***************************************************************************)
LEMMA OtherGoes ==
  ASSUME DInv, NEW p \in Adverts(net), p.src # solAgent, net' = net \ {p},
         UNCHANGED <<solConnected, solAgent, solSequence, advSequence, agentReset>>,
         skipped' <=> skipped
  PROVE  DInv'
<1>1. Adverts(net) = {p}
  BY DEF DInv, DInFlight
<1>2. Adverts(net') = {}
  BY <1>1 DEF Adverts
<1>3. Mine(net) = {} /\ Mine(net)' = {}
  BY <1>1, <1>2 DEF Mine
<1>4. DCounted' /\ DInFlight'
  BY <1>2 DEF DInv, DCounted, DInFlight
<1>5. \A n : (Upcoming(n)' <=> Upcoming(n)) /\ (Follows(n)' <=> Follows(n))
  BY <1>3 DEF Upcoming, Follows
<1>6. DFollows' /\ DFresh'
  BY <1>5 DEF DInv, DFollows, DFresh
<1> QED
  BY <1>4, <1>6 DEF DInv

LEMMA OtherComes ==
  ASSUME DInv, NEW p \in MNAdverts, net = {}, net' = {p}, UNCHANGED dCounts
  PROVE  DInv'
<1>1. /\ p.type = "ADVERTISEMENT" /\ p.sum = "ok" /\ p.sequenceNumber \in 0..SequenceMax
      /\ p.src \notin Advertisers /\ p.sequenceNumber >= SolReset
  BY SolAssumption, DAssumption DEF AdvertPacket
<1>2. Adverts(net) = {} /\ Adverts(net') = {p}
  BY <1>1 DEF Adverts
<1>3. DCounted' /\ DInFlight'
  BY <1>1, <1>2 DEF DInv, DCounted, DInFlight, dCounts
<1>4. ASSUME solAgent \in Advertisers, NEW n
      PROVE  (Upcoming(n)' <=> Upcoming(n)) /\ (Follows(n)' <=> Follows(n))
  <2>1. Mine(net) = {} /\ Mine(net)' = {}
    BY <1>1, <1>2, <1>4 DEF Mine, dCounts
  <2> QED
    BY <2>1 DEF Upcoming, Follows, dCounts
<1>5. DFollows' /\ DFresh'
  BY <1>4 DEF DInv, DFollows, DFresh, dCounts
<1> QED
  BY <1>3, <1>5 DEF DInv

LEMMA GoneStep ==
  ASSUME DInv, NEW p \in net, DGone(p)
  PROVE  DInv'
<1>1. p \in Adverts(net) /\ net' = net \ {p}
  BY DEF DGone, Adverts
<1>2. CASE p.src # solAgent
  <2>1. UNCHANGED <<solConnected, solAgent, solSequence, advSequence, agentReset>>
    BY <1>2 DEF DGone, solVars, advVars
  <2>2. skipped' <=> skipped
    BY <1>2, Zenon DEF DGone
  <2> QED
    BY <1>1, <1>2, <2>1, <2>2, OtherGoes
<1>3. CASE p.src = solAgent
  <2>1. UNCHANGED <<solConnected, solAgent, solSequence, advSequence>>
    BY DEF DGone, solVars, advVars
  <2>2. skipped' /\ agentReset' # "fresh"
    BY <1>3, Zenon DEF DGone
  <2>3. Adverts(net') = {}
    BY <1>1 DEF DInv, DInFlight, Adverts
  <2>4. DCounted' /\ DInFlight'
    BY <2>1, <2>3 DEF DInv, DCounted, DInFlight
  <2> QED
    BY <2>2, <2>4 DEF DInv, DFollows, DFresh
<1> QED
  BY <1>2, <1>3

(***************************************************************************)
(* A start of an agent: its next number is 0.                              *)
(***************************************************************************)
LEMMA RestartStep ==
  ASSUME DInv, NEW a \in Advertisers, DRestart(a)
  PROVE  DInv'
<1>1. /\ net = {} /\ net' = {} /\ solSequence # UIntMod - 1
      /\ advSequence' = [advSequence EXCEPT ![a] = 0]
      /\ agentReset' = IF a = solAgent THEN "fresh" ELSE agentReset
      /\ UNCHANGED <<solConnected, solAgent, solSequence, skipped>>
  BY DEF DRestart, AdvRestart, solVars
<1>2. Adverts(net') = {} /\ Mine(net) = {} /\ Mine(net)' = {}
  BY <1>1 DEF Adverts, Mine
<1>3. DCounted'
  BY <1>1, PacketAssumption DEF DInv, DCounted
<1>4. DInFlight'
  BY <1>2 DEF DInFlight
<1>5. CASE a = solAgent
  <2>1. advSequence'[solAgent'] = 0
    BY <1>1, <1>5 DEF DInv, DCounted
  <2>2. \A n : Upcoming(n)' => n = 0
    BY <1>2, <2>1 DEF Upcoming
  <2> QED
    BY <1>1, <1>3, <1>4, <1>5, <2>2 DEF DInv, DFollows, DFresh
<1>6. CASE a # solAgent
  <2>1. solAgent \in Advertisers => advSequence'[solAgent'] = advSequence[solAgent]
    BY <1>1, <1>6 DEF DInv, DCounted
  <2>2. solAgent \in Advertisers =>
          \A n : (Upcoming(n)' <=> Upcoming(n)) /\ (Follows(n)' <=> Follows(n))
    BY <1>1, <1>2, <2>1 DEF Upcoming, Follows
  <2>3. DFollows' /\ DFresh'
    BY <1>1, <1>6, <2>2 DEF DInv, DFollows, DFresh
  <2> QED
    BY <1>3, <1>4, <2>3 DEF DInv
<1> QED
  BY <1>5, <1>6

(***************************************************************************)
(* MobileIPSoliciter compares numbers.                                     *)
(***************************************************************************)
LEMMA HeardIsRead ==
  ASSUME DInv, NEW p \in net, solGetsAdvert(p)
  PROVE  p \in Adverts(net) /\ solReads(p) = {p}
<1>1. p \in Adverts(net)
  BY DEF solGetsAdvert, Adverts
<1> QED
  BY <1>1, Zenon DEF DInv, DInFlight, solReads

\* The node counts from the number it just got, and the next one follows.
LEMMA CountStep ==
  ASSUME DInv, NEW p \in Adverts(net), Adverts(net') = Adverts(net) \ {p},
         UNCHANGED advSequence, solAgent' = p.src, solSequence' = p.sequenceNumber,
         agentReset' = "none"
  PROVE  DInv'
<1>1. p.sequenceNumber \in 0..SequenceMax /\ Adverts(net') = {}
  BY DEF DInv, DInFlight
<1>2. p.sequenceNumber \in UInt
  BY <1>1, PacketAssumption DEF UInt
<1>3. DCounted' /\ DInFlight'
  BY <1>1, <1>2 DEF DInv, DCounted, DInFlight
<1>4. ASSUME p.src \in Advertisers, NEW n, Upcoming(n)' PROVE Follows(n)'
  <2>1. n = advNext(p.sequenceNumber)
    BY <1>1, <1>4 DEF Upcoming, Mine, DInv, DInFlight
  <2> QED
    BY <1>1, <2>1, AdvNextRange DEF Follows
<1> QED
  BY <1>3, <1>4 DEF DInv, DFollows, DFresh

LEMMA Refreshed ==
  ASSUME DInv, NEW p \in net, SolRefresh(p)
  PROVE  /\ p \in Adverts(net) /\ p.src = solAgent /\ net' = net \ {p}
         /\ p.src = MNHAPrivate \/ Follows(p.sequenceNumber)
         /\ solSequence' = solNext(solSequence) /\ UNCHANGED <<solConnected, solAgent>>
<1>1. p \in Adverts(net) /\ solReads(p) = {p}
  BY HeardIsRead DEF SolRefresh
<1> QED
  BY <1>1 DEF SolRefresh, solFromCurrent, solFromHome, solSilent, Follows

LEMMA FreshNotRefreshed ==
  ASSUME DInv, NEW p \in net, SolRefresh(p)
  PROVE  ~(agentReset = "fresh" /\ p.src # MNHAPrivate)
<1> SUFFICES ASSUME agentReset = "fresh", p.src # MNHAPrivate PROVE FALSE
  OBVIOUS
<1>1. p \in Adverts(net) /\ p.src = solAgent /\ Follows(p.sequenceNumber)
  BY Refreshed
<1>2. p.sequenceNumber \in 0..SequenceMax /\ Upcoming(p.sequenceNumber)
  BY <1>1 DEF Upcoming, Mine, DInv, DInFlight
<1>3. p.sequenceNumber = 0 /\ solSequence # UIntMod - 1
  BY <1>1, <1>2 DEF DInv, DFresh
<1>4. ~Follows(0)
  BY <1>3, SolAssumption, PacketAssumption DEF Follows, MinusOne
<1> QED
  BY <1>1, <1>3, <1>4

LEMMA RefreshStep ==
  ASSUME DInv, NEW p \in net, SolRefresh(p), UNCHANGED <<advSequence, agentReset>>
  PROVE  DInv'
<1>1. /\ p \in Adverts(net) /\ p.src = solAgent /\ net' = net \ {p}
      /\ p.src = MNHAPrivate \/ Follows(p.sequenceNumber)
      /\ solSequence' = solNext(solSequence) /\ UNCHANGED <<solConnected, solAgent>>
  BY Refreshed
<1>2. /\ p.sequenceNumber \in 0..SequenceMax /\ Adverts(net') = {}
      /\ p.src \in Advertisers => advSequence[p.src] = advNext(p.sequenceNumber)
  BY <1>1 DEF DInv, DInFlight, Adverts
<1>3. solSequence \in UInt
  BY DEF DInv, DCounted
<1>4. DCounted' /\ DInFlight'
  BY <1>1, <1>2, <1>3, SolNextRange, Zenon DEF DInv, DCounted, DInFlight
<1>5. ASSUME solAgent \in Advertisers \ {MNHAPrivate}, NEW n, Upcoming(n)' PROVE Follows(n)'
  <2>1. n = advNext(p.sequenceNumber)
    BY <1>1, <1>2, <1>5, Zenon DEF Upcoming, Mine
  <2>2. CASE p.sequenceNumber >= SolReset
    BY <1>2, <2>1, <2>2, AdvNextRange DEF Follows
  <2>3. CASE MinusOne(p.sequenceNumber) = solSequence
    BY <1>1, <1>2, <1>3, <2>1, <2>3, CountsTogether DEF Follows
  <2> QED
    BY <1>1, <1>5, <2>2, <2>3 DEF Follows
<1>6. ~(agentReset = "fresh" /\ solAgent # MNHAPrivate)
  BY <1>1, FreshNotRefreshed
<1> QED
  BY <1>1, <1>4, <1>5, <1>6 DEF DInv, DFollows, DFresh

LEMMA HearStep ==
  ASSUME DInv, NEW p \in net, DHear(p)
  PROVE  DInv'
<1>1. UNCHANGED advSequence
  BY DEF DHear, advVars
<1>2. CASE SolRefresh(p) /\ UNCHANGED agentReset
  BY <1>1, <1>2, RefreshStep
<1>3. CASE SolFirstHome(p) /\ dNoHistory
  <2>1. p \in Adverts(net) /\ solReads(p) = {p}
    BY <1>3, HeardIsRead DEF SolFirstHome
  <2>2. /\ solAgent' = p.src /\ solSequence' = p.sequenceNumber /\ net' = net \ {p}
        /\ agentReset' = "none"
    BY <1>3, <2>1 DEF SolFirstHome, solConnect, solSilent, dNoHistory
  <2>3. Adverts(net') = Adverts(net) \ {p}
    BY <2>2 DEF Adverts
  <2> QED
    BY <1>1, <2>1, <2>2, <2>3, CountStep
<1>4. CASE SolMove(p) /\ dNoHistory
  <2>1. p \in Adverts(net) /\ solReads(p) = {p}
    BY <1>4, HeardIsRead DEF SolMove
  <2>2. /\ solAgent' = p.src /\ solSequence' = p.sequenceNumber /\ agentReset' = "none"
        /\ solRegister(p, p)
    BY <1>4, <2>1 DEF SolMove, solConnect, dNoHistory
  <2>3. Adverts(net') = Adverts(net) \ {p}
    BY <2>2, RegisterNoAdvert
  <2> QED
    BY <1>1, <2>1, <2>2, <2>3, CountStep
<1>5. CASE SolAgentReset(p) /\ agentReset' = "none"
  <2>1. p \in Adverts(net) /\ solReads(p) = {p}
    BY <1>5, HeardIsRead DEF SolAgentReset
  <2>2. /\ solAgent' = p.src /\ solSequence' = p.sequenceNumber
        /\ solRegister(p, p)
    BY <1>5, <2>1 DEF SolAgentReset, solFromCurrent
  <2>3. Adverts(net') = Adverts(net) \ {p}
    BY <2>2, RegisterNoAdvert
  <2> QED
    BY <1>1, <1>5, <2>1, <2>2, <2>3, CountStep
<1>6. CASE SolSinkhole(p) /\ UNCHANGED dHistory
  <2>1. p \in Adverts(net) /\ solReads(p) = {p}
    BY <1>6, HeardIsRead DEF SolSinkhole
  <2>2. p.src # solAgent /\ net' = net \ {p}
    BY <1>6, <2>1 DEF SolSinkhole, solFromCurrent, solSilent
  <2>3. /\ UNCHANGED <<solConnected, solAgent, solSequence, advSequence, agentReset>>
        /\ skipped' = skipped
    BY <1>1, <1>6 DEF SolSinkhole, solVars, dHistory
  <2> QED
    BY <2>1, <2>2, <2>3, OtherGoes
<1> QED
  BY <1>2, <1>3, <1>4, <1>5, <1>6 DEF DHear

LEMMA DInvInit ==
  DStart => DInv
<1> SUFFICES ASSUME DStart PROVE DInv
  OBVIOUS
<1>1. 0 \in UInt /\ 0 \in 0..SequenceMax
  BY PacketAssumption DEF UInt
<1>2. DCounted
  BY <1>1 DEF DStart, AdvInit, SolInit, DCounted
<1>3. DInFlight
  BY DEF DStart, DInFlight, Adverts
<1> QED
  BY <1>2, <1>3 DEF DStart, SolInit, DInv, DFollows, DFresh

LEMMA DInvNext ==
  DInv /\ [DNext]_dVars => DInv'
<1> SUFFICES ASSUME DInv, [DNext]_dVars PROVE DInv'
  OBVIOUS
<1>1. ASSUME NEW p \in net, DAnswer(p) PROVE DInv'
  <2>1. \A q \in net' : q \in net \ {p} \/ q.type = "REPLY"
    BY <1>1 DEF DAnswer, buildRegistrationReply
  <2>2. Adverts(net') = Adverts(net)
    BY <1>1, <2>1 DEF DAnswer, Adverts
  <2>3. UNCHANGED dCounts
    BY <1>1 DEF DAnswer, solVars, advVars, dHistory, dCounts
  <2> QED
    BY <2>2, <2>3, QuietStep
<1>2. ASSUME NEW p \in net, DAccept(p) PROVE DInv'
  <2>1. UNCHANGED dCounts
    BY <1>2 DEF DAccept, solVars, advVars, dHistory, dCounts
  <2> QED
    BY <1>2, <2>1, PushNoAdvert, QuietStep DEF DAccept
<1>3. ASSUME NEW p \in net, DUnsolicited(p) PROVE DInv'
  <2>1. Adverts(net') = Adverts(net)
    BY <1>3 DEF DUnsolicited, Adverts
  <2>2. UNCHANGED dCounts
    BY <1>3 DEF DUnsolicited, solVars, advVars, dHistory, dCounts
  <2> QED
    BY <2>1, <2>2, QuietStep
<1>4. ASSUME NEW p \in net, NEW a \in Advertisers, DSolicited(a, p) PROVE DInv'
  <2>1. /\ net = {p} /\ p.type = "SOLICITATION" /\ AdvSolicited(a, p)
        /\ UNCHANGED <<solConnected, solAgent, solSequence, skipped, agentReset>>
    BY <1>4 DEF DSolicited, AdvSolicited, solVars, dHistory
  <2>2. Adverts(net) = {}
    BY <2>1 DEF Adverts
  <2>3. CASE p.sum = "ok"
    BY <2>1, <2>2, <2>3, SendStep, Zenon DEF AdvSolicited
  <2>4. CASE p.sum # "ok"
    <3>1. UNCHANGED dCounts /\ net' = {}
      BY <2>1, <2>4 DEF AdvSolicited, dCounts
    <3>2. Adverts(net') = Adverts(net)
      BY <2>2, <3>1 DEF Adverts
    <3> QED
      BY <3>1, <3>2, QuietStep
  <2> QED
    BY <2>3, <2>4
<1>5. ASSUME NEW a \in Advertisers, DAdvertise(a) PROVE DInv'
  <2>1. /\ Adverts(net) = {} /\ advSend(a, {}, BroadcastAddr)
        /\ UNCHANGED <<solConnected, solAgent, solSequence, skipped, agentReset>>
    BY <1>5 DEF DAdvertise, AdvRunTimer, Adverts, solVars, dHistory
  <2> QED
    BY <2>1, SendStep
<1>6. ASSUME NEW a \in Advertisers, NEW s, DSetLifetime(a, s) PROVE DInv'
  <2>1. UNCHANGED dCounts /\ net' = net
    BY <1>6 DEF DSetLifetime, AdvSetLifetime, solVars, dCounts
  <2> QED
    BY <2>1, QuietStep
<1>7. ASSUME NEW a \in Advertisers, NEW l, DSetRegistration(a, l) PROVE DInv'
  <2>1. UNCHANGED dCounts /\ net' = net
    BY <1>7 DEF DSetRegistration, AdvSetRegistration, solVars, dHistory, dCounts
  <2> QED
    BY <2>1, QuietStep
<1>8. ASSUME NEW p \in MNAdverts, DPut(p) PROVE DInv'
  <2>1. UNCHANGED dCounts /\ net = {} /\ net' = {p}
    BY <1>8 DEF DPut, solVars, advVars, dHistory, dCounts
  <2> QED
    BY <2>1, OtherComes
<1>9. ASSUME NEW link, NEW o, DOther(link, o) PROVE DInv'
  <2>1. UNCHANGED dCounts
    BY <1>9 DEF DOther, solVars, advVars, dHistory, dCounts
  <2>2. Adverts(net') = Adverts(net)
    BY <1>9 DEF DOther, Adverts, buildRouterSolicitation
  <2> QED
    BY <2>1, <2>2, QuietStep
<1>10. ASSUME DExpire \/ DNodeRestart PROVE DInv'
  <2>1. /\ UNCHANGED <<net, advSequence>> /\ solConnected' = FALSE /\ solSequence' = 0
        /\ agentReset' = "none"
    BY <1>10 DEF DExpire, DNodeRestart, SolRunTimer, MNRestart, dNoHistory, mnVars, advVars
  <2> QED
    BY <2>1, EndStep, ZenonT(60)
<1>11. ASSUME DUser PROVE DInv'
  <2>1. UNCHANGED dCounts
    BY <1>11 DEF DUser, SolSetInterval, SolSolicit, MNCarry, solVars, advVars, dHistory, dCounts
  <2>2. Adverts(net') = Adverts(net)
    BY <1>11 DEF DUser, SolSetInterval, SolSolicit, MNCarry, mnVars, Adverts,
                 buildRouterSolicitation
  <2> QED
    BY <2>1, <2>2, QuietStep
<1>12. ASSUME DTick \/ UNCHANGED dVars PROVE DInv'
  <2>1. UNCHANGED dCounts /\ net' = net
    BY <1>12 DEF DTick, AdvElapse, dVars, mnVars, solVars, advVars, dHistory, dCounts
  <2> QED
    BY <2>1, QuietStep
<1>13. CASE DNext
  BY <1>1, <1>2, <1>3, <1>4, <1>5, <1>6, <1>7, <1>8, <1>9, <1>10, <1>11, <1>12, <1>13,
     HearStep, GoneStep, RestartStep DEF DNext
<1> QED
  BY <1>12, <1>13

LEMMA DInvariant ==
  DSpec => []DInv
BY DInvInit, DInvNext, PTL DEF DSpec

(***************************************************************************)
(* A start of the foreign agent is never taken for its next advertisement  *)
(* when no advertisement got lost, whatever number the node had counted to *)
(* and wherever the numbers roll over.                                     *)
(***************************************************************************)
THEOREM DResetNoticed ==
  DSpec => ResetNoticed
<1> DEFINE A == \A p \in net :
             agentReset = "fresh" /\ DHear(p) /\ p.src # MNHAPrivate => ~SolRefresh(p)
<1>1. DInv => A
  <2> SUFFICES ASSUME DInv, NEW p \in net, agentReset = "fresh", DHear(p),
                      p.src # MNHAPrivate, SolRefresh(p)
               PROVE  FALSE
    OBVIOUS
  <2>1. ~(agentReset = "fresh" /\ p.src # MNHAPrivate)
    BY FreshNotRefreshed
  <2> QED
    BY <2>1
<1>2. DInv => [A]_dVars
  BY <1>1
<1> QED
  BY <1>2, DInvariant, PTL DEF ResetNoticed

(***************************************************************************)
(* Without a lost advertisement or a start, the node never registers again *)
(* because of a number.                                                    *)
(***************************************************************************)
THEOREM DNoFalseReset ==
  DSpec => NoFalseReset
<1> DEFINE A == \A p \in net : DHear(p) /\ SolAgentReset(p) => skipped \/ agentReset # "none"
<1>1. DInv => A
  <2> SUFFICES ASSUME DInv, NEW p \in net, SolAgentReset(p), ~skipped, agentReset = "none"
               PROVE  FALSE
    OBVIOUS
  <2>1. p \in Adverts(net) /\ solReads(p) = {p}
    BY HeardIsRead DEF SolAgentReset
  <2>2. /\ solConnected /\ p.src = solAgent /\ p.src # MNHAPrivate
        /\ MinusOne(p.sequenceNumber) # solSequence /\ p.sequenceNumber < SolReset
    BY <2>1 DEF SolAgentReset, solFromCurrent, solFromHome
  <2>3. p.sequenceNumber \in 0..SequenceMax /\ ~(p.sequenceNumber >= SolReset)
    BY <2>1, <2>2, SolAssumption, PacketAssumption DEF DInv, DInFlight
  <2>4. p.src \in Advertisers
    BY <2>1, <2>3 DEF DInv, DInFlight
  <2>5. Upcoming(p.sequenceNumber)
    BY <2>1, <2>2 DEF Upcoming, Mine
  <2>6. Follows(p.sequenceNumber)
    BY <2>2, <2>3, <2>4, <2>5 DEF DInv, DFollows
  <2> QED
    BY <2>2, <2>3, <2>6 DEF Follows
<1>2. DInv => [A]_dVars
  BY <1>1
<1> QED
  BY <1>2, DInvariant, PTL DEF NoFalseReset


(***************************************************************************)
(* The clocks of the agents.  No lifetime is below 3, which the handler    *)
(* and the default see to: the interval less the random part would         *)
(* otherwise be negative.                                                  *)
(***************************************************************************)
DClock ==
  /\ advLifetime \in [Advertisers -> UInt] /\ advTimer \in [Advertisers -> Nat]
  /\ advRegistration \in [Advertisers -> UInt]
  /\ \A a \in Advertisers : advLifetime[a] >= 3

Interval(l) == (l \div 3) * AdvSecond

\* Every interval lies in the future, and is at most a third of the lifetime.
LEMMA IntervalRange ==
  ASSUME NEW l \in Nat, l >= 3
  PROVE  /\ Interval(l) \in Nat /\ Interval(l) >= 1
         /\ \A t \in advInterval(l) : t \in Nat /\ t >= 1 /\ t <= Interval(l)
<1> DEFINE k == l \div 3
<1>1. k \in Nat /\ k >= 1
  OBVIOUS
<1>2. AdvSecond \in Nat /\ AdvJitter \in Nat /\ AdvJitter >= 1 /\ AdvJitter <= AdvSecond
  BY AdvAssumption
<1> HIDE DEF k
<1>3. k * AdvSecond \in Nat /\ k * AdvSecond >= AdvSecond
  <2>1. PICK j \in Nat : k = j + 1
    <3>1. k - 1 \in Nat /\ k = (k - 1) + 1
      BY <1>1
    <3> QED
      BY <3>1
  <2>2. j * AdvSecond \in Nat
    BY <1>2, <2>1
  <2>3. k * AdvSecond = j * AdvSecond + AdvSecond
    BY <1>2, <2>1
  <2> QED
    BY <1>2, <2>2, <2>3
<1>4. Interval(l) = k * AdvSecond
  BY DEF Interval, k
<1>5. advInterval(l) = {k * AdvSecond - r : r \in 0..(AdvJitter - 1)}
  BY DEF advInterval, k
<1> QED
  BY <1>2, <1>3, <1>4, <1>5

\* The clocks of the agents: only the timer, the handlers, a start and the
\* passing of time touch them.
LEMMA ClockStep ==
  ASSUME DClock, [DNext]_dVars
  PROVE  DClock'
<1>2. \A a \in Advertisers : /\ advLifetime[a] \in Nat /\ advLifetime[a] >= 3
                             /\ advTimer[a] \in Nat
  BY PacketAssumption DEF DClock, UInt
<1>3. ASSUME UNCHANGED <<advLifetime, advRegistration, advTimer>> PROVE DClock'
  BY <1>3 DEF DClock
<1>4. ASSUME NEW p \in net,
             \/ DHear(p) \/ DGone(p) \/ DAnswer(p) \/ DAccept(p) \/ DUnsolicited(p)
             \/ \E a \in Advertisers : DSolicited(a, p)
      PROVE  DClock'
  BY <1>3, <1>4, Zenon
     DEF DHear, DGone, DAnswer, DAccept, DUnsolicited, DSolicited, AdvSolicited, advVars
<1>5. ASSUME NEW a \in Advertisers, DAdvertise(a) PROVE DClock'
  <2>1. PICK t \in advInterval(advLifetime[a]) : advTimer' = [advTimer EXCEPT ![a] = t]
    BY <1>5, Zenon DEF DAdvertise, AdvRunTimer
  <2>2. t \in Nat
    BY <1>2, <2>1, IntervalRange
  <2>3. UNCHANGED <<advLifetime, advRegistration>>
    BY <1>5 DEF DAdvertise, AdvRunTimer
  <2> QED
    BY <2>1, <2>2, <2>3 DEF DClock
<1>6. ASSUME NEW a \in Advertisers, NEW s \in AdvLifetimes, DSetLifetime(a, s) PROVE DClock'
  <2>1. s \in UInt /\ s \in Nat /\ s >= 3
    BY <1>6, AdvAssumption, PacketAssumption DEF DSetLifetime, AdvSetLifetime, UInt
  <2>2. PICK t \in advInterval(s) : advTimer' = [advTimer EXCEPT ![a] = t]
    BY <1>6, Zenon DEF DSetLifetime, AdvSetLifetime
  <2>3. t \in Nat
    BY <2>1, <2>2, IntervalRange
  <2>4. advLifetime' = [advLifetime EXCEPT ![a] = s] /\ UNCHANGED advRegistration
    BY <1>6 DEF DSetLifetime, AdvSetLifetime
  <2> QED
    BY <2>1, <2>2, <2>3, <2>4 DEF DClock
<1>7. ASSUME NEW a \in Advertisers, NEW l \in AdvRegistrations, DSetRegistration(a, l) PROVE DClock'
  <2>1. l \in UInt
    BY AdvAssumption
  <2>2. /\ advRegistration' = [advRegistration EXCEPT ![a] = l]
        /\ UNCHANGED <<advLifetime, advTimer>>
    BY <1>7 DEF DSetRegistration, AdvSetRegistration
  <2> QED
    BY <2>1, <2>2 DEF DClock
<1>8. ASSUME NEW a \in Advertisers, DRestart(a) PROVE DClock'
  <2>1. /\ advLifetime' = [advLifetime EXCEPT ![a] = AdvDefaultLifetime]
        /\ advRegistration' = [advRegistration EXCEPT ![a] = AdvDefaultRegistration]
        /\ advTimer' = [advTimer EXCEPT ![a] = advFirst]
    BY <1>8 DEF DRestart, AdvRestart
  <2>2. /\ AdvDefaultLifetime \in UInt /\ AdvDefaultLifetime >= 3
        /\ AdvDefaultRegistration \in UInt /\ advFirst \in Nat
    BY AdvAssumption, PacketAssumption DEF advFirst, UInt
  <2> QED
    BY <2>1, <2>2 DEF DClock
<1>9. ASSUME DTick PROVE DClock'
  <2>1. /\ \A a \in Advertisers : advTimer[a] > 0
        /\ advTimer' = [a \in Advertisers |-> advTimer[a] - 1]
        /\ UNCHANGED <<advLifetime, advRegistration>>
    BY <1>9 DEF DTick, AdvElapse
  <2> QED
    BY <1>2, <2>1 DEF DClock
<1>10. ASSUME \/ \E p \in MNAdverts : DPut(p)
              \/ \E link \in {"home", "foreign"}, o \in DOthers : DOther(link, o)
              \/ DExpire \/ DUser \/ DNodeRestart \/ UNCHANGED dVars
       PROVE  DClock'
  BY <1>3, <1>10, Zenon DEF DPut, DOther, DExpire, DUser, DNodeRestart, advVars, dVars
<1>11. CASE DNext
  BY <1>4, <1>5, <1>6, <1>7, <1>8, <1>9, <1>10, <1>11, Zenon DEF DNext
<1> QED
  BY <1>10, <1>11

LEMMA ClockInit ==
  DStart => DClock
<1>1. /\ AdvDefaultLifetime \in UInt /\ AdvDefaultLifetime >= 3
      /\ AdvDefaultRegistration \in UInt /\ advFirst \in Nat
  BY AdvAssumption, PacketAssumption DEF advFirst, UInt
<1> QED
  BY <1>1 DEF DStart, AdvInit, DClock

(***************************************************************************)
(* Silence.  The theorem is about lifetimes that fit the 16-bit field of   *)
(* the advertisement, which the handler does not see to: a longer one is   *)
(* cut on the wire, and the node then gives up an agent that is never      *)
(* silent.  It needs a default whose interval is longer than the 3 seconds *)
(* after a start (45 in the code); with 9, the second advertisement after  *)
(* a start may come due at the very moment at which the node gives up.     *)
(***************************************************************************)
LifetimesFit ==
  AdvLifetimes \subseteq 0..Infinity /\ AdvDefaultLifetime \in 12..Infinity

(***************************************************************************)
(* The inductive invariant.  No agent waits longer than its interval, and  *)
(* an advertisement in flight carries the lifetime of its sender.  While   *)
(* fewer than two advertisements were missed, the time left to the node    *)
(* covers the wait for as many more as make two, and one interval more     *)
(* unless a start of the agent has used that one up; one that is underway  *)
(* is already counted.                                                     *)
(***************************************************************************)
DTimed ==
  /\ \A a \in Advertisers :
       advLifetime[a] <= Infinity /\ advTimer[a] <= Interval(advLifetime[a])
  /\ silentIn \in Nat /\ missed \in 0..2 /\ delayed \in 0..2
  /\ \A p \in Adverts(net) :
       p.lifetime \in Nat /\ (p.src \in Advertisers => p.lifetime = advLifetime[p.src])

Underway == \E p \in Mine(net) : p.dst \in {MNHome, BroadcastAddr}

Room(m) ==
  LET every == Interval(advLifetime[solAgent])
      wait == advTimer[solAgent] + (IF m = 0 THEN every ELSE 0)
  IN  IF delayed = 0 THEN silentIn >= wait + every ELSE silentIn > wait

DRoom ==
  lifetimeTimer /\ solAgent \in Advertisers /\ missed < 2 /\ delayed < 2 =>
    /\ silentIn > 0
    /\ Room(missed) \/ (Underway /\ (missed = 0 => Room(1)))

DTimedInv == DInv /\ DClock /\ DTimed /\ DRoom

\* Three intervals fit into the lifetime.
LEMMA IntervalThird ==
  ASSUME NEW l \in Nat
  PROVE  Interval(l) \in Nat /\ 3 * Interval(l) <= l * AdvSecond
<1> DEFINE k == l \div 3
<1>1. k \in Nat /\ 3 * k <= l
  OBVIOUS
<1>2. AdvSecond \in Nat
  BY AdvAssumption
<1>3. Interval(l) = k * AdvSecond
  BY DEF Interval
<1> HIDE DEF k
<1>4. PICK d \in Nat : l = 3 * k + d
  <2>1. l - 3 * k \in Nat /\ l = 3 * k + (l - 3 * k)
    BY <1>1
  <2> QED
    BY <2>1
<1>5. l * AdvSecond = 3 * (k * AdvSecond) + d * AdvSecond
  BY <1>1, <1>2, <1>4
<1>6. k * AdvSecond \in Nat /\ d * AdvSecond \in Nat
  BY <1>1, <1>2, <1>4
<1> QED
  BY <1>3, <1>5, <1>6

LEMMA IntervalMonotone ==
  ASSUME NEW l \in Nat, NEW n \in Nat, l <= n
  PROVE  Interval(l) <= Interval(n)
<1> DEFINE j == l \div 3
           k == n \div 3
<1>1. j \in Nat /\ k \in Nat /\ j <= k
  OBVIOUS
<1>2. AdvSecond \in Nat
  BY AdvAssumption
<1>3. Interval(l) = j * AdvSecond /\ Interval(n) = k * AdvSecond
  BY DEF Interval
<1> HIDE DEF j, k
<1>4. PICK d \in Nat : k = j + d
  <2>1. k - j \in Nat /\ k = j + (k - j)
    BY <1>1
  <2> QED
    BY <2>1
<1>5. k * AdvSecond = j * AdvSecond + d * AdvSecond
  BY <1>1, <1>2, <1>4
<1>6. j * AdvSecond \in Nat /\ d * AdvSecond \in Nat
  BY <1>1, <1>2, <1>4
<1> QED
  BY <1>3, <1>5, <1>6

\* The wait after a start is shorter than the interval.
LEMMA FirstIsSooner ==
  ASSUME NEW l \in Nat, l >= 12
  PROVE  advFirst \in Nat /\ advFirst < Interval(l)
<1>1. AdvSecond \in Nat /\ AdvSecond >= 1
  BY AdvAssumption
<1>2. 12 \div 3 = 4
  OBVIOUS
<1>3. Interval(12) = 4 * AdvSecond
  BY <1>2 DEF Interval
<1>4. Interval(12) <= Interval(l)
  BY IntervalMonotone
<1>5. Interval(l) \in Nat
  BY IntervalThird
<1> QED
  BY <1>1, <1>3, <1>4, <1>5 DEF advFirst

LEMMA TimedFacts ==
  ASSUME DTimedInv, NEW a \in Advertisers
  PROVE  /\ advLifetime[a] \in Nat /\ advLifetime[a] >= 3 /\ advLifetime[a] <= Infinity
         /\ advTimer[a] \in Nat /\ advTimer[a] <= Interval(advLifetime[a])
         /\ Interval(advLifetime[a]) \in Nat /\ Interval(advLifetime[a]) >= 1
         /\ silentIn \in Nat
<1>1. /\ advLifetime[a] \in Nat /\ advLifetime[a] >= 3 /\ advLifetime[a] <= Infinity
      /\ advTimer[a] \in Nat /\ advTimer[a] <= Interval(advLifetime[a])
  BY PacketAssumption DEF DTimedInv, DClock, DTimed, UInt
<1>2. silentIn \in Nat
  BY DEF DTimedInv, DTimed
<1> QED
  BY <1>1, <1>2, IntervalRange

\* What is underway is an advertisement.
LEMMA NothingUnderway ==
  ASSUME Adverts(net) = {}
  PROVE  ~Underway
BY DEF Underway, Mine

\* Steps that leave the clocks alone.
dClocks == <<advLifetime, advTimer, silentIn, delayed, lifetimeTimer, solAgent>>

LEMMA RoomKept ==
  ASSUME UNCHANGED dClocks, NEW m
  PROVE  Room(m)' <=> Room(m)
BY DEF Room, dClocks

LEMMA QuietTime ==
  ASSUME DTimed, DRoom, UNCHANGED <<dClocks, missed>>, Adverts(net') = Adverts(net)
  PROVE  DTimed' /\ DRoom'
<1>1. DTimed'
  BY DEF DTimed, dClocks
<1>2. Underway' <=> Underway
  BY DEF Underway, Mine, dClocks
<1>3. Room(missed)' <=> Room(missed)
  BY DEF Room, dClocks
<1>4. Room(1)' <=> Room(1)
  BY RoomKept
<1> QED
  BY <1>1, <1>2, <1>3, <1>4 DEF DRoom, dClocks

LEMMA EndTime ==
  ASSUME DTimed, UNCHANGED <<net, advLifetime, advTimer>>, lifetimeTimer' = FALSE,
         missed' = 0, delayed' = 0,
         silentIn' \in {0, silentIn}
  PROVE  DTimed' /\ DRoom'
BY DEF DTimed, DRoom

\* A packet comes that changes no clock: an answer to a solicitation, or an
\* advertisement of an agent that is not timed.
LEMMA ComesTime ==
  ASSUME DTimed, DRoom, Adverts(net) = {}, UNCHANGED <<dClocks, missed>>,
         \A p \in Adverts(net') :
           p.lifetime \in Nat /\ (p.src \in Advertisers => p.lifetime = advLifetime[p.src])
  PROVE  DTimed' /\ DRoom'
<1>1. DTimed'
  BY DEF DTimed, dClocks
<1>2. ~Underway
  BY NothingUnderway, Zenon
<1>3. Room(missed)' <=> Room(missed)
  BY DEF Room, dClocks
<1> QED
  BY <1>1, <1>2, <1>3 DEF DRoom, dClocks

\* An advertisement goes without prolonging the connection.
LEMMA GoesTime ==
  ASSUME DTimedInv, NEW p \in Adverts(net), Adverts(net') = {}, UNCHANGED dClocks,
         missed' = IF p.src = solAgent /\ p.dst \in {MNHome, BroadcastAddr}
                   THEN Minimum(2, missed + 1) ELSE missed
  PROVE  DTimed' /\ DRoom'
<1>1. missed \in 0..2 /\ delayed \in 0..2
  BY DEF DTimedInv, DTimed
<1>2. missed' \in 0..2 /\ (missed' = missed \/ missed' = missed + 1 \/ missed' = 2)
  BY <1>1 DEF Minimum
<1>3. DTimed'
  BY <1>2 DEF DTimedInv, DTimed, dClocks
<1>4. ASSUME lifetimeTimer, solAgent \in Advertisers, missed' < 2, delayed < 2
      PROVE  silentIn > 0 /\ Room(missed)'
  <2>1. missed < 2 /\ silentIn > 0 /\ (Room(missed) \/ (Underway /\ (missed = 0 => Room(1))))
    BY <1>1, <1>2, <1>4 DEF DTimedInv, DRoom
  <2>2. CASE p.src = solAgent /\ p.dst \in {MNHome, BroadcastAddr}
    <3>1. missed = 0 /\ missed' = 1
      BY <1>1, <1>4, <2>2 DEF Minimum
    <3>2. Room(0) => Room(1)
      <4>1. Interval(advLifetime[solAgent]) \in Nat /\ advTimer[solAgent] \in Nat /\ silentIn \in Nat
        BY <1>4, TimedFacts, Zenon
      <4> QED
        BY <4>1 DEF Room
    <3>3. Room(1)
      BY <2>1, <3>1, <3>2, Zenon
    <3> QED
      BY <2>1, <3>1, <3>3 DEF Room, dClocks
  <2>3. CASE ~(p.src = solAgent /\ p.dst \in {MNHome, BroadcastAddr})
    <3>1. ~Underway
      BY <2>3 DEF Underway, Mine, DTimedInv, DInv, DInFlight
    <3>2. missed' = missed
      BY <2>3
    <3> QED
      BY <2>1, <3>1, <3>2 DEF Room, dClocks
  <2> QED
    BY <2>2, <2>3
<1> QED
  BY <1>3, <1>4 DEF DRoom, dClocks

\* raiseLifetime: three intervals from now.
LEMMA RaiseTime ==
  ASSUME DTimedInv, NEW p \in Adverts(net), Adverts(net') = {}, dRaise(p), solAgent' = p.src,
         missed' = 0, delayed' = 0, UNCHANGED <<advLifetime, advTimer>>
  PROVE  DTimed' /\ DRoom'
<1>1. DTimed'
  <2>1. silentIn' \in Nat
    BY AdvAssumption DEF dRaise, DTimedInv, DTimed
  <2> QED
    BY <2>1 DEF DTimedInv, DTimed
<1>2. ASSUME p.src \in Advertisers PROVE silentIn' > 0 /\ Room(0)'
  <2> DEFINE l == advLifetime[p.src]
             t == advTimer[p.src]
             iv == Interval(l)
  <2>1. /\ l \in Nat /\ t \in Nat /\ t <= iv /\ iv \in Nat /\ iv >= 1
    BY <1>2, TimedFacts
  <2>2. 3 * iv <= l * AdvSecond /\ l * AdvSecond \in Nat
    BY <2>1, IntervalThird, AdvAssumption
  <2>3. silentIn' = l * AdvSecond
    BY <1>2 DEF dRaise, DTimedInv, DTimed
  <2>4. Interval(advLifetime[solAgent])' = iv /\ advTimer[solAgent]' = t
    BY DEF Interval
  <2> HIDE DEF l, t, iv
  <2>5. silentIn' >= t + iv + iv /\ silentIn' > 0
    BY <2>1, <2>2, <2>3
  <2> QED
    BY <2>4, <2>5 DEF Room
<1> QED
  BY <1>1, <1>2 DEF DRoom

LEMMA HearTime ==
  ASSUME DTimedInv, NEW p \in net, DHear(p)
  PROVE  DTimed' /\ DRoom'
<1>1. DInv /\ UNCHANGED <<advLifetime, advTimer>>
  BY DEF DTimedInv, DHear, advVars
<1>2. solGetsAdvert(p)
  BY Zenon DEF DHear, SolRefresh, SolFirstHome, SolMove, SolAgentReset, SolSinkhole
<1>3. p \in Adverts(net) /\ solReads(p) = {p} /\ p.dst \in {MNHome, BroadcastAddr}
  BY <1>1, <1>2, HeardIsRead DEF solGetsAdvert
<1>4. Adverts(net) = {p}
  BY <1>1, <1>3 DEF DInv, DInFlight
<1>5. net' = net \ {p} => Adverts(net') = Adverts(net) \ {p}
  BY DEF Adverts
<1>6. solRegister(p, p) => Adverts(net') = Adverts(net) \ {p}
  BY RegisterNoAdvert
<1>7. CASE SolRefresh(p) /\ dRaise(p) /\ missed' = 0 /\ delayed' = 0
  <2>1. net' = net \ {p} /\ solAgent' = p.src
    BY <1>1, <1>7, Refreshed
  <2> QED
    BY <1>1, <1>3, <1>4, <1>5, <1>7, <2>1, RaiseTime
<1>8. CASE SolFirstHome(p) /\ dRaise(p) /\ dNoHistory
  <2>1. net' = net \ {p} /\ solAgent' = p.src /\ missed' = 0 /\ delayed' = 0
    BY <1>3, <1>8 DEF SolFirstHome, solConnect, solSilent, dNoHistory
  <2> QED
    BY <1>1, <1>3, <1>4, <1>5, <1>8, <2>1, RaiseTime
<1>9. CASE SolMove(p) /\ dRaise(p) /\ dNoHistory
  <2>1. solRegister(p, p) /\ solAgent' = p.src /\ missed' = 0 /\ delayed' = 0
    BY <1>3, <1>9 DEF SolMove, solConnect, dNoHistory
  <2> QED
    BY <1>1, <1>3, <1>4, <1>6, <1>9, <2>1, RaiseTime
<1>10. CASE /\ SolAgentReset(p) /\ missed' = Minimum(2, missed + 1)
            /\ UNCHANGED <<silentIn, delayed>>
  <2>1. solRegister(p, p) /\ p.src = solAgent /\ UNCHANGED <<solAgent, lifetimeTimer>>
    BY <1>3, <1>10 DEF SolAgentReset, solFromCurrent
  <2>2. UNCHANGED dClocks
    BY <1>1, <1>10, <2>1 DEF dClocks
  <2> QED
    BY <1>3, <1>4, <1>6, <1>10, <2>1, <2>2, GoesTime
<1>11. CASE SolSinkhole(p) /\ UNCHANGED <<silentIn, dHistory>>
  <2>1. net' = net \ {p} /\ p.src # solAgent /\ UNCHANGED <<solAgent, lifetimeTimer>>
    BY <1>3, <1>11 DEF SolSinkhole, solFromCurrent, solSilent, solVars
  <2>2. UNCHANGED dClocks /\ missed' = missed
    BY <1>1, <1>11, <2>1 DEF dClocks, dHistory
  <2> QED
    BY <1>3, <1>4, <1>5, <2>1, <2>2, GoesTime
<1> QED
  BY <1>7, <1>8, <1>9, <1>10, <1>11, Zenon DEF DHear
============================================================================
