------------------------- MODULE MobileIPSoliciter -------------------------
(***************************************************************************)
(* The mobile node's process: MobileIPNode and MobileIPSoliciter, which    *)
(* follows the agents' advertisements and makes the node register.         *)
(*                                                                         *)
(* lifetimeTimer is TRUE while the timer of the last advertisement is      *)
(* scheduled; when it expires is left open here and timed in Discovery.    *)
(* The solicitation timer is scheduled while solInterval is not 0.  An     *)
(* Ethernet address is named by the IP address of its interface.  In this  *)
(* module the rest of the world is MNEnv: it moves the node between links, *)
(* puts advertisements and replies on its link and takes what it sends     *)
(* off.                                                                    *)
(***************************************************************************)
EXTENDS MobileIPNode

CONSTANTS
  SolReset,    \* sequence numbers below it are used only after a start: 256
  SolIntervals,\* what the handler set_solicitation_interval may set
  MNAdverts,   \* the advertisements of the environment
  MNReplies,   \* its replies
  MNMaxAsks    \* bound: no advertisement while that many requests are pending

ASSUME SolAssumption ==
  /\ SolReset \in 1..SequenceMax
  /\ SolIntervals \subseteq UInt
  /\ MNAdverts \subseteq AdvertPacket /\ MNReplies \subseteq ReplyPacket
  /\ MNMaxAsks \in Nat

VARIABLES
  solConnected,     \* connected
  solAgent,         \* agentAddress
  agentMAC,
  firstConnection,
  fastMoving,       \* enableFastMoving
  solSequence,      \* advertisementSequenceNumber
  lifetimeTimer,
  solInterval       \* solicitationInterval

solVars == <<solConnected, solAgent, agentMAC, firstConnection, fastMoving,
             solSequence, lifetimeTimer, solInterval>>

mnRest == <<mnRequests, mnAllocated, connection, homeAgentPublic, mnTimeout, mnRunning, mnLink>>
mnFixed == <<homeAgentPublic, mnTimeout, mnRunning, mnLink>>

SolInit ==
  /\ solConnected = FALSE /\ solAgent = AnyAddr
  /\ firstConnection = TRUE /\ fastMoving = FALSE
  /\ solSequence = 0 /\ lifetimeTimer = FALSE
  /\ agentMAC = AnyAddr /\ solInterval = 0

----------------------------------------------------------------------------
\* isHome
solIsHome == ~solConnected \/ solAgent = MNHAPrivate

solGetsAdvert(p) ==
  /\ mnRunning
  /\ p.type = "ADVERTISEMENT" /\ p.link = mnLink /\ p.dst \in {MNHome, BroadcastAddr}

\* An advertisement with a wrong checksum is processed all the same, as one
\* from 0.0.0.0 whose numbers were never set.
solReads(p) ==
  IF p.sum = "ok" THEN {p}
  ELSE {[p EXCEPT !.src = AnyAddr, !.careOf = AnyAddr,
                  !.registrationLifetime = junk[1], !.sequenceNumber = junk[2]]
        : junk \in MNGarbage \X MNGarbage}

solNext(n) == (n + 1) % UIntMod

\* Mutated form: the lifetime timer is not scheduled.
solConnect_silent(p, adv) ==
  /\ solConnected' = TRUE /\ solAgent' = adv.src /\ agentMAC' = p.src
  /\ solSequence' = adv.sequenceNumber
  /\ UNCHANGED <<fastMoving, solInterval, lifetimeTimer>>

\* connect, without the registration
solConnect(p, adv) ==
  /\ solConnected' = TRUE /\ solAgent' = adv.src /\ agentMAC' = p.src
  /\ solSequence' = adv.sequenceNumber
  /\ lifetimeTimer' = TRUE
  /\ UNCHANGED <<fastMoving, solInterval>>

solRegister(p, adv) ==
  /\ reregister({p}, adv.src, adv.careOf, adv.registrationLifetime)
  /\ UNCHANGED mnFixed

solSilent(p) == net' = net \ {p} /\ UNCHANGED mnRest

solFromHome(adv) == adv.src = MNHAPrivate
solFromCurrent(adv) == solConnected /\ solAgent = adv.src

\* The next advertisement of the agent the node is connected to.
SolRefresh(p) ==
  /\ solGetsAdvert(p)
  /\ \E adv \in solReads(p) :
       /\ solFromCurrent(adv)
       /\ \/ solFromHome(adv)
          \/ MinusOne(adv.sequenceNumber) = solSequence
          \/ adv.sequenceNumber >= SolReset
  /\ solSequence' = solNext(solSequence)
  /\ lifetimeTimer' = TRUE
  /\ solSilent(p)
  /\ UNCHANGED <<solConnected, solAgent, agentMAC, firstConnection, fastMoving, solInterval>>

\* The first advertisement of the home agent: no registration.
SolFirstHome(p) ==
  /\ solGetsAdvert(p)
  /\ \E adv \in solReads(p) :
       /\ solFromHome(adv) /\ ~solFromCurrent(adv) /\ firstConnection
       /\ solConnect(p, adv)
  /\ firstConnection' = FALSE
  /\ solSilent(p)

\* Back home, or the first foreign agent, or after the lifetime ran out, or a
\* move to another foreign agent when fast moving is on.
SolMove(p) ==
  /\ solGetsAdvert(p)
  /\ \E adv \in solReads(p) :
       /\ ~solFromCurrent(adv)
       /\ IF solFromHome(adv) THEN ~firstConnection ELSE ~solConnected \/ fastMoving
       /\ solConnect(p, adv)
       /\ solRegister(p, adv)
  /\ UNCHANGED firstConnection

\* The foreign agent was started again.
SolAgentReset(p) ==
  /\ solGetsAdvert(p)
  /\ \E adv \in solReads(p) :
       /\ solFromCurrent(adv) /\ ~solFromHome(adv)
       /\ MinusOne(adv.sequenceNumber) # solSequence /\ adv.sequenceNumber < SolReset
       /\ solSequence' = adv.sequenceNumber
       /\ solRegister(p, adv)
  /\ UNCHANGED <<solConnected, solAgent, agentMAC, firstConnection, fastMoving,
                 lifetimeTimer, solInterval>>

\* Another foreign agent, while the current one still counts.
SolSinkhole(p) ==
  /\ solGetsAdvert(p)
  /\ \E adv \in solReads(p) :
       ~solFromHome(adv) /\ ~solFromCurrent(adv) /\ solConnected /\ ~fastMoving
  /\ solSilent(p)
  /\ UNCHANGED solVars

simple_action(p) ==
  SolRefresh(p) \/ SolFirstHome(p) \/ SolMove(p) \/ SolAgentReset(p) \/ SolSinkhole(p)

\* Mutated form: the end of the lifetime is reported and nothing else.
SolRunTimer_chatter ==
  /\ mnRunning /\ lifetimeTimer
  /\ lifetimeTimer' = FALSE
  /\ UNCHANGED <<mnVars, solConnected, solAgent, agentMAC, firstConnection,
                 fastMoving, solSequence, solInterval>>

\* The lifetime of the last advertisement is over: disconnect.
SolRunTimer ==
  /\ mnRunning /\ lifetimeTimer
  /\ solConnected' = FALSE /\ solAgent' = AnyAddr
  /\ solSequence' = 0 /\ lifetimeTimer' = FALSE
  /\ UNCHANGED <<mnVars, agentMAC, firstConnection, fastMoving, solInterval>>

SolSetFastMoving(b) ==
  /\ mnRunning
  /\ fastMoving' = b
  /\ UNCHANGED <<mnVars, solConnected, solAgent, agentMAC, firstConnection,
                 solSequence, lifetimeTimer, solInterval>>

\* changeSolicitationInterval: 0 unschedules the solicitation timer.
SolSetInterval(s) ==
  /\ mnRunning
  /\ solInterval' = s
  /\ UNCHANGED <<mnVars, solConnected, solAgent, agentMAC, firstConnection,
                 fastMoving, solSequence, lifetimeTimer>>

\* The solicitation timer: sendSolicitation, to all on the link.
SolSolicit ==
  /\ mnRunning /\ solInterval # 0
  /\ net' = net \cup {buildRouterSolicitation(mnLink, MNHome, BroadcastAddr)}
  /\ UNCHANGED <<mnRest, solVars>>

\* The process is started again.
MNRestart ==
  /\ mnRequests' = <<>> /\ mnAllocated' = FALSE
  /\ connection' = noConnection
  /\ homeAgentPublic' = MNHAPublic
  /\ mnTimeout' = MNDefaultTimeout
  /\ mnRunning' = TRUE
  /\ solConnected' = FALSE /\ solAgent' = AnyAddr
  /\ firstConnection' = TRUE /\ fastMoving' = FALSE
  /\ solSequence' = 0 /\ lifetimeTimer' = FALSE
  /\ agentMAC' = AnyAddr /\ solInterval' = 0
  /\ UNCHANGED <<net, mnLink>>

MNStep ==
  \/ \E p \in net : MNPush(p) /\ UNCHANGED solVars
  \/ MNRunTimer /\ UNCHANGED solVars
  \/ \E t \in MNTimeouts : MNSetTimeout(t) /\ UNCHANGED solVars
  \/ \E p \in net : simple_action(p)
  \/ SolRunTimer
  \/ \E b \in BOOLEAN : SolSetFastMoving(b)
  \/ \E s \in SolIntervals : SolSetInterval(s)
  \/ SolSolicit
  \/ MNRestart

----------------------------------------------------------------------------
\* The user carries the node from one link to the other; what was on its way
\* to it there is lost to it.
MNCarry(link) ==
  /\ mnLink' = link /\ net' = {}
  /\ UNCHANGED <<mnRequests, mnAllocated, connection, homeAgentPublic,
                 mnTimeout, mnRunning, solVars>>

\* One packet at a time comes to the node's link, and any packet may be lost.
\* What the node sends is taken off before anything else happens: it never
\* looks at it again.
MNPut(p) ==
  /\ p.link = mnLink
  /\ net = {} /\ net' = {p}
  /\ p.type = "ADVERTISEMENT" => Len(mnRequests) < MNMaxAsks
  /\ UNCHANGED <<mnRest, solVars>>

MNLose ==
  /\ \E p \in net : net' = net \ {p}
  /\ UNCHANGED <<mnRest, solVars>>

MNQuiet == \A p \in net : p.type \notin {"REGISTRATION", "SOLICITATION"}

MNEnv ==
  \/ \E link \in {"home", "foreign"} : MNCarry(link)
  \/ \E p \in MNAdverts \cup MNReplies : MNPut(p)

MNNext == (MNQuiet /\ (MNStep \/ MNEnv)) \/ MNLose

mnAll == <<mnVars, solVars>>

MNStart == MNInit /\ SolInit /\ net = {} /\ mnLink = "home"

MNSpec == MNStart /\ [][MNNext]_mnAll

\* The agents that advertise on a link.
AgentsOn(link) == {p.src : p \in {q \in MNAdverts : q.link = link}}

\* The lifetime timer fires once the agent is out of reach, since nothing
\* schedules it anew.  Connected to 0.0.0.0 a damaged advertisement does, so
\* MoveNoticed is about behaviours in which these end.
MNFairSpec ==
  MNSpec /\ SF_mnAll(MNQuiet /\ solAgent \notin AgentsOn(mnLink) /\ SolRunTimer)

----------------------------------------------------------------------------
\* Every variable stays in its set, lifetimes and sequence numbers within the
\* width of an unsigned int.
MNTypeOK ==
  /\ \A p \in net : \/ p \in RequestPacket
                    \/ p \in ReplyPacket
                    \/ p \in AdvertPacket
                    \/ p \in SolicitationPacket
  /\ mnRequests \in Seq(MNRequestItem)
  /\ connection \in agentConnection
  /\ homeAgentPublic \in Addr /\ solAgent \in Addr /\ agentMAC \in Addr
  /\ mnTimeout \in MNTimeouts
  /\ mnLink \in Link
  /\ solSequence \in UInt /\ solInterval \in UInt
  /\ {mnAllocated, mnRunning, solConnected, firstConnection, fastMoving, lifetimeTimer}
       \subseteq BOOLEAN

\* The two elements agree on the agent: while MobileIPSoliciter is connected to
\* a foreign agent, the registration MobileIPNode ages, renews and retries is
\* the one with that agent, whatever replies and timers came in between.
ElementsAgree ==
  solConnected /\ solAgent # MNHAPrivate => connection.agentAddress = solAgent

\* disconnect is only ever left to the lifetime timer: connected to an agent,
\* the node has a timer scheduled that will end the connection if the agent
\* falls silent.
SilenceIsNoticed == solConnected => lifetimeTimer

\* run_timer renews in time: a counted-down registration away from home that
\* is in the second half of its lifetime has a request for the same agent and
\* care-of address pending after each second, also when the previous one was
\* dropped or sent again in that second.
RenewalPending ==
  [][/\ MNRunTimer /\ ~connection.isHome
     /\ connection'.remainingLifetime < connection.remainingLifetime
     /\ 2 * connection'.remainingLifetime <= connection.lifetime
     => hasRequest(mnRequests', connection.agentAddress, connection.careOfAddress)]_mnAll

\* A pending request for the registration with the current agent.
isForConnection(r) ==
  r.destination = connection.agentAddress /\ r.careOfAddress = connection.careOfAddress

forConnection(v) == Len(SelectSeq(v, isForConnection))

\* run_timer renews once: a second adds a request for the agent and care-of
\* address of the connection only when none is left pending; sending a late
\* request again and renewing do not both happen for one registration.
RenewalOnce ==
  [][MNRunTimer => \/ forConnection(mnRequests') <= forConnection(mnRequests)
                   \/ forConnection(mnRequests') = 1]_mnAll

\* A move is noticed: the lifetime timer ends the connection to an agent that
\* is out of reach, so that a running node left on a link whose advertisements
\* get through is, again and again, connected to an agent of that link, also
\* without fast moving, and also when damaged advertisements, as long as they
\* came, made it connect to 0.0.0.0.
MoveNoticed ==
  \A link \in {"home", "foreign"} :
    /\ <>[](mnLink = link /\ mnRunning)
    /\ <>[](\A p \in net : p.type = "ADVERTISEMENT" => p.sum = "ok")
    /\ []<><<\E p \in net : simple_action(p)>>_mnAll
    => []<>(solConnected /\ solAgent \in AgentsOn(link))

\* A claim of a comment that the code breaks.

\* MobileIPSoliciter.hh: only the first connection goes without a registration.
\* Connected to the home agent, the node no longer keeps up a registration
\* with a foreign one.
HomeEndsForeign ==
  solConnected /\ solAgent = MNHAPrivate
  => connection.agentAddress \in {AnyAddr, MNHAPrivate}
=============================================================================
