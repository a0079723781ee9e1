------------------------------ MODULE MobileIP ------------------------------
(***************************************************************************)
(* The whole system: the home agent, the foreign agent and the mobile node *)
(* with their three links, packets lost and overtaken, processes started   *)
(* again and the node carried between its home link and the foreign one.   *)
(*                                                                         *)
(* The network is prompt: no timer fires while packets are in flight.  The *)
(* one-second timers of the processes keep strict intervals, so they fire  *)
(* in turns; where a process that is started again comes in depends on     *)
(* when that happens.  Advertisements are those of agents long started,    *)
(* but for the first one after a start (their numbers and times are the    *)
(* subject of Discovery): the node hears those of its link, and its        *)
(* lifetime timer fires only when its agent is on another one.  Those that *)
(* only prolong the connection change nothing here and are left out.  The  *)
(* readings of the clock that identify pending requests are distinct.      *)
(***************************************************************************)
EXTENDS HomeAgent, ForeignAgent, MobileIPSoliciter, DataPath, Functions

CONSTANTS
  MRegistration,  \* registrationLifetime of the advertisements: 60
  MCarries, MLosses, MStarts  \* bounds: how often the node is carried, a
                              \* packet lost, a process started again

ASSUME MAssumption ==
  /\ MNHAPrivate = HAPrivate /\ MNHAPublic = HAPublic
  /\ MRegistration \in 1..(Infinity - 1) /\ 2 * Infinity <= UIntMod
  /\ {MCarries, MLosses, MStarts} \subseteq Nat

\* The interfaces have addresses of their own, and no reading of the clock is 0:
\* a request would leave with another one than the node keeps.
ASSUME MAddressAssumption ==
  /\ BroadcastAddr \notin {HAPrivate, HAPublic, FAPrivate, AnyAddr}
  /\ FAPrivate \notin {HAPrivate, HAPublic}
  /\ 0 \notin Id

VARIABLES
  turns,      \* the processes in the order their timers fire next
  faFresh,    \* the foreign agent's next advertisement is its first
  faults,     \* how many of the bounded events are left
  grants,     \* history: the identifications of the registrations the home
              \* agent granted since the last deregistration or start of an agent
  registered  \* history: the node took the answer to one of them abroad, and
              \* none of these, no move and no new registration came after it

mpVars == <<turns, faFresh, faults, grants, registered>>
haState == <<mobilityBindings, haMaxLifetime>>
faState == <<faLists, faLimits>>
mpAll == <<net, haState, faState, mnRest, solVars, mpVars>>

mProcesses == {"ha", "fa", "mn"}

MPStart ==
  /\ HAInit /\ FAInit /\ MNInit /\ SolInit
  /\ net = {} /\ mnLink = "home"
  /\ turns \in Bijection(1..3, mProcesses)
  /\ faFresh = FALSE /\ grants = {} /\ registered = FALSE
  /\ faults = [carry |-> MCarries, loss |-> MLosses, start |-> MStarts]

----------------------------------------------------------------------------
\* Which packets the processes get: ha.click takes those for its own
\* interfaces, fa.click any request on the foreign link.
haPorts == [REGISTRATION |-> 1, SOLICITATION |-> 2]
faPorts == [REGISTRATION |-> 1, REPLY |-> 2, IPINIP |-> 3, SOLICITATION |-> 4]
mnPorts == [REPLY |-> 1, ADVERTISEMENT |-> 2]

ASSUME PortsAssumption ==
  validMapping(haPorts) /\ validMapping(faPorts) /\ validMapping(mnPorts)

mHAGets(p) ==
  /\ classify(haPorts, p.type) = 1
  /\ \/ p.link = "home" /\ p.dst \in {HAPrivate, BroadcastAddr}
     \/ p.link = "public" /\ p.dst \in {HAPublic, BroadcastAddr}

mFAGets(p) ==
  \/ classify(faPorts, p.type) = 1 /\ p.link = "foreign"
  \/ classify(faPorts, p.type) = 2 /\ p.link = "public" /\ p.dst = FAPublic

mMNGets(p) == classify(mnPorts, p.type) = 1 /\ mnGetsReply(p)

\* The clock is read: the identifications of new requests are the first ones
\* that no pending request and no packet in flight has.
mReadings ==
  LET used == {faRequests[i].identification : i \in DOMAIN faRequests}
                \cup {p.identification : p \in net}
      asked == {mnRequests'[i].identification : i \in DOMAIN mnRequests'}
      new == {p.identification : p \in {q \in net' \ net : q.type = "REGISTRATION"}}
  IN  /\ new \cap used = {}
      /\ \A n \in new, i \in Id : i < n => i \in used \cup asked
      /\ \A i, j \in DOMAIN mnRequests' :
           mnRequests'[i].identification = mnRequests'[j].identification => i = j

----------------------------------------------------------------------------
MPHomeAgent(p) ==
  /\ mHAGets(p) /\ HAPush(p)
  /\ grants' = IF HADeregister(p) THEN {}
               ELSE IF HARegister(p) THEN grants \cup {p.identification} ELSE grants
  /\ registered' = (registered /\ ~HADeregister(p))
  /\ UNCHANGED <<faState, mnRest, solVars, turns, faFresh, faults>>

MPForeignAgent(p) ==
  /\ mFAGets(p) /\ FAPush(p)
  /\ UNCHANGED <<haState, mnRest, solVars, mpVars>>

MPNode(p) ==
  /\ mMNGets(p) /\ MNPush(p) /\ mReadings
  /\ registered' = IF MNAccept(p) /\ p.src = FAPrivate
                   THEN p.identification \in grants ELSE registered
  /\ grants' = grants \ {p.identification}
  /\ UNCHANGED <<haState, faState, solVars, turns, faFresh, faults>>

mHomeAdvert ==
  buildRouterAdvertisement("home", HAPrivate, BroadcastAddr, 1, MRegistration,
                           HAPublic, SolReset)
mForeignAdvert ==
  buildRouterAdvertisement("foreign", FAPrivate, BroadcastAddr, 1, MRegistration,
                           FAPublic, IF faFresh THEN 0 ELSE SolReset)

MPHear ==
  /\ \E p \in {mHomeAdvert, mForeignAdvert} :
       /\ SolFirstHome(p) \/ SolMove(p) \/ SolAgentReset(p)
       /\ faFresh' = (faFresh /\ p.link # "foreign")
  /\ mReadings
  /\ registered' = FALSE /\ UNCHANGED grants
  /\ UNCHANGED <<haState, faState, turns, faults>>

MPExpire ==
  /\ solAgent # (IF mnLink = "home" THEN HAPrivate ELSE FAPrivate)
  /\ SolRunTimer
  /\ UNCHANGED <<haState, faState, mpVars>>

\* The others keep their intervals; the process is the last to fire next.
mLast(process) ==
  Append(Retain(turns, {i \in DOMAIN turns : turns[i] # process}), process)

\* The timer of one process fires.
mTick(process) ==
  /\ net = {} /\ process = Head(turns)
  /\ turns' = mLast(process)
  /\ UNCHANGED <<faFresh, faults, grants, registered>>

MPTickHA == mTick("ha") /\ HARunTimer /\ UNCHANGED <<faState, mnRest, solVars>>
MPTickFA == mTick("fa") /\ FARunTimer /\ UNCHANGED <<haState, mnRest, solVars>>
MPTickMN == mTick("mn") /\ MNRunTimer /\ mReadings /\ UNCHANGED <<haState, faState, solVars>>

\* A packet nobody takes.  A request of the node for an address that is not on
\* its link gets out only while that address is in its ARP table.
MPVanish(p) ==
  /\ \/ ~mHAGets(p) /\ ~mFAGets(p) /\ ~mMNGets(p)
     \/ p.type = "REGISTRATION" /\ p.link = "foreign" /\ p.dst # FAPrivate
  /\ net' = net \ {p}
  /\ UNCHANGED <<haState, faState, mnRest, solVars, mpVars>>

\* What may happen a bounded number of times.  A process that starts fires its
\* timer at once, when there is nothing to count down, and then every second.
mSpend(kind) == faults[kind] > 0 /\ faults' = [faults EXCEPT ![kind] = @ - 1]

MPLose(p) ==
  /\ mSpend("loss")
  /\ net' = net \ {p}
  /\ UNCHANGED <<haState, faState, mnRest, solVars, turns, faFresh, grants, registered>>

MPCarry ==
  /\ mSpend("carry")
  /\ mnLink' = IF mnLink = "home" THEN "foreign" ELSE "home"
  /\ registered' = FALSE
  /\ UNCHANGED <<net, haState, faState, mnRequests, mnAllocated, connection,
                 homeAgentPublic, mnTimeout, mnRunning, solVars, turns, faFresh, grants>>

MPStartHA ==
  /\ mSpend("start") /\ HARestart /\ grants' = {} /\ registered' = FALSE
  /\ turns' = mLast("ha")
  /\ UNCHANGED <<faState, mnRest, solVars, faFresh>>

MPStartFA ==
  /\ mSpend("start") /\ FARestart /\ grants' = {} /\ registered' = FALSE /\ faFresh' = TRUE
  /\ turns' = mLast("fa")
  /\ UNCHANGED <<haState, mnRest, solVars>>

\* A process that died is started again, at no cost.
MPStartMN ==
  /\ IF mnRunning THEN mSpend("start") ELSE UNCHANGED faults
  /\ MNRestart /\ registered' = FALSE
  /\ turns' = mLast("mn")
  /\ UNCHANGED <<haState, faState, faFresh, grants>>

\* The foreign agent's first advertisements are over before the node is there.
MPFreshPasses ==
  /\ faFresh /\ mnLink # "foreign"
  /\ faFresh' = FALSE
  /\ UNCHANGED <<net, haState, faState, mnRest, solVars, turns, faults, grants, registered>>

MPNetwork ==
  \E p \in net : MPHomeAgent(p) \/ MPForeignAgent(p) \/ MPNode(p) \/ MPVanish(p)

MPTick == MPTickHA \/ MPTickFA \/ MPTickMN

MPNext ==
  \/ MPNetwork \/ MPHear \/ MPExpire \/ MPTick
  \/ (\E p \in net : MPLose(p))
  \/ MPCarry \/ MPStartHA \/ MPStartFA \/ MPStartMN \/ MPFreshPasses

MPSpec == MPStart /\ [][MPNext]_mpAll

\* Packets arrive, the timers fire in their turns, the agents advertise and the
\* lifetime of an agent out of reach runs out; a dead process is started again.
MPFairSpec ==
  /\ MPSpec
  /\ WF_mpAll(MPNetwork) /\ WF_mpAll(MPHear) /\ WF_mpAll(MPExpire)
  /\ WF_mpAll(~mnRunning /\ MPStartMN)
  /\ WF_mpAll(MPTick)

----------------------------------------------------------------------------
\* Where a data packet of a correspondent ends: the path through the home
\* agent's encapsulator and the foreign agent's decapsulator.
mData(ttl) == [type |-> "IP", src |-> AnyAddr, dst |-> MNHome, ttl |-> ttl]

mDelivered(ttl) ==
  UNION {IF t.type = "IP"
         THEN IF mnLink = "home" THEN {t} ELSE {}
         ELSE IF t.dst = FAPublic /\ mnLink = "foreign" THEN decapsulate(visitors, t) ELSE {}
         : t \in encapsulate(mobilityBindings, HAPublic, mData(ttl))}

\* Packets with time to live enough for the tunnel arrive.
mReachable == \A ttl \in 4..(TTLMod - 1) : mDelivered(ttl) # {}

\* The interface the node sends its own packets to.
mGateway == transform(solIsHome, agentMAC, HAPrivate)

\* A registration holds: from the answer on, until the node is moved or
\* deregistered or an agent loses its lists, correspondents reach the node
\* through the tunnel at every moment.  The countdowns of the home agent and of
\* the foreign agent, whose timers fire at other times than the node's, do not
\* end between the node's renewals, also when a packet of a renewal is lost and
\* packets of earlier registrations and deregistrations come late.
RegistrationHolds == registered => mReachable

\* A binding of the node at the foreign agent, and a visit there, with at least
\* that many seconds left.
mBindingLasts(seconds) ==
  \E i \in BindingsOf(mobilityBindings, MNHome, FAPublic) :
    mobilityBindings[i].remainingLifetime >= seconds
mVisitLasts(seconds) ==
  \E i \in VisitsOf(visitors, MNHome, HAPublic) :
    visitors[i].remainingLifetime >= seconds

\* The three countdowns of one registration keep in step: while the node counts
\* on more than a second, the home agent and the foreign agent both still have
\* it, each with at most one second less than the node believes, although the
\* timers fire in any order, a limit of either agent cut the request down, and
\* packets of other registrations are lost, overtaken and sent again.
CountIsBacked ==
  registered /\ connection.remainingLifetime > 1 =>
  /\ mBindingLasts(connection.remainingLifetime - 1)
  /\ mVisitLasts(connection.remainingLifetime - 1)

mLossless == [](faults.loss = MLosses)
mAbroad == mnLink = "foreign" /\ mnRunning
mAtHome == mnLink = "home" /\ mnRunning

\* A node that stays abroad is eventually reachable there for good and sends
\* through its foreign agent, whichever of the three processes were started
\* again and wherever it came from, if no packet is lost.
SettlesAbroad ==
  <>[]mAbroad /\ mLossless => <>[](mReachable /\ mGateway = FAPrivate)

\* A node that is back for good is eventually reachable at home for good and
\* sends through its home agent.
SettlesAtHome ==
  <>[]mAtHome /\ mLossless => <>[](mReachable /\ mGateway = HAPrivate)

\* The claims of comments and of the list of scenarios that the code breaks.

\* MobileIPNode.hh: a request that timed out is sent anew.  A node that stays
\* abroad gets reachable for good or has a request pending again and again.
TimeoutsRetried ==
  <>[]mAbroad => <>[]mReachable \/ []<>(mnRequests # <<>>)

\* Scenarios: a reply the mobile node knows no request of is ignored, so a
\* running node goes on whatever well-formed replies arrive.
UnknownRepliesIgnored == [][mnRunning => mnRunning']_mpAll
=============================================================================
