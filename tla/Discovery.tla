----------------------------- MODULE Discovery -----------------------------
(***************************************************************************)
(* Agent discovery: agents' advertisers and the mobile node's process, in  *)
(* real time.  Time passes in the units of Advertiser, and silentIn is the *)
(* time until the node's lifetime timer fires.  The network is prompt:     *)
(* time passes only when no packet is in flight.  Advertisements are lost  *)
(* at any time, agents started again, their lifetimes changed, and the     *)
(* node is carried away and back.  Registrations are not the subject: each *)
(* is for a time without limit and answered before anything else happens,  *)
(* so that the node's one-second timer has nothing to do.  Fast moving is  *)
(* off, as it is by default.                                               *)
(*                                                                         *)
(* missed, skipped, delayed and agentReset are history: they only record   *)
(* what the properties speak of.                                           *)
(***************************************************************************)
EXTENDS MobileIPSoliciter, Advertiser

CONSTANT
  DOthers   \* other nodes, which may solicit as well

ASSUME DAssumption ==
  /\ SolReset = AdvReset
  /\ DOthers \subseteq Addr \ {MNHome, BroadcastAddr}
  /\ AdvRegistrations = {Infinity}
  \* the advertisements of agents that are not timed: long started ones
  /\ \A p \in MNAdverts :
       p.sum = "ok" /\ p.src \notin Advertisers /\ p.sequenceNumber >= SolReset

VARIABLES
  silentIn,
  missed,     \* advertisements of the node's agent that did not schedule its
              \* lifetime timer anew, since the last one that did; 2 is "or more"
  skipped,    \* one with a number got lost since the node last compared numbers
  delayed,    \* how often the agent's next advertisement was put off since
              \* then: a start counts once, a changed lifetime twice
  agentReset  \* "none", or what became of a start of the node's agent since the
              \* node registered with it: "fresh" as long as the node got every
              \* advertisement, "missed" when it did not

dHistory == <<missed, skipped, delayed, agentReset>>
dVars == <<mnVars, solVars, advVars, silentIn, dHistory>>

dNoHistory == /\ missed' = 0 /\ skipped' = FALSE
              /\ delayed' = 0 /\ agentReset' = "none"

DStart ==
  /\ MNInit /\ SolInit /\ AdvInit
  /\ net = {} /\ mnLink = "home" /\ silentIn = 0
  /\ missed = 0 /\ skipped = FALSE /\ delayed = 0 /\ agentReset = "none"

----------------------------------------------------------------------------
\* No registration is under way.
dSettled == \A p \in net : p.type \in {"ADVERTISEMENT", "SOLICITATION"}

\* raiseLifetime: schedule_after_sec(adv.lifetime)
dRaise(p) == silentIn' = p.lifetime * AdvSecond

DHear(p) ==
  /\ dSettled
  /\ UNCHANGED advVars
  /\ \/ /\ SolRefresh(p) /\ dRaise(p)
        /\ missed' = 0 /\ skipped' = FALSE /\ delayed' = 0
        /\ UNCHANGED agentReset
     \/ /\ SolFirstHome(p) \/ SolMove(p)
        /\ dRaise(p) /\ dNoHistory
     \/ /\ SolAgentReset(p)
        /\ missed' = Minimum(2, missed + 1) /\ skipped' = FALSE /\ agentReset' = "none"
        /\ UNCHANGED <<silentIn, delayed>>
     \/ /\ SolSinkhole(p)
        /\ UNCHANGED <<silentIn, dHistory>>

\* An advertisement gets lost, reaches a link the node is not on, or is for
\* another node.
DGone(p) ==
  /\ p.type = "ADVERTISEMENT"
  /\ net' = net \ {p}
  /\ missed' = IF p.src = solAgent /\ p.dst \in {MNHome, BroadcastAddr}
               THEN Minimum(2, missed + 1) ELSE missed
  /\ skipped' = (skipped \/ p.src = solAgent)
  /\ agentReset' = IF p.src = solAgent /\ agentReset = "fresh"
                   THEN "missed" ELSE agentReset
  /\ UNCHANGED <<mnRest, solVars, advVars, silentIn, delayed>>

\* The lifetime timer fires.
DExpire ==
  /\ dSettled /\ silentIn = 0
  /\ SolRunTimer
  /\ dNoHistory
  /\ UNCHANGED <<advVars, silentIn>>

\* The environment grants every registration; the agents that may refuse one
\* are in MobileIP.  The node takes the answer.
DAnswer(p) ==
  /\ p.type = "REGISTRATION"
  /\ net' = (net \ {p}) \cup
       {buildRegistrationReply(
          UDPIP(p.link, p.dst, RegistrationPort, MNHome, p.sport),
          p.lifetime, 0, p.home, p.homeAgent, p.identification)}
  /\ UNCHANGED <<mnRest, solVars, advVars, silentIn, dHistory>>

DAccept(p) == MNPush(p) /\ UNCHANGED <<solVars, advVars, silentIn, dHistory>>

\* The agents' own steps.  A link keeps the order of its packets: each is taken
\* off before the next one is sent.
DAdvertise(a) ==
  /\ net = {} /\ AdvRunTimer(a)
  /\ UNCHANGED <<mnRest, solVars, silentIn, dHistory>>

DSolicited(a, p) ==
  /\ net = {p} /\ AdvSolicited(a, p)
  /\ UNCHANGED <<mnRest, solVars, silentIn, dHistory>>

DSetLifetime(a, s) ==
  /\ net = {} /\ AdvSetLifetime(a, s)
  /\ delayed' = IF a = solAgent THEN 2 ELSE delayed
  /\ UNCHANGED <<mnRest, solVars, silentIn, missed, skipped, agentReset>>

DSetRegistration(a, l) ==
  /\ net = {} /\ AdvSetRegistration(a, l)
  /\ UNCHANGED <<mnRest, solVars, silentIn, dHistory>>

\* Bound: the node has got less than 2^32 - 1 advertisements in a row, and its
\* count is not about to wrap round.
DRestart(a) ==
  /\ net = {} /\ solSequence # UIntMod - 1
  /\ AdvRestart(a)
  /\ delayed' = IF a = solAgent
                THEN IF advLifetime[a] < AdvDefaultLifetime THEN 2 ELSE Minimum(2, delayed + 1)
                ELSE delayed
  /\ agentReset' = IF a = solAgent THEN "fresh" ELSE agentReset
  /\ UNCHANGED <<mnRest, solVars, silentIn, missed, skipped>>

\* Agents that are not timed advertise whenever they like.
DPut(p) ==
  /\ net = {} /\ net' = {p}
  /\ UNCHANGED <<mnRest, solVars, advVars, silentIn, dHistory>>

\* The node's other steps, and those of other nodes.
DUser ==
  /\ net = {}
  /\ \/ \E s \in SolIntervals : SolSetInterval(s)
     \/ SolSolicit
     \/ \E link \in {"home", "foreign"} : MNCarry(link)
  /\ UNCHANGED <<advVars, silentIn, dHistory>>

DNodeRestart ==
  /\ net = {} /\ MNRestart
  /\ silentIn' = 0 /\ dNoHistory
  /\ UNCHANGED advVars

DOther(link, o) ==
  /\ net = {}
  /\ net' = {buildRouterSolicitation(link, o, BroadcastAddr)}
  /\ UNCHANGED <<mnRest, solVars, advVars, silentIn, dHistory>>

\* A solicitation on a link without an agent, or one that is lost.
DUnsolicited(p) ==
  /\ p.type = "SOLICITATION"
  /\ net' = net \ {p}
  /\ UNCHANGED <<mnRest, solVars, advVars, silentIn, dHistory>>

DTick ==
  /\ net = {} /\ AdvElapse
  /\ lifetimeTimer => silentIn > 0
  /\ silentIn' = IF lifetimeTimer THEN silentIn - 1 ELSE silentIn
  /\ UNCHANGED <<mnRest, solVars, dHistory>>

DNext ==
  \/ \E p \in net :
       \/ DHear(p) \/ DGone(p) \/ DAnswer(p) \/ DAccept(p) \/ DUnsolicited(p)
       \/ \E a \in Advertisers : DSolicited(a, p)
  \/ \E a \in Advertisers :
       \/ DAdvertise(a) \/ DRestart(a)
       \/ \E s \in AdvLifetimes : DSetLifetime(a, s)
       \/ \E l \in AdvRegistrations : DSetRegistration(a, l)
  \/ \E p \in MNAdverts : DPut(p)
  \/ \E link \in {"home", "foreign"}, o \in DOthers : DOther(link, o)
  \/ DExpire \/ DUser \/ DNodeRestart \/ DTick

DSpec == DStart /\ [][DNext]_dVars

----------------------------------------------------------------------------
\* The variables of the model stay in their sets; the time left never exceeds
\* the largest lifetime on the wire.
DTypeOK ==
  /\ MNTypeOK
  /\ \A a \in Advertisers :
       /\ advSequence[a] \in 0..SequenceMax /\ advLifetime[a] \in UInt
       /\ advTimer[a] \in Nat
  /\ silentIn \in 0..(Infinity * AdvSecond)

\* A start of the foreign agent is noticed: when none of its advertisements
\* got lost, the first one after the start is never taken for the next of the
\* old ones, whatever number the node had counted to.
ResetNoticed ==
  [][\A p \in net :
       agentReset = "fresh" /\ DHear(p) /\ p.src # MNHAPrivate => ~SolRefresh(p)]_dVars

\* And only a start is noticed: without a lost advertisement the node never
\* registers again because of a number, in particular not when the numbers
\* roll over at the largest one.
NoFalseReset ==
  [][\A p \in net : DHear(p) /\ SolAgentReset(p) => skipped \/ agentReset # "none"]_dVars

\* The timer of run_timer leaves room: the node gives an agent up only when at
\* least two of its advertisements failed to prolong the connection, also
\* across a start of the agent, unless its next advertisement was put off by a
\* second start or a change of its lifetime.
SilenceIsReal == [][DExpire /\ solAgent \in Advertisers => missed = 2 \/ delayed = 2]_dVars

\* Scenarios: when an agent resets itself, the node registers again.  After
\* a start that the node is still connected across, no advertisement is taken
\* for the next one of before.
ResetAlwaysNoticed ==
  [][\A p \in net :
       agentReset # "none" /\ DHear(p) /\ p.src # MNHAPrivate => ~SolRefresh(p)]_dVars
============================================================================
