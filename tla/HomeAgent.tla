----------------------------- MODULE HomeAgent -----------------------------
(***************************************************************************)
(* The element MobileIPHomeAgent: it answers registration requests that    *)
(* arrive on its private (home) or public network and keeps the mobility   *)
(* bindings, which a one-second timer ages.                                *)
(*                                                                         *)
(* In this module the rest of the world is HAEnv, which puts any packet of *)
(* HARequests on a link and takes the answers off.                         *)
(***************************************************************************)
EXTENDS Network, MobilityBindingList

CONSTANTS
  HAPublic, HAPrivate,  \* the agent's addresses on the two networks
  HADefaultLifetime,    \* maxAcceptedLifetime as compiled in: 1800
  HALifetimes,          \* what the handler max_lifetime may set it to
  HARequests            \* the requests of the environment

ASSUME HAAssumption ==
  /\ HAPublic \in Addr /\ HAPrivate \in Addr
  /\ HALifetimes \subseteq UInt
  /\ HADefaultLifetime \in HALifetimes
  /\ HARequests \subseteq RequestPacket

VARIABLES mobilityBindings, haMaxLifetime

haVars == <<net, mobilityBindings, haMaxLifetime>>

HAInit ==
  /\ mobilityBindings = <<>>
  /\ haMaxLifetime = HADefaultLifetime

----------------------------------------------------------------------------
\* sendReply(registration, code, port, lifetime): the source is the address
\* the request was sent to, and an answer of lifetime 0 always leaves on the
\* home link.
haReply(rr, code, lifetime) ==
  LET source == IF rr.dst = BroadcastAddr /\ rr.link = "home"
                THEN HAPrivate ELSE rr.dst
      link == IF lifetime = 0 THEN "home" ELSE rr.link
  IN  buildRegistrationReply(
        UDPIP(link, source, RegistrationPort, rr.src, rr.sport),
        lifetime, code, rr.home, rr.homeAgent, rr.identification)

\* The answer of checkForUnkwownHomeAgent; it stays on the link of the request.
\* On the public link the source meant for a broadcast is never assigned.
haUnknownReply(rr) ==
  LET source == IF rr.src # BroadcastAddr THEN rr.dst
                ELSE IF rr.link = "home" THEN HAPrivate ELSE AnyAddr
  IN  buildRegistrationReply(
        UDPIP(rr.link, source, RegistrationPort, rr.src, rr.sport),
        haMaxLifetime, 136, rr.home, HAPublic, rr.identification)

\* checkRegistrationValidity: the code of the refusal, 0 when there is none.
haRefusal(rr) ==
  IF rr.options \cap {"r", "x"} # {} THEN 134
  ELSE IF rr.options \cap {"D", "M", "G", "T"} # {} THEN 128
  ELSE 0

\* checkForUnkwownHomeAgent
haIsMine(rr) == rr.homeAgent = HAPublic /\ rr.dst \in {HAPrivate, HAPublic}

haGranted(rr) == Minimum(rr.lifetime, haMaxLifetime)

haConsume(rr, out) == net' = (net \ {rr}) \cup out

\* What reaches push: a request on one of the agent's two links.
haReceives(rr) == rr.type = "REGISTRATION" /\ rr.link \in {"home", "public"}

\* A packet with a bad checksum or for another UDP port changes nothing.
haIgnores(rr) == rr.sum # "ok" \/ rr.dport # RegistrationPort

HAIgnore(rr) ==
  /\ haReceives(rr) /\ haIgnores(rr)
  /\ haConsume(rr, {})
  /\ UNCHANGED <<mobilityBindings, haMaxLifetime>>

HARefuse(rr) ==
  /\ haReceives(rr) /\ ~haIgnores(rr)
  /\ haRefusal(rr) # 0
  /\ haConsume(rr, {haReply(rr, haRefusal(rr), rr.lifetime)})
  /\ UNCHANGED <<mobilityBindings, haMaxLifetime>>

HAUnknown(rr) ==
  /\ haReceives(rr) /\ ~haIgnores(rr)
  /\ haRefusal(rr) = 0 /\ ~haIsMine(rr)
  /\ haConsume(rr, {haUnknownReply(rr)})
  /\ UNCHANGED <<mobilityBindings, haMaxLifetime>>

haAccepts(rr) == haReceives(rr) /\ ~haIgnores(rr) /\ haRefusal(rr) = 0 /\ haIsMine(rr)

HADeregister(rr) ==
  /\ haAccepts(rr) /\ rr.lifetime = 0
  /\ mobilityBindings' = IF rr.careOf = rr.home
                         THEN removeHome(mobilityBindings, rr.home)
                         ELSE removeBinding(mobilityBindings, rr.home, rr.careOf)
  /\ haConsume(rr, {haReply(rr, 0, 0)})
  /\ UNCHANGED haMaxLifetime

\* Mutated form: the answer carries the lifetime that was asked for.
HARegister_asked(rr) ==
  /\ haAccepts(rr) /\ rr.lifetime # 0
  /\ mobilityBindings' = addBinding(mobilityBindings, rr.home, rr.careOf, haGranted(rr))
  /\ haConsume(rr, {haReply(rr, 0, rr.lifetime)})
  /\ UNCHANGED haMaxLifetime

HARegister(rr) ==
  /\ haAccepts(rr) /\ rr.lifetime # 0
  /\ mobilityBindings' = addBinding(mobilityBindings, rr.home, rr.careOf, haGranted(rr))
  /\ haConsume(rr, {haReply(rr, 0, haGranted(rr))})
  /\ UNCHANGED haMaxLifetime

HAPush(rr) ==
  HAIgnore(rr) \/ HARefuse(rr) \/ HAUnknown(rr) \/ HADeregister(rr) \/ HARegister(rr)

HARunTimer ==
  /\ mobilityBindings' = decreaseBindings(mobilityBindings)
  /\ UNCHANGED <<net, haMaxLifetime>>

HASetMaxLifetime(l) ==
  /\ haMaxLifetime' = l
  /\ UNCHANGED <<net, mobilityBindings>>

\* The process is started again: its bindings are gone.
HARestart ==
  /\ mobilityBindings' = <<>>
  /\ haMaxLifetime' = HADefaultLifetime
  /\ UNCHANGED net

HAStep ==
  \/ \E rr \in net : HAPush(rr)
  \/ HARunTimer
  \/ \E l \in HALifetimes : HASetMaxLifetime(l)
  \/ HARestart

----------------------------------------------------------------------------
\* The environment has one packet in flight at a time; since it may send any
\* request at any moment, this is every arrival order.
HASend(rr) ==
  /\ net = {} /\ net' = {rr}
  /\ UNCHANGED <<mobilityBindings, haMaxLifetime>>

HATake ==
  /\ \E p \in net : p.type = "REPLY" /\ net' = net \ {p}
  /\ UNCHANGED <<mobilityBindings, haMaxLifetime>>

HAEnv == (\E rr \in HARequests : HASend(rr)) \/ HATake

HANext == HAStep \/ HAEnv

HAStart == HAInit /\ net = {}

HASpec == HAStart /\ [][HANext]_haVars

\* run_timer reschedules itself every second, for ever.
HAFairSpec == HASpec /\ WF_haVars(HARunTimer)

----------------------------------------------------------------------------
\* Every variable stays in its set: the vector holds bindings, the limit is
\* one the handler may set, and only well-formed packets are in flight.
HATypeOK ==
  /\ net \subseteq (RequestPacket \cup ReplyPacket)
  /\ mobilityBindings \in Seq(MobilityBindingListItem)
  /\ haMaxLifetime \in HALifetimes

\* MobilityBindingList::add updates in place: no two entries are of the same
\* home address and care-of address, whatever the order of registrations,
\* deregistrations and expiries.
UniqueBindings == NoDuplicatePairs(mobilityBindings)

\* decreaseLifetime counts in unsigned arithmetic: as long as max_lifetime is
\* never set to 0, no binding is kept with lifetime 0, which the next second
\* would turn into 2^32 - 1.
BindingsAlive == AllAlive(mobilityBindings)

\* getCareOfAddress follows the oldest binding: while the binding a home
\* address is tunnelled to stays, no registration, refresh, expiry or
\* deregistration of another pair diverts the tunnel.
TunnelStable ==
  [][\A h \in Addr :
       LET c == getCareOfAddress(mobilityBindings, h)
       IN  isMobileBinded(mobilityBindings, h)
             /\ BindingsOf(mobilityBindings', h, c) # {}
           => getCareOfAddress(mobilityBindings', h) = c]_haVars

\* The node and the agent count the same lifetime: when push sends an answer of
\* code 0 and lifetime L > 0, a binding of the answered home address has exactly
\* L to live, also when the limit cut the request down.
GrantIsRecorded ==
  [][\A p \in net' \ net :
       p.type = "REPLY" /\ p.code = 0 /\ p.lifetime # 0
       => \E i \in HomeBindings(mobilityBindings', p.home) :
            mobilityBindings'[i].remainingLifetime = p.lifetime]_haVars

\* Once no more requests arrive, the timer runs every finite binding out; only
\* the ones granted without limit remain.
FiniteBindingsExpire ==
  <>[](net = {}) =>
  <>[](\A i \in DOMAIN mobilityBindings :
         mobilityBindings[i].remainingLifetime = Infinity)

\* The vector seen as a set: the leases it stands for.
haLeases == {mobilityBindings[i] : i \in DOMAIN mobilityBindings}

Leases == INSTANCE BindingLeases
            WITH Holder <- Addr, Forever <- Infinity, leases <- haLeases

\* The agent implements BindingLeases: whatever push, run_timer, the handler and
\* a restart do to the vector, in place, at its back or while scanning it, is a
\* step of a table with one lease for a pair, in which nothing else changes.
\* It holds unless max_lifetime is set to 0.
ImplementsLeases == Leases!LeasesSpec

\* MobileIPHomeAgent.hh calls maxAcceptedLifetime the maximal lifetime the agent
\* accepts: no binding has longer to live than the largest limit that can be
\* set.  The code breaks it when the limit is set to 0.
BindingsWithinLimit ==
  \A i \in DOMAIN mobilityBindings :
    \E l \in HALifetimes : mobilityBindings[i].remainingLifetime <= l
============================================================================
