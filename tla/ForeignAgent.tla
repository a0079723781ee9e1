---------------------------- MODULE ForeignAgent ----------------------------
(***************************************************************************)
(* The element MobileIPForeignAgent: it relays the registration requests   *)
(* of its private (foreign) link to the home agent and the answers back,   *)
(* and keeps the pending requests and the visitors, which a one-second     *)
(* timer ages.                                                             *)
(*                                                                         *)
(* In this module the rest of the world is FAEnv, which puts requests of   *)
(* FARequests on the foreign link and replies of FAReplies on the public   *)
(* one, in any order, late or unasked, and takes off what the agent sends. *)
(***************************************************************************)
EXTENDS Network, RequestList, VisitorList

CONSTANTS
  FAPublic, FAPrivate,  \* the agent's addresses; the public one is the care-of address
  FADefaultLifetime, FADefaultTimeout, FADefaultPending,  \* as compiled in: 1800, 7, 5
  FALifetimes, FATimeouts, FAPendings,  \* what the handlers may set them to
  FARequests, FAReplies                 \* the packets of the environment

ASSUME FAAssumption ==
  /\ FAPublic \in Addr /\ FAPrivate \in Addr
  /\ FALifetimes \subseteq UInt /\ FADefaultLifetime \in FALifetimes
  /\ FATimeouts \subseteq Nat /\ FADefaultTimeout \in FATimeouts
  /\ FAPendings \subseteq Nat /\ FADefaultPending \in FAPendings
  /\ FARequests \subseteq RequestPacket
  /\ FAReplies \subseteq ReplyPacket
  /\ \A p \in FARequests : p.link = "foreign"
  /\ \A p \in FAReplies : p.link = "public"

VARIABLES faRequests, visitors, faMaxLifetime, requestTimeout, maxPending

faLists == <<faRequests, visitors>>
faLimits == <<faMaxLifetime, requestTimeout, maxPending>>
faVars == <<net, faLists, faLimits>>

FAInit ==
  /\ faRequests = <<>>
  /\ visitors = <<>>
  /\ faMaxLifetime = FADefaultLifetime
  /\ requestTimeout = FADefaultTimeout
  /\ maxPending = FADefaultPending

----------------------------------------------------------------------------
FARequestItem ==
  [identification: Id, rr: RequestPacket, requestedLifetime: 0..Infinity,
   remainingLifetime: UInt, waitingTime: Nat]

\* sendReply(registration, code, lifetime): the agent answers by itself.
faAnswer(rr, code, lifetime) ==
  LET source == IF rr.src = BroadcastAddr THEN FAPrivate ELSE rr.dst
      destination == IF rr.home = AnyAddr THEN BroadcastAddr ELSE rr.src
  IN  buildRegistrationReply(
        UDPIP("foreign", source, RegistrationPort, destination, rr.sport),
        lifetime, code, rr.home, rr.homeAgent, rr.identification)

\* sendReply(reply, reply.home, port): the answer of the home agent is passed on.
faPassOn(reply, port) ==
  LET destination == IF reply.home = AnyAddr THEN BroadcastAddr ELSE reply.home
  IN  buildRegistrationReply(
        UDPIP("foreign", FAPrivate, RegistrationPort, destination, port),
        reply.lifetime, reply.code, reply.home, reply.homeAgent, reply.identification)

\* The request as it leaves for the home agent, without its options.
faForward(rr, reading) ==
  buildRegistrationRequest(
    UDPIP("public", FAPublic, AgentPort, rr.homeAgent, RegistrationPort),
    rr.lifetime, rr.home, rr.homeAgent, FAPublic, rr.identification, reading)

\* Mutated form: one request more than the limit is let through.
faRefusal_over(rr) ==
  IF rr.options \cap {"r", "x"} # {} THEN 70
  ELSE IF rr.careOf # FAPublic THEN 77
  ELSE IF rr.options \cap {"M", "G"} # {} THEN 72
  ELSE IF Len(faRequests) > maxPending THEN 66
  ELSE IF rr.lifetime > faMaxLifetime THEN 69
  ELSE IF rr.options \cap {"D", "T"} # {} THEN 64
  ELSE 0

\* checkRegistrationValidity(request): the code of the refusal, 0 for none.
faRefusal(rr) ==
  IF rr.options \cap {"r", "x"} # {} THEN 70
  ELSE IF rr.careOf # FAPublic THEN 77
  ELSE IF rr.options \cap {"M", "G"} # {} THEN 72
  ELSE IF Len(faRequests) >= maxPending THEN 66
  ELSE IF rr.lifetime > faMaxLifetime THEN 69
  ELSE IF rr.options \cap {"D", "T"} # {} THEN 64
  ELSE 0

\* Mutated form: the home address is not compared.
faFits_port(reply, request) == reply.dport = AgentPort

\* checkRegistrationValidity(reply, request)
faFits(reply, request) == reply.home = request.rr.home /\ reply.dport = AgentPort

\* Mutated form: a node that is already a visitor is added again.
faAccepted_push(v, reply, request) ==
  LET l == Minimum(reply.lifetime, faMaxLifetime)
  IN  Append(v, [MNhome |-> reply.home, MNhomeAgent |-> reply.homeAgent,
                 UDPSourcePort |-> request.rr.sport,
                 requestedLifetime |-> l, remainingLifetime |-> l])

\* What the lists of relayReply become: the visit of an accepted node begins,
\* is renewed or ends, the one of a refused node ends.
faAccepted(v, reply, request) ==
  LET l == Minimum(reply.lifetime, faMaxLifetime)
      visitor == [MNhome |-> reply.home, MNhomeAgent |-> reply.homeAgent,
                  UDPSourcePort |-> request.rr.sport,
                  requestedLifetime |-> l, remainingLifetime |-> l]
      w == IF hasVisitor(v, reply.home, reply.homeAgent)
           THEN setVisitorRequestedLifetime(v, reply.home, reply.homeAgent, l)
           ELSE Append(v, visitor)
  IN  IF reply.lifetime # 0
      THEN resetVisitorRemainingLifetime(w, reply.home, reply.homeAgent)
      ELSE IF hasVisitor(v, reply.home, reply.homeAgent)
           THEN removeVisitor(v, reply.home, reply.homeAgent)
           ELSE w

faDenied(v, reply) ==
  IF reply.lifetime # 0 THEN removeVisitor(v, reply.home, reply.homeAgent) ELSE v

----------------------------------------------------------------------------
faConsume(p, out) == net' = (net \ {p}) \cup out

\* What the classifiers of fa.click hand to push.
faGetsRequest(p) == p.type = "REGISTRATION" /\ p.link = "foreign"
faGetsReply(p) == p.type = "REPLY" /\ p.link = "public"

FAIgnore(p) ==
  /\ \/ faGetsRequest(p) /\ (p.sum # "ok" \/ p.dport # RegistrationPort)
     \/ faGetsReply(p) /\ (p.sum # "ok" \/ RequestsOf(faRequests, p.identification) = {})
  /\ faConsume(p, {})
  /\ UNCHANGED <<faLists, faLimits>>

faValid(rr) == faGetsRequest(rr) /\ rr.sum = "ok" /\ rr.dport = RegistrationPort

FARefuse(rr) ==
  /\ faValid(rr) /\ faRefusal(rr) # 0
  /\ LET lifetime == IF faRefusal(rr) = 69 THEN faMaxLifetime ELSE rr.lifetime
     IN  faConsume(rr, {faAnswer(rr, faRefusal(rr), lifetime)})
  /\ UNCHANGED <<faLists, faLimits>>

relayRequest(rr) ==
  /\ faValid(rr) /\ faRefusal(rr) = 0
  /\ faRequests' = Append(faRequests,
       [identification |-> rr.identification, rr |-> rr,
        requestedLifetime |-> rr.lifetime, remainingLifetime |-> rr.lifetime,
        waitingTime |-> 0])
  /\ \E reading \in Id : faConsume(rr, {faForward(rr, reading)})
  /\ UNCHANGED <<visitors, faLimits>>

faAnswers(reply) ==
  /\ faGetsReply(reply) /\ reply.sum = "ok"
  /\ RequestsOf(faRequests, reply.identification) # {}

\* The request is taken off the list before the answer is checked against it.
FAMismatch(reply) ==
  /\ faAnswers(reply)
  /\ ~faFits(reply, foundRequest(faRequests, reply.identification))
  /\ faRequests' = removeRequest(faRequests, reply.identification)
  /\ faConsume(reply, {})
  /\ UNCHANGED <<visitors, faLimits>>

relayReply(reply) ==
  LET request == foundRequest(faRequests, reply.identification)
  IN  /\ faAnswers(reply) /\ faFits(reply, request)
      /\ faRequests' = removeRequest(faRequests, reply.identification)
      /\ visitors' = IF reply.code \in {0, 1}
                     THEN faAccepted(visitors, reply, request)
                     ELSE faDenied(visitors, reply)
      /\ faConsume(reply, {faPassOn(reply, request.rr.sport)})
      /\ UNCHANGED faLimits

FAPush(p) ==
  FAIgnore(p) \/ FARefuse(p) \/ relayRequest(p) \/ FAMismatch(p) \/ relayReply(p)

FARunTimer ==
  \E left \in {decreaseRequests(faRequests)} :
  \E late \in {timedOut(left, requestTimeout)} :
      /\ faRequests' = stillWaiting(left, requestTimeout)
      /\ visitors' = decreaseVisitors(visitors)
      /\ net' = net \cup {faAnswer(late[i].rr, 78, late[i].rr.lifetime) : i \in DOMAIN late}
      /\ UNCHANGED faLimits

\* Mutated form: the handler of the timeout is given the lifetime's field.
FAConfigure_mixed ==
  /\ \E l \in FALifetimes : requestTimeout' = l
  /\ UNCHANGED <<net, faLists, faMaxLifetime, maxPending>>

\* The handlers max_lifetime, request_timeout and max_pending_registrations.
FAConfigure ==
  /\ \/ /\ \E l \in FALifetimes : faMaxLifetime' = l
        /\ UNCHANGED <<requestTimeout, maxPending>>
     \/ /\ \E t \in FATimeouts : requestTimeout' = t
        /\ UNCHANGED <<faMaxLifetime, maxPending>>
     \/ /\ \E n \in FAPendings : maxPending' = n
        /\ UNCHANGED <<faMaxLifetime, requestTimeout>>
  /\ UNCHANGED <<net, faLists>>

\* The process is started again: its lists are gone.
FARestart ==
  /\ faRequests' = <<>> /\ visitors' = <<>>
  /\ faMaxLifetime' = FADefaultLifetime
  /\ requestTimeout' = FADefaultTimeout
  /\ maxPending' = FADefaultPending
  /\ UNCHANGED net

FAStep == (\E p \in net : FAPush(p)) \/ FARunTimer \/ FAConfigure \/ FARestart

----------------------------------------------------------------------------
\* The environment has one packet on its way at a time; since it may send any
\* packet at any moment, this is every arrival order.
FASend(p) ==
  /\ net = {} /\ net' = {p}
  /\ UNCHANGED <<faLists, faLimits>>

FATake ==
  /\ \E p \in net : /\ ~faGetsRequest(p) /\ ~faGetsReply(p)
                    /\ net' = net \ {p}
  /\ UNCHANGED <<faLists, faLimits>>

FAEnv == (\E p \in FARequests \cup FAReplies : FASend(p)) \/ FATake

FANext == FAStep \/ FAEnv

FAStart == FAInit /\ net = {}

FASpec == FAStart /\ [][FANext]_faVars

\* run_timer reschedules itself every second, for ever.
FAFairSpec == FASpec /\ WF_faVars(FARunTimer)

----------------------------------------------------------------------------
\* Every variable stays in its set: the vectors hold pending requests and
\* visitors, the limits are ones the handlers may set, and only well-formed
\* packets are in flight.
FATypeOK ==
  /\ net \subseteq (RequestPacket \cup ReplyPacket)
  /\ faRequests \in Seq(FARequestItem)
  /\ visitors \in Seq(VisitorListItem)
  /\ faMaxLifetime \in FALifetimes
  /\ requestTimeout \in FATimeouts
  /\ maxPending \in FAPendings

\* relayReply asks has() before it adds: a node of one home agent is never in
\* the visitor list twice.
UniqueVisitors == NoDuplicateVisits(visitors)

\* The two clocks of a pending request, counted by two different loops of
\* run_timer, agree: what is left of its lifetime and what it waited add up to
\* what was asked, and it waited no longer than a timeout that can be set.
ClocksAgree(r) ==
  /\ CountsDown(r) => r.remainingLifetime + r.waitingTime = r.requestedLifetime
  /\ \E t \in FATimeouts : r.waitingTime <= t

PendingClocksAgree == \A i \in DOMAIN faRequests : ClocksAgree(faRequests[i])

\* Neither maxPendingRegistrations nor its handler lets the list outgrow the
\* largest limit.
PendingBounded == \E n \in FAPendings : Len(faRequests) <= n

\* decreaseLifetime counts visits in unsigned arithmetic: as long as
\* max_lifetime is never 0 and no node is accepted for 0 seconds, a visit
\* always has between one second and what was granted left, and one granted
\* without limit never runs down.
VisitorsAlive == AllPresent(visitors)

\* removeTimedOutRequests and decreaseLifetime race for a late request: one
\* that asks for no time, for ever, or for longer than any timeout leaves the
\* list in run_timer only with an answer of code 78 to its sender.
LateIsAnswered(r) ==
  \/ \E i \in DOMAIN faRequests' : faRequests'[i].rr = r.rr
  \/ faAnswer(r.rr, 78, r.rr.lifetime) \in net'

LongRequestsAnswered ==
  [][FARunTimer =>
       \A i \in DOMAIN faRequests :
         LET r == faRequests[i]
         IN  (CountsDown(r) => \A t \in FATimeouts : r.requestedLifetime > t)
             => LateIsAnswered(r)]_faVars

\* The agent never answers a node out of the blue: a reply that appears on the
\* foreign link goes to the port and names the home address and identification
\* of a request that has just arrived or that is taken off the pending list.
RepliesAnswerRequests ==
  [][\A p \in net' \ net :
       p.type = "REPLY" /\ p.link = "foreign" =>
       \/ \E rr \in net \ net' :
            /\ rr.type = "REGISTRATION" /\ p.dport = rr.sport
            /\ p.home = rr.home /\ p.identification = rr.identification
       \/ /\ Len(faRequests') < Len(faRequests)
          /\ \E i \in DOMAIN faRequests :
               LET rr == faRequests[i].rr
               IN  /\ p.dport = rr.sport
                   /\ p.home = rr.home /\ p.identification = rr.identification]_faVars

\* Once no more packets arrive, run_timer empties the pending list and ends
\* every visit that was not granted without limit.
FAQuiesces ==
  <>[](net = {}) =>
  <>[](/\ faRequests = <<>>
       /\ \A i \in DOMAIN visitors : visitors[i].requestedLifetime = Infinity)

\* A claim of the list of scenarios that the code breaks.

\* Scenarios: a reply to a request with another home address is ignored, so a
\* reply the agent does not pass on leaves the pending requests as they are.
UnfitRepliesIgnored ==
  [][\A p \in net \ net' :
       faGetsReply(p) /\ net' \subseteq net => faRequests' = faRequests]_faVars
=============================================================================
