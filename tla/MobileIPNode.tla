---------------------------- MODULE MobileIPNode ----------------------------
(***************************************************************************)
(* The element MobileIPNode: it sends registration requests, keeps those   *)
(* that wait for an answer, and tracks the current registration, which a   *)
(* one-second timer ages, retries and renews.  MobileIPSoliciter, of the   *)
(* same process, calls reregister.                                         *)
(*                                                                         *)
(* mnLink is the link the node is plugged into.  The ttl of a request is   *)
(* always 1 and agentConnection::connected always false: neither is kept.  *)
(***************************************************************************)
EXTENDS Network, RequestList

CONSTANTS
  MNHome,                      \* homeAddress
  MNHAPrivate, MNHAPublic,     \* the home agent's addresses, as configured
  MNDefaultTimeout,            \* requestTimeout as compiled in: 10
  MNTimeouts,                  \* what the handler request_timeout may set it to
  MNGarbage                    \* what an uninitialised unsigned int may hold

ASSUME MNAssumption ==
  /\ MNHome \in Addr /\ MNHAPrivate \in Addr /\ MNHAPublic \in Addr
  /\ MNTimeouts \subseteq Nat /\ MNDefaultTimeout \in MNTimeouts
  /\ MNGarbage \subseteq UInt

VARIABLES
  mnRequests,       \* requests
  mnAllocated,      \* the vector of requests has held one since the start
  connection,
  homeAgentPublic,  \* homeAgentPublicAddress
  mnTimeout,        \* requestTimeout
  mnRunning,        \* the process has not died
  mnLink

mnVars == <<net, mnRequests, mnAllocated, connection, homeAgentPublic,
            mnTimeout, mnRunning, mnLink>>

agentConnection ==
  [isHome: BOOLEAN, agentAddress: Addr, careOfAddress: Addr,
   lifetime: UInt, remainingLifetime: UInt]

noConnection ==
  [isHome |-> TRUE, agentAddress |-> AnyAddr, careOfAddress |-> AnyAddr,
   lifetime |-> 0, remainingLifetime |-> 0]

MNInit ==
  /\ mnRequests = <<>> /\ mnAllocated = FALSE
  /\ connection = noConnection
  /\ homeAgentPublic = MNHAPublic
  /\ mnTimeout = MNDefaultTimeout
  /\ mnRunning = TRUE

----------------------------------------------------------------------------
MNRequestItem ==
  [destination: Addr, careOfAddress: Addr, identification: Id,
   requestedLifetime: UInt, remainingLifetime: UInt, waitingTime: Nat]

\* The arguments of one call of sendRequest.
ask(destination, careOf, lifetime) ==
  [destination |-> destination, careOf |-> careOf, lifetime |-> lifetime]

\* sendRequest, once for every element of asks: each reads the clock for its
\* identification and leaves remainingLifetime uninitialised.  received holds the
\* packet that led to the calls, if any.
mnSend(received, pending, asks, homeAgent) ==
  \E ids \in [DOMAIN asks -> Id], junk \in [DOMAIN asks -> MNGarbage] :
  \E readings \in [{i \in DOMAIN asks : ids[i] = 0} -> Id] :
    /\ mnRequests' = pending \o
         [i \in DOMAIN asks |->
            [destination |-> asks[i].destination, careOfAddress |-> asks[i].careOf,
             identification |-> ids[i], requestedLifetime |-> asks[i].lifetime,
             remainingLifetime |-> junk[i], waitingTime |-> 0]]
    /\ mnAllocated' = (mnAllocated \/ asks # <<>>)
    /\ net' = (net \ received) \cup
         {buildRegistrationRequest(
            UDPIP(mnLink, MNHome, NodePort, asks[i].destination, RegistrationPort),
            asks[i].lifetime, MNHome, homeAgent, asks[i].careOf, ids[i], readings[i])
          : i \in DOMAIN asks}

hasRequest(v, destination, careOf) ==
  \E i \in DOMAIN v : v[i].destination = destination /\ v[i].careOfAddress = careOf

\* Mutated form: the address of the new agent is not stored.
reregister_forgets(received, address, careOf, lifetime) ==
  /\ mnSend(received, mnRequests,
            IF address = MNHAPrivate
            THEN <<ask(MNHAPrivate, connection.careOfAddress, 0)>>
            ELSE <<ask(address, careOf, lifetime)>>,
            homeAgentPublic)
  /\ connection' = [connection EXCEPT !.careOfAddress = careOf,
                                      !.lifetime = lifetime, !.remainingLifetime = lifetime]

\* reregister: at home the last care-of address is deregistered, elsewhere the
\* new one registered.
reregister(received, address, careOf, lifetime) ==
  /\ mnSend(received, mnRequests,
            IF address = MNHAPrivate
            THEN <<ask(MNHAPrivate, connection.careOfAddress, 0)>>
            ELSE <<ask(address, careOf, lifetime)>>,
            homeAgentPublic)
  /\ connection' = [connection EXCEPT !.agentAddress = address, !.careOfAddress = careOf,
                                      !.lifetime = lifetime, !.remainingLifetime = lifetime]

\* run_timer: pending requests expire or are sent again, and the registration
\* is renewed in the second half of its lifetime unless a request for it is
\* already pending.
mnCounts == connection.lifetime # Infinity /\ connection.remainingLifetime > 0

\* Mutated form: any pending request holds the renewal back.
mnRenews_idle(remaining, pending, asks) ==
  /\ mnCounts /\ 2 * remaining <= connection.lifetime
  /\ ~connection.isHome
  /\ pending = <<>> /\ asks = <<>>

\* Mutated form: what was sent again in the same second is not looked at.
mnRenews_again(remaining, pending, asks) ==
  /\ mnCounts /\ 2 * remaining <= connection.lifetime
  /\ ~connection.isHome
  /\ ~hasRequest(pending, connection.agentAddress, connection.careOfAddress)

mnRenews(remaining, pending, asks) ==
  /\ mnCounts /\ 2 * remaining <= connection.lifetime
  /\ ~connection.isHome
  /\ ~hasRequest(pending, connection.agentAddress, connection.careOfAddress)
  /\ \A i \in DOMAIN asks : \/ asks[i].destination # connection.agentAddress
                            \/ asks[i].careOf # connection.careOfAddress

MNRunTimer ==
  \E left \in {decreaseRequests(mnRequests)} :
  \E pending \in {stillWaiting(left, mnTimeout)}, late \in {timedOut(left, mnTimeout)} :
    LET again == [i \in DOMAIN late |->
                    ask(late[i].destination, late[i].careOfAddress, late[i].requestedLifetime)]
        remaining == connection.remainingLifetime - 1
        renewal == ask(connection.agentAddress, connection.careOfAddress, connection.lifetime)
    IN  /\ mnRunning
        /\ mnSend({}, pending,
                  IF mnRenews(remaining, pending, again) THEN Append(again, renewal) ELSE again,
                  homeAgentPublic)
        /\ connection' = IF mnCounts
                         THEN [connection EXCEPT !.remainingLifetime = remaining]
                         ELSE connection
        /\ UNCHANGED <<homeAgentPublic, mnTimeout, mnRunning, mnLink>>

----------------------------------------------------------------------------
\* What mn.click hands to push: a reply on the node's link to the node.
mnGetsReply(p) ==
  /\ mnRunning
  /\ p.type = "REPLY" /\ p.link = mnLink /\ p.dst \in {MNHome, BroadcastAddr}

\* A zero IP checksum throws what push does not catch, and back() of a vector
\* that never had an element reads at a wild address: both end the process.
MNDie(p) ==
  /\ mnGetsReply(p)
  /\ p.sum = "zero" \/ (p.sum = "ok" /\ ~mnAllocated)
  /\ mnRunning' = FALSE
  /\ net' = net \ {p}
  /\ UNCHANGED <<mnRequests, mnAllocated, connection, homeAgentPublic, mnTimeout, mnLink>>

\* checkReplyValidity.  back() of an emptied vector reads what is left in
\* memory; whatever it is, processReply finds no request and ignores the reply.
mnIsLast(p) ==
  mnRequests # <<>> /\ p.identification = mnRequests[Len(mnRequests)].identification

MNIgnore(p) ==
  /\ mnGetsReply(p)
  /\ \/ p.sum = "invalid"
     \/ p.sum = "ok" /\ mnAllocated /\ (~mnIsLast(p) \/ p.dport # NodePort)
  /\ net' = net \ {p}
  /\ UNCHANGED <<mnRequests, mnAllocated, connection, homeAgentPublic,
                 mnTimeout, mnRunning, mnLink>>

mnProcesses(p) == mnGetsReply(p) /\ p.sum = "ok" /\ mnIsLast(p) /\ p.dport = NodePort

\* processReply: the first request of the identification is taken off the list.
mnRequest(p) == foundRequest(mnRequests, p.identification)
mnOthers(p) == removeRequest(mnRequests, p.identification)

\* abs of the unsigned difference of a and b, which it reads as a signed int.
absDifference(a, b) ==
  LET apart == IF a > b THEN a - b ELSE b - a
  IN  Minimum(apart, UIntMod - apart)

\* Mutated form: the same in signed arithmetic.
mnGranted_signed(p) ==
  LET asked == mnRequest(p).requestedLifetime
  IN  asked - absDifference(p.lifetime, asked)

\* The lifetime is lowered by the difference between what was asked and what
\* was granted, in unsigned arithmetic.
mnGranted(p) ==
  LET asked == mnRequest(p).requestedLifetime
  IN  (asked + UIntMod - absDifference(p.lifetime, asked)) % UIntMod

MNAccept(p) ==
  /\ mnProcesses(p) /\ p.code \in {0, 1}
  /\ mnSend({p}, mnOthers(p), <<>>, homeAgentPublic)
  /\ connection' = [connection EXCEPT !.remainingLifetime = mnGranted(p),
                                      !.isHome = (p.src = MNHAPrivate)]
  /\ UNCHANGED <<homeAgentPublic, mnTimeout, mnRunning, mnLink>>

\* Code 69: the foreign agent's maximum is tried.
MNRetry(p) ==
  /\ mnProcesses(p) /\ p.code = 69
  /\ mnSend({p}, mnOthers(p), <<ask(p.src, mnRequest(p).careOfAddress, p.lifetime)>>,
            homeAgentPublic)
  /\ connection' = [connection EXCEPT !.lifetime = p.lifetime]
  /\ UNCHANGED <<homeAgentPublic, mnTimeout, mnRunning, mnLink>>

\* Code 136: the node learns the home agent's address.
MNLearn(p) ==
  /\ mnProcesses(p) /\ p.code = 136
  /\ homeAgentPublic' = p.homeAgent
  /\ mnSend({p}, mnOthers(p),
            IF connection.isHome
            THEN <<ask(p.src, mnRequest(p).careOfAddress, p.lifetime)>> ELSE <<>>,
            p.homeAgent)
  /\ UNCHANGED <<connection, mnTimeout, mnRunning, mnLink>>

\* Any other code ends the request and nothing else.
MNRefused(p) ==
  /\ mnProcesses(p) /\ p.code \notin {0, 1, 69, 136}
  /\ mnSend({p}, mnOthers(p), <<>>, homeAgentPublic)
  /\ UNCHANGED <<connection, homeAgentPublic, mnTimeout, mnRunning, mnLink>>

MNPush(p) ==
  MNDie(p) \/ MNIgnore(p) \/ MNAccept(p) \/ MNRetry(p) \/ MNLearn(p) \/ MNRefused(p)

MNSetTimeout(t) ==
  /\ mnRunning
  /\ mnTimeout' = t
  /\ UNCHANGED <<net, mnRequests, mnAllocated, connection, homeAgentPublic,
                 mnRunning, mnLink>>
=============================================================================
