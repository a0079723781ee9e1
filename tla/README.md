# A TLA+ development for Mobile-IP

The repository implements Mobile IPv4 (RFC 5944) as Click elements: a home agent, a
foreign agent and a mobile node, each a process of its own, on three networks
(*home*, *foreign*, *public*) that `click/scripts/glue.click` joins.
This directory models the elements of `src/elements` in TLA+, checks them with TLC on
small instances and proves the most important invariants with TLAPS.
(`src/click/elements/local/mobile-ip` is the same code; `src/elements` is the one cited.)

## The system

| part | state | what changes it | talks to |
|---|---|---|---|
| `MobileIPHomeAgent` | mobility bindings, `maxAcceptedLifetime` | a request, the one-second timer, the handler `max_lifetime`, a restart | the node on the home link, foreign agents on the public one |
| `MobileIPForeignAgent` | pending requests, visitors, three limits | a request, a reply, the one-second timer, three handlers, a restart | the node on the foreign link, the home agent |
| `MobileIPNode` | pending requests, `connection`, the home agent's address | a reply, the one-second timer, `reregister`, a handler, a restart | agents; called by the soliciter |
| `MobileIPSoliciter` | agent and its interface, sequence number, `firstConnection`, fast moving, two timers | an advertisement, the timers, two handlers, a restart | agents; calls `reregister` |
| `MobileIPAdvertiser` | sequence number, two lifetimes, its timer | the timer, a solicitation, two handlers, a restart | soliciters |
| `MobilityBindingList`, `RequestList`, `VisitorList` | vectors | the elements that own them | |
| `MobileIPEncapsulator`, `-Decapsulator`, `-PacketTransformer` | none | read bindings, visitors, the soliciter's agent | the data path |
| `MobileIPClassifier` | its mapping, fixed when configured | | |
| packet builders and processors | none | | |

What makes it hard: lifetimes are `unsigned int` in memory and 16 bits on the wire, 65535
never expires and 0 means deregistration; every list is aged by a loop that erases while it
scans, and a request is aged by two of them in the same second; replies are matched by a
clock reading that two nodes may share; limits change while entries granted under old ones
live on; packets get lost, come late, or are damaged; a restart of an agent is told from lost
advertisements by sequence numbers alone; one registration is counted down by three processes
whose timers are not in step; the node is carried to another link with requests pending; any
process may be restarted and forgets everything.

## Modules

| module | models | variables |
|---|---|---|
| `Vectors` | the `std::vector` idioms of the lists: erase loop (`Retain`), first match, erase one | |
| `MobileIPPackets` | requests, replies, advertisements, solicitations: builders, processors, widths | |
| `Network` | the links | `net` |
| `MobilityBindingList`, `RequestList`, `VisitorList` | `src/elements/lists`, one operator per method | |
| `HomeAgent` | `MobileIPHomeAgent` | `net`, `mobilityBindings`, `haMaxLifetime` |
| `BindingLeases` | what a home agent promises: a table of leases, without vector, packets or limits | `leases` |
| `ForeignAgent` | `MobileIPForeignAgent` | `net`, `faRequests`, `visitors`, `faMaxLifetime`, `requestTimeout`, `maxPending` |
| `MobileIPNode` | `MobileIPNode` | `net`, `mnRequests`, `mnAllocated`, `connection`, `homeAgentPublic`, `mnTimeout`, `mnRunning`, `mnLink` |
| `MobileIPSoliciter` | `MobileIPSoliciter`, and with it the whole process of the mobile node | those, and `solConnected`, `solAgent`, `agentMAC`, `firstConnection`, `fastMoving`, `solSequence`, `lifetimeTimer`, `solInterval` |
| `Advertiser` | `MobileIPAdvertiser`, once per agent | `net`, `advSequence`, `advLifetime`, `advRegistration`, `advTimer` |
| `Discovery` | advertisers and the node's process, in real time | those, `silentIn` and history |
| `DataPath` | `MobileIPEncapsulator`, `-Decapsulator`, `-PacketTransformer`, `-Classifier`, tunnel packets | |
| `MobileIP` | the three processes, their links, moves, losses and restarts | those of the components, `turns`, `faFresh`, `faults` and history |
| `MC*` | small instances | |
| `*Proofs` | lemmas, theorems, proofs | |

A handler is one action: what `push` does between receiving a packet and returning happens
in one step, with the answer it sends. The early returns of `push` are the different actions
of `HAPush`, `FAPush` and `MNPush`; `run_timer` is `HARunTimer`, `FARunTimer`, `MNRunTimer`,
`AdvRunTimer` and, for the soliciter's two timers, `SolRunTimer` and `SolSolicit`; a write to a
handler is `HASetMaxLifetime`, `FAConfigure`, `MNSetTimeout`, `SolSetFastMoving`,
`SolSetInterval`, `AdvSetLifetime` or `AdvSetRegistration`; restarts are `HARestart`,
`FARestart`, `MNRestart`, `AdvRestart`. `simple_action` of the soliciter is split by its
branches (`SolRefresh`, `SolFirstHome`, `SolMove`, `SolAgentReset`, `SolSinkhole`). The elements
of the data path keep no state: they are functions from a packet and the lists to the packets
they put out.

`net` is the set of packets in flight; each carries its link, so a node on another link does
not receive it. Two identical packets in flight are one element. The specifications of the
single components come with an environment that puts any packet of a given set on a link, in
any order and at any time, one at a time, and takes the component's packets off. Since the
component reads at most one packet per step, one in flight gives every order of arrivals.

`Discovery` and `MobileIP` reuse the components' actions and replace that environment:

- In `Discovery`, time passes in units of which `AdvSecond` make a second (milliseconds in the
  code). `advTimer` and `silentIn` are the times left of the advertisers' timers and of the
  node's lifetime timer; `DTick` is enabled only when no timer is due. Registrations are for
  ever and answered at once, so that only discovery is left.
- In `MobileIP`, packets of the processes meet in one `net` and are taken in any order, lost,
  or arrive late; `mHAGets`, `mFAGets` and `mMNGets` are the paths through the three Click
  scripts, whose classifiers are the ones of `DataPath`. The foreign agent's script filters
  Ethernet addresses only for ARP, so it takes any request on its link. `turns` is the order
  in which the one-second timers fire: Click's `reschedule_after_sec` keeps strict intervals
  (`click/include/click/timer.hh:263`), so the order never changes but for a restart. A second
  is long compared with a packet's flight: no timer fires while packets are in flight.
  Advertisements are reduced to those that change something, since `Discovery` treats their
  numbers and times. The history variables `grants` and `registered` only serve
  `RegistrationHolds` and `CountIsBacked`.

Decisions about the language:

- Unsigned arithmetic is kept: `UIntMod` is 2^32, `Infinity` is 65535, `TTLMod` is 256, `htons`
  cuts to 16 bits.
- Several functions declared `bool` have no `return` (`VisitorList::remove` and the two
  setters, `reregister`, `registerFA`, `deregister`, `sendAdvertisement`, `sendSolicitation`).
  This is undefined behaviour; the models take the outcome of the builds the project was used
  with, a plain return whose value nobody reads. The same goes for `p->kill()` after
  `uniqueify` in the packet transformer.
- `abs` in `processReply` takes an `int`: the unsigned difference of two lifetimes is read as a
  signed one (`absDifference`). Lifetimes are 16 bits wide, so it is the distance of the two, which
  `MAssumption` says of the widths of the composition (`2 * Infinity <= UIntMod`).
- The transformer's branch for an Ethernet broadcast takes the first bytes of the IP header, which
  begins with 0x45, for the address: it is never reached and left out.
- `sendRequest` leaves `remainingLifetime` uninitialised, and an advertisement whose
  processing threw has uninitialised numbers: the value is any of `MNGarbage`.
- `getLastRequest()` on an empty vector: if the vector ever held an element, `back()` reads
  old memory and whatever it yields, the reply is ignored because no request is found; if it
  never did, the read is at a wild address and the process ends (`MNDie`).
- `agentConnection::connected` is only ever false (line 95 of `MobileIPNode.cc` compares
  instead of assigning), and the time to live of a request is always 1: neither is a variable.
- Identifications are clock readings, so any two may coincide; the builder replaces a 0 by a
  second reading, which the sender's list does not see. `MobileIP` alone takes the readings of
  pending requests to be distinct, and none to be 0 (`MAddressAssumption`, which also says that
  the interfaces have addresses of their own).
- An Ethernet address is named by the IP address of its interface.

## Runs

Passing runs:

| run | checks | shows |
|---|---|---|
| `home_agent` | `HATypeOK`, `UniqueBindings`, `BindingsAlive`, `TunnelStable`, `GrantIsRecorded`, `FiniteBindingsExpire`, `ImplementsLeases` | two nodes, two care-of addresses: the list stays consistent, a tunnel is not diverted by other registrations, an accepted lifetime is the one stored, bindings nobody renews disappear; the agent implements `BindingLeases` |
| `foreign_agent` | `FATypeOK`, `UniqueVisitors`, `PendingClocksAgree`, `PendingBounded`, `VisitorsAlive`, `LongRequestsAnswered`, `RepliesAnswerRequests`, `FAQuiesces` | two nodes with colliding identifications, late and unasked replies, a limit on pending requests that drops below their number: lists and answers stay in step; pending requests and finite visits disappear |
| `mobile_node` | `MNTypeOK`, `ElementsAgree`, `SilenceIsNoticed` | across moves, agent resets, damaged packets and restarts the two elements mean the same foreign agent, and a connection always has its timer |
| `mobile_node_live` | `RenewalPending`, `RenewalOnce`, `MoveNoticed` | in the second half of a registration a request for it is pending after every second, and a second never adds another to one that is; a node left on a link gets connected there, also when damaged advertisements had made it connect to 0.0.0.0 |
| `discovery` | `DTypeOK`, `ResetNoticed`, `NoFalseReset`, `SilenceIsReal` | with lost advertisements, solicitations of two nodes, restarts and changed lifetimes: a restart is noticed if nothing got lost, nothing but a loss or a restart is taken for one, and an agent is given up only after two of its advertisements failed to prolong the connection, or its timer was put off |
| `mobile_ip` | `RegistrationHolds`, `CountIsBacked`, `SettlesAbroad`, `SettlesAtHome` | the whole system, with a home agent that grants less than is asked: a registered node is reachable through encapsulator and decapsulator at every moment, although three countdowns run out of step and a packet of a renewal may be lost; while it counts on more than a second, binding and visit have at most one second less than it believes; after all moves and restarts a node that stays is reachable where it is and sends through the agent there |

Bounds. `Infinity` is 3 and `UIntMod` 8 (7 for the node): lifetimes 0, one that counts down
over several seconds, and the infinite one all occur, an underflow is told from any lifetime,
and a limit of 5 (home agent) does not fit the wire. `SolReset` (256) is 2, with sequence
numbers on both sides. The node's timeouts are 0 and 1 second (1 in `mobile_node`), the foreign
agent's is 1: shorter and not shorter than lifetimes. The foreign agent's lifetime limit is 1 or 3
and its limit on pending requests 1 or 2, so a request may be above the first and the list longer
than the second. `MNMaxAsks` keeps the node's
list short: no advertisement arrives while a request is pending, and since a renewal, a retry
after code 69 or a request to a former agent may be added, two are pending at times.
`MNQuiet` makes the environment take a request off before anything else happens; the node
never reads its own packets.

`MCDiscovery` has one timed foreign agent, two others that advertise at any time, lifetimes 3
(the smallest the handler admits) and 12, numbers up to 3 that roll over to 2. Its unit is a
second, so the random part of an interval (less than a tenth of a second) is 0 in it; the order
of the code's times is kept: the wait after a start is shorter than the interval, three
intervals fit a lifetime. `DRestart` excludes a node that has counted to 2^32 - 1.

`MCMobileIP` has one node and one agent of each kind, two moves, one lost packet and one
restart (`MCarries`, `MLosses`, `MStarts`) at any point, and a registration of 7 seconds, of which
the home agent grants 5, with a node's timeout of 1 and a foreign agent's of 0: as in the code
(60; 10; 7) the foreign agent's timeout is the shorter one, and half a lifetime leaves room for a
retry. Four identifications suffice for the requests that are pending or in flight together. The
same properties hold when the foreign agent cuts the lifetime, too (8 seconds advertised, limits 7
and 6): the refusal with code 69 and the retry double the number of states, so that instance is
not the one kept.

The limits are those of the cfg files; no symmetry is used. Deadlock is checked everywhere:
timers run for ever.

Fairness. `run_timer` of the agents reschedules itself after every second, hence
`WF(HARunTimer)` and `WF(FARunTimer)`; nothing is assumed of packets, the properties are about
behaviours in which they stop (`<>[](net = {})`). For the node, the lifetime timer fires if its
agent is out of reach, because only that agent's advertisements schedule it anew: strong
fairness, since `MNQuiet` interrupts it. A connection to 0.0.0.0 is kept up by damaged
advertisements; that these end, and that advertisements keep getting through, are premises of
`MoveNoticed`, not assumptions of the specification. In `MobileIP`, weak fairness of the
three timers and the lifetime timer comes from Click's scheduler, that of the advertisements from
`MobileIPAdvertiser::run_timer`, that of `MPNetwork` says that a packet that is not lost arrives,
and a process that died is started again by its user. `SettlesAbroad` and `SettlesAtHome` have
the premise that no packet is lost and the node stays; `mp_stuck` shows why the former is needed.

Every property has a mutated form of the code that breaks it, next to the definition it
changes (`addBinding_push`, `timedOut_late`, `advInterval_whole`, ...).

Violation runs, each a claim of a comment or of `src/Scenarios` that the code does not keep:

| run | claim | what happens |
|---|---|---|
| `ha_zero_limit` | `MobileIPHomeAgent.hh:52`, the maximal lifetime accepted | `max_lifetime` 0: the binding is added with 0 and wraps to 2^32 - 1 |
| `fa_unfit_reply` | `Scenarios:20`, a reply to a request with another home address is ignored | the request is removed before the reply is compared with it |
| `mn_first_home` | `MobileIPSoliciter.hh:73`, the first connection is made without registration | a node first connected to a foreign agent does not deregister when it comes home |
| `d_missed_reset` | `Scenarios:31`, a node registers again when its agent reset itself | number 0 of the restarted agent goes to another node that solicited; number 1 follows the count of a node that had got 0 before, and the restart is missed |
| `mp_stuck` | `MobileIPNode.hh:68`, a new request is sent when one timed out | first registration abroad, one packet lost: the foreign agent's code 78 drops the request, `connection.isHome` is still true, and nothing is sent again |
| `mp_late_reply` | `Scenarios:28`, a reply with an unknown identification is ignored | a reply that reaches a freshly started node ends its process |

Noticed while modelling and without a run of their own:

- a pending request that asks for less than the timeout is erased without the error reply of
  `MobileIPForeignAgent.hh:70` (`MobileIPForeignAgent.cc:35`);
- a request whose uninitialised lifetime reads 0 is dropped instead of sent again
  (`MobileIPNode.cc:201`, the comment at `:42`);
- an advertisement with a wrong checksum makes the node connect to 0.0.0.0
  (`MobileIPSoliciter.cc:108`; `Scenarios:7` says it is ignored); `MoveNoticed` shows that it
  gets away from there;
- a reply above the foreign agent's limit is passed on unchanged (`Scenarios:23` says an error
  is sent);
- a reply with a zero IP checksum ends the node's process (`Scenarios:26` says it is ignored), and
  so does a data packet with a zero checksum or with IP options the home agent's, in the
  encapsulator (`MobileIPEncapsulator.cc:20`, `PacketProcessors.cc:112`): `encapsulate` leaves the
  exception out, since its effect is a restart of the home agent, which the composition has;
- the answer of code 136 carries the low 16 bits of a `max_lifetime` above 65535
  (`MobileIPHomeAgent.cc:149`);
- a reset of the home agent leads to no registration (`Scenarios:31`; the comment at
  `MobileIPSoliciter.cc:114` says it is not important): the node recovers with its next renewal,
  which a registration without limit never makes;
- a visit entered with lifetime 0 wraps (`VisitorList.hh:69`); a packet that reaches the
  encapsulator with time to live 0 leaves it with 255 (`PacketBuilders.cc:133`);
- with bindings to two care-of addresses, the older one decides (`TunnelStable` says how).

## Proofs

The theorems hold for all addresses, packets, limits and widths that satisfy the named
assumptions of the modules (`PacketAssumption`, `HAAssumption`, `FAAssumption`, `MNAssumption`,
`SolAssumption`, `AdvAssumption`, `DAssumption`, `TTLAssumption`, `MAssumption`,
`MAddressAssumption`, `PortsAssumption`), which TLC evaluates in the runs. Those about the
composition also hold for every `MCarries`, `MLosses` and `MStarts`: however often the node moves,
packets are lost and processes start again.

- `CommonProofs`, the facts about vectors and packets the others use. `RetainProperties`: the
  erase loop yields a sequence that holds exactly the elements at the retained positions, in
  their order. It rests on the existence of an increasing enumeration of a finite set of
  numbers, shown from the well-foundedness of `<` by a least counterexample; with it, a loop
  that erases something leaves a shorter vector (`RetainLength`). What the builders make is a
  well-formed packet. For the composition, `AddLasts`, `DecreaseLasts`, `RenewedLasts` and their
  like say how many seconds an entry of a list is still good for after each method.
- `HomeAgentProofs`. `HAInv` is `HATypeOK`, `UniqueBindings` and, if 0 is not among the
  limits, `BindingsAlive`: uniqueness survives `addBinding` because the pair is looked for
  first, and the erase loops because they only drop elements. `HATypeCorrect`, `HAUnique` and
  `HAAlive` follow; `ha_zero_limit` shows that the assumption of the last is needed.
  In the same module, `HAImplementsLeases`: with `leases` as the set of the vector's elements, every
  step of the home agent is a step of `BindingLeases` or leaves the leases alone. The erase loop
  of `decreaseLifetime` maps to `Second` because the bindings are alive (no underflow) and, by
  `RetainProperties`, exactly the ended ones are dropped; `add` maps to `Grant` because pairs are
  unique. `HAGrantRecorded` follows one registration through `add`. `HATunnelStable` is about
  order, which the set forgets: dropping elements keeps the first of those that remain, and `add`
  writes at the end or in place. For the packets that follow the bindings, `TunnelTransparent`:
  what leaves the tunnel has the addresses of what went in and at least three hops less to live;
  `TunnelDelivers`: a packet with four hops to live leaves it, if binding and visitor are there.
- `ForeignAgentProofs`. `FAInv` joins `FATypeOK`, unique visitors, the bound on pending
  requests, the agreement of their two clocks and, if no grant is of 0 seconds
  (`NoZeroGrants`), the life of the visits; for the last, it also says that no reply on its way
  to the agent grants 0 seconds (`ZeroGrant`). One theorem for each follows;
  `FALongRequestsAnswered` derives the action property from the clocks: when `decreaseLifetime`
  erases a request, the clocks say that it waited as long as it asked for, which a long request
  cannot have done within a timeout. `FARepliesAnswerRequests` goes through the three places
  that send to a node (a refusal, a reply passed on, code 78; a reply that does not fit sends
  nothing) and needs one invariant more, `FANamed`: an item of the list carries the
  identification of the request it holds, through both loops of `run_timer`. That the item
  found by a reply leaves the list is `RetainLength`. `FAAssumption` says on which link the
  environment puts requests and replies: the agent does not read its own answers.
- `MobileNodeProofs`. `MNInv` is `MNTypeOK`, `ElementsAgree` and `SilenceIsNoticed`, inductive
  together: `connect` sets the soliciter's agent and calls `reregister`, which sets the node's,
  in one step, and no reply changes the latter. `MNRenewalPending` is an argument about the three
  loops of one `run_timer`: whatever the first two dropped or sent again, the renewal that comes
  last finds the request or adds it.
- `DiscoveryProofs`. `DInv` relates the two counts through the packet in flight: the number of
  its sender is the one after it; while nothing was missed the agent's next number follows the
  node's count or is past 256 (`DFollows`); after a restart it is 0, and the count is not 2^32 - 1
  (`DFresh`). `DResetNoticed` and `DNoFalseReset` follow for every width of the sequence number,
  every timing and any number of agents.
- `SilenceProofs`. `DSilenceIsReal`: the node gives up only an agent that was silent. The
  invariant, `DTimedInv` (stated in `DiscoveryProofs`, with the lemmas on times), is about times:
  no agent waits longer than its interval and an advertisement in flight carries its sender's
  lifetime (`DTimed`); while fewer than two advertisements were missed, the time left to the node
  covers the agent's wait, a further interval if none was missed yet, and one more unless a start
  of the agent has used that up (`DRoom`). An advertisement that prolongs the connection restores
  three intervals, which fit a lifetime because the interval is a third of it, rounded down; each
  miss gives up one; a tick takes the same from both sides. It holds for every unit of time,
  random part and number of agents, under `LifetimesFit`, which the code does not ensure:
  lifetimes of at most 65535 (`set_lifetime` takes any number from 3 on, and the field of the
  advertisement cuts it) and a default of at least 12 seconds (it is 45; the 3 seconds after a
  start must be less than an interval). Both are needed: TLC finds `SilenceIsReal` violated in
  `MCDiscovery` with a lifetime of 16 where the field holds at most 12, and with a default of 9.
  In the same module, `DTypeCorrect`: `DTypeOK` joins what `MNInv` says of the node's process,
  whose steps are the same here, `DInv`, and the types of the clocks, which need that no
  lifetime is below 3 (`DClock`): the interval less its random part is not negative.
- `RegistrationProofs` and `SystemProofs`, about `MobileIP`. `SysInv` joins the invariants of the
  three processes with
  - `Settings`: the limits are the configured ones, the node is on one of its links, the
    node's timer has its turn;
  - `Flight`: every request in flight is one of the node's (its home address, its home agent, one
    of the lifetimes in play), every granting answer that comes by way of the foreign agent
    carries the least of the advertised lifetime and the two limits (`Lease`), no request is in
    flight twice or together with the answer it is granted (`Distinct`), and a packet with a
    lifetime does not answer a pending request for lifetime 0 (`Linked`);
  - `Held`: behind an answer in flight that grants a registration of the history `grants` there is
    a binding good for `Lease` seconds once the home agent sent it, and a visit, too, once the
    foreign agent passed it on (`Covered`); and while the node is `registered`, binding and visit
    are good for what the node counts, less a second for an agent whose timer has fired since the
    node's last did (`Backed`, `Slack`).

  The last conjunct is why the invariant is inductive: in every second each process ticks once, and
  `Slack` is exactly what an agent's countdown may lack. A tick of an agent lowers its countdown and
  its slack changes from 0 to 1; a tick of the node lowers the count and both slacks become 0. No
  packet is in flight when a timer fires, so `Covered` needs no clock. A registration or an answer
  of the same node only raises the countdowns it touches (`AddLasts`, `AcceptedLasts`), a
  deregistration, a move or a start ends `registered`. `MPCountBacked` (`CountIsBacked`) follows.
  It is tight: with a count of 1 an agent may already have dropped its entry, and TLC finds the
  property violated, after two lost packets, when it is stated for all counts above 0.
  `MPDelivers` carries it on to the packets by `TunnelDelivers`: binding and visit being there, a
  packet with four hops to live gets through encapsulator and decapsulator to the node. Its
  premise that `getCareOfAddress` names the foreign agent is needed for arbitrary constants: a
  node that was at home with its deregistration unanswered may have renewed with the home agent
  as its care-of address, and that older binding diverts the tunnel until it ends.
  `MPProcesses` lifts the invariants of the components to the composition, where the packets come
  from the other processes and not from an environment; `MPImplementsLeases` and `MPTunnelStable`
  do the same for the lease table and for the tunnel, since only the home agent's own steps
  change its bindings (`SysBindings`).

The proof modules name the prover of a leaf where the SMT solver is not the one: Zenon for leaves
that unfold actions and need no arithmetic.

Only model-checked:

- all liveness (`FiniteBindingsExpire`, `FAQuiesces`, `MoveNoticed`, `SettlesAbroad`,
  `SettlesAtHome`): fairness is out of the prover's reach;
- `RenewalOnce`, which counts the elements of a vector before and after two erase loops;
- `RegistrationHolds` of the composition. It is not true for every value of the constants (TLC
  finds it violated in `MCMobileIP` with two lost packets instead of one): how many may be lost
  depends on how many retries of `mnTimeout` seconds fit into half of `MRegistration`. What holds
  without such a condition is proved: `CountIsBacked`, and `MPDelivers` as long as the node's own
  count has not run down. TLC checks, for the lifetimes and the timeout of `MCMobileIP`, that
  renewals come before it has.

## Not modelled

- The Click distribution under `src/click`, which makes up all but about three thousand of the
  more than 360,000 lines under `src`: a third-party router framework. Of what the elements use
  of it, `DecIPTTL`, the networks and the scripts that move the node are modelled from their
  source, timers and vectors from their use and marked external.
  `src/click/elements/local/mobile-ip` repeats `src/elements`; `src/click/solution` holds a
  reference solution without sources. Lines covered, as a share of everything under `src`, are
  therefore few; of `src/elements` the models cover the bodies of the elements and lists but for
  configuration, formatting and byte layout.
- `print`, logging, the layout of packets in bytes and the computation of checksums (a checksum is
  right, wrong or zero), ARP, Ethernet and IP options, fragments.
- `registerLL`, `deregister()` and `isVisitor` are never called.
- Several nodes, or several foreign agents, in the composition: the agents' handling of two nodes is
  checked in `home_agent` and `foreign_agent`, the node's of several agents in `mobile_node`; all
  three processes with two of each are beyond what TLC explores.
- Time in the composition finer than the order of timers, and damaged packets there.
