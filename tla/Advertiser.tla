----------------------------- MODULE Advertiser -----------------------------
(***************************************************************************)
(* The element MobileIPAdvertiser, once for every agent: it advertises on  *)
(* the agent's private link when its timer fires and when it is solicited. *)
(* An advertiser is named by its LINK_ADDRESS.                             *)
(*                                                                         *)
(* advTimer is the time until the timer fires, in units of which AdvSecond *)
(* make a second (milliseconds in the code, where AdvSecond is 1000 and    *)
(* AdvJitter 100).                                                         *)
(***************************************************************************)
EXTENDS Network, Integers

CONSTANTS
  Advertisers,             \* their link addresses
  AdvLinkOf, AdvCareOf,    \* the link and the CAREOF_ADDRESS of each
  AdvReset,                \* the number after the largest one: 256
  AdvDefaultLifetime,      \* lifetime as compiled in: 45
  AdvDefaultRegistration,  \* registrationLifetime as compiled in: 60
  AdvLifetimes,            \* what the handler set_lifetime may be given
  AdvRegistrations,        \* and set_registration_lifetime
  AdvSecond, AdvJitter

ASSUME AdvAssumption ==
  /\ Advertisers \subseteq Addr
  /\ AdvLinkOf \in [Advertisers -> Link] /\ AdvCareOf \in [Advertisers -> Addr]
  /\ AdvReset \in 1..SequenceMax
  /\ AdvLifetimes \subseteq UInt /\ AdvRegistrations \subseteq UInt
  /\ AdvDefaultLifetime \in UInt /\ AdvDefaultLifetime >= 9
  /\ AdvDefaultRegistration \in AdvRegistrations
  /\ AdvSecond \in Nat /\ AdvJitter \in 1..AdvSecond

VARIABLES
  advSequence,      \* sequenceNumber
  advLifetime,      \* lifetime
  advRegistration,  \* registrationLifetime
  advTimer

advVars == <<advSequence, advLifetime, advRegistration, advTimer>>

\* initialize: wait some time so the network is ready.
advFirst == 3 * AdvSecond

AdvInit ==
  /\ advSequence = [a \in Advertisers |-> 0]
  /\ advLifetime = [a \in Advertisers |-> AdvDefaultLifetime]
  /\ advRegistration = [a \in Advertisers |-> AdvDefaultRegistration]
  /\ advTimer = [a \in Advertisers |-> advFirst]

----------------------------------------------------------------------------
\* Mutated form: the numbers start anew after the largest one.
advNext_zero(n) == IF n = SequenceMax THEN 0 ELSE n + 1

\* Mutated form: they do not roll over.
advNext_on(n) == n + 1

advNext(n) == IF n = SequenceMax THEN AdvReset ELSE n + 1

\* Mutated form: once in a lifetime.
advInterval_whole(lifetime) == {lifetime * AdvSecond}

\* ceil(lifetime / 3) seconds, less a random part of a tenth of a second: the
\* division is one of unsigned integers, so ceil has nothing to round.
advInterval(lifetime) ==
  {(lifetime \div 3) * AdvSecond - r : r \in 0..(AdvJitter - 1)}

\* sendAdvertisement(destination)
advMessage(a, destination) ==
  buildRouterAdvertisement(AdvLinkOf[a], a, destination, advLifetime[a],
                           advRegistration[a], AdvCareOf[a], advSequence[a])

advSend(a, received, destination) ==
  /\ net' = (net \ received) \cup {advMessage(a, destination)}
  /\ advSequence' = [advSequence EXCEPT ![a] = advNext(@)]

AdvRunTimer(a) ==
  /\ advTimer[a] = 0
  /\ advSend(a, {}, BroadcastAddr)
  /\ \E t \in advInterval(advLifetime[a]) : advTimer' = [advTimer EXCEPT ![a] = t]
  /\ UNCHANGED <<advLifetime, advRegistration>>

\* simple_action: a solicitation on the link is answered to its sender alone,
\* with the next number, and leaves the timer alone; a damaged one is dropped.
AdvSolicited(a, p) ==
  /\ p.type = "SOLICITATION" /\ p.link = AdvLinkOf[a]
  /\ IF p.sum = "ok"
     THEN advSend(a, {p}, p.src)
     ELSE net' = net \ {p} /\ UNCHANGED advSequence
  /\ UNCHANGED <<advLifetime, advRegistration, advTimer>>

\* changeLifetimeHandler and resetAdvertisementTimer: the next advertisement
\* waits for the new interval.
AdvSetLifetime(a, s) ==
  /\ s >= 3
  /\ advLifetime' = [advLifetime EXCEPT ![a] = s]
  /\ \E t \in advInterval(s) : advTimer' = [advTimer EXCEPT ![a] = t]
  /\ UNCHANGED <<net, advSequence, advRegistration>>

AdvSetRegistration(a, l) ==
  /\ advRegistration' = [advRegistration EXCEPT ![a] = l]
  /\ UNCHANGED <<net, advSequence, advLifetime, advTimer>>

\* Mutated form: the numbers go on across a start.
AdvRestart_goesOn(a) ==
  /\ advLifetime' = [advLifetime EXCEPT ![a] = AdvDefaultLifetime]
  /\ advRegistration' = [advRegistration EXCEPT ![a] = AdvDefaultRegistration]
  /\ advTimer' = [advTimer EXCEPT ![a] = advFirst]
  /\ UNCHANGED <<net, advSequence>>

\* The agent's process is started again.
AdvRestart(a) ==
  /\ advSequence' = [advSequence EXCEPT ![a] = 0]
  /\ advLifetime' = [advLifetime EXCEPT ![a] = AdvDefaultLifetime]
  /\ advRegistration' = [advRegistration EXCEPT ![a] = AdvDefaultRegistration]
  /\ advTimer' = [advTimer EXCEPT ![a] = advFirst]
  /\ UNCHANGED net

\* One unit of time passes; no timer is overdue.
AdvElapse ==
  /\ \A a \in Advertisers : advTimer[a] > 0
  /\ advTimer' = [a \in Advertisers |-> advTimer[a] - 1]
  /\ UNCHANGED <<net, advSequence, advLifetime, advRegistration>>
============================================================================
