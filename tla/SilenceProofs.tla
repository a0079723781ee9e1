--------------------------- MODULE SilenceProofs ---------------------------
(***************************************************************************)
(* Agent discovery in time: the node gives up only an agent that was       *)
(* silent, for every lifetime, every random part of the intervals and      *)
(* every number of agents; and every variable stays in its set, the node's *)
(* for the reasons of MobileNodeProofs, the clocks for those of            *)
(* DiscoveryProofs.                                                        *)
(***************************************************************************)
EXTENDS DiscoveryProofs, MobileNodeProofs

\* A leaf goes to the SMT solver, with a minute, unless it names a prover; then
\* to Zenon, and to the SMT solver once more.
USE SMTT(60), ZenonT(30), SMTT(90)

\* What an agent sends carries its lifetime, uncut.
LEMMA SentLifetime ==
  ASSUME DTimedInv, NEW a \in Advertisers, NEW received, NEW destination,
         Adverts(net) = {}, advSend(a, received, destination)
  PROVE  /\ advMessage(a, destination) \in Adverts(net')
         /\ \A p \in Adverts(net') : /\ p.src = a /\ p.lifetime = advLifetime[a]
                                     /\ p.dst = destination
<1> DEFINE m == advMessage(a, destination)
<1>1. advLifetime[a] % (Infinity + 1) = advLifetime[a]
  BY TimedFacts, PacketAssumption
<1>2. /\ m.type = "ADVERTISEMENT" /\ m.src = a /\ m.lifetime = advLifetime[a]
      /\ m.dst = destination
  BY <1>1 DEF advMessage, buildRouterAdvertisement, htons
<1>3. net' = (net \ received) \cup {m}
  BY DEF advSend
<1> HIDE DEF m
<1>4. Adverts(net') = {m}
  BY <1>2, <1>3 DEF Adverts
<1> QED
  BY <1>2, <1>4 DEF m

\* The timer of an agent fires: its advertisement is underway.
LEMMA AdvertiseTime ==
  ASSUME DTimedInv, NEW a \in Advertisers, DAdvertise(a)
  PROVE  DTimed' /\ DRoom'
<1>1. PICK t \in advInterval(advLifetime[a]) : advTimer' = [advTimer EXCEPT ![a] = t]
  BY ZenonT(60) DEF DAdvertise, AdvRunTimer
<1>2. /\ net = {} /\ advTimer[a] = 0 /\ advSend(a, {}, BroadcastAddr)
      /\ UNCHANGED <<advLifetime, silentIn, missed, delayed, lifetimeTimer, solAgent>>
  BY DEF DAdvertise, AdvRunTimer, solVars, dHistory
<1>3. Adverts(net) = {}
  BY <1>2 DEF Adverts
<1> DEFINE m == advMessage(a, BroadcastAddr)
<1>4. /\ m \in Adverts(net')
      /\ \A p \in Adverts(net') : /\ p.src = a /\ p.lifetime = advLifetime[a]
                                  /\ p.dst = BroadcastAddr
  BY <1>2, <1>3, SentLifetime
<1> HIDE DEF m
<1>5. t \in Nat /\ t <= Interval(advLifetime[a])
  BY TimedFacts, IntervalRange
<1>6. \A b \in Advertisers : advTimer'[b] = IF b = a THEN t ELSE advTimer[b]
  BY <1>1 DEF DTimedInv, DClock
<1>7. DTimed'
  <2>1. ASSUME NEW b \in Advertisers
        PROVE  advLifetime'[b] <= Infinity /\ advTimer'[b] <= Interval(advLifetime'[b])
    <3>1. advLifetime'[b] = advLifetime[b]
      BY <1>2
    <3>2. advLifetime[b] <= Infinity /\ advTimer[b] <= Interval(advLifetime[b])
      BY TimedFacts, Zenon
    <3> QED
      BY <1>5, <1>6, <3>1, <3>2
  <2>2. ASSUME NEW p \in Adverts(net') PROVE p.lifetime \in Nat /\ p.lifetime = advLifetime'[p.src]
    <3>1. p.src = a /\ p.lifetime = advLifetime[a] /\ advLifetime' = advLifetime
      BY <1>2, <1>4, Zenon
    <3>2. advLifetime[a] \in Nat
      BY TimedFacts, Zenon
    <3> QED
      BY <3>1, <3>2
  <2>3. silentIn' \in Nat /\ missed' \in 0..2 /\ delayed' \in 0..2
    BY <1>2 DEF DTimedInv, DTimed
  <2> QED
    BY <2>1, <2>2, <2>3, Zenon DEF DTimed
<1>8. ASSUME lifetimeTimer, solAgent \in Advertisers, missed < 2, delayed < 2
      PROVE  silentIn > 0 /\ (Room(missed)' \/ (Underway' /\ (missed = 0 => Room(1)')))
  <2>1. silentIn > 0 /\ Room(missed)
    <3>1. ~Underway
      BY <1>3, NothingUnderway, Zenon
    <3> QED
      BY <1>8, <3>1 DEF DTimedInv, DRoom
  <2>2. CASE solAgent = a
    <3>1. Underway'
      BY <1>2, <1>4, <2>2 DEF Underway, Mine
    <3>2. ASSUME missed = 0 PROVE Room(1)'
      <4> DEFINE iv == Interval(advLifetime[a])
      <4>1. /\ Interval(advLifetime[solAgent])' = iv /\ advTimer'[solAgent'] = t
            /\ Interval(advLifetime[solAgent]) = iv /\ advTimer[solAgent] = 0
        BY <1>2, <1>6, <2>2 DEF Interval
      <4>2. iv \in Nat /\ silentIn \in Nat /\ t \in Nat /\ t <= iv
        BY <1>5, TimedFacts
      <4> HIDE DEF iv
      <4>3. IF delayed = 0 THEN silentIn >= 0 + iv + iv ELSE silentIn > 0 + iv
        BY <2>1, <3>2, <4>1 DEF Room
      <4> QED
        BY <1>2, <4>1, <4>2, <4>3 DEF Room
    <3> QED
      BY <2>1, <3>1, <3>2
  <2>3. CASE solAgent # a
    <3>1. advTimer'[solAgent'] = advTimer[solAgent]
      BY <1>2, <1>6, <1>8, <2>3
    <3>2. Room(missed)'
      BY <1>2, <2>1, <3>1 DEF Room
    <3> QED
      BY <2>1, <3>2
  <2> QED
    BY <2>2, <2>3
<1> QED
  BY <1>2, <1>7, <1>8 DEF DRoom

\* A changed lifetime counts as two delays.
LEMMA SetLifetimeTime ==
  ASSUME LifetimesFit, DTimedInv, NEW a \in Advertisers, NEW s \in AdvLifetimes, DSetLifetime(a, s)
  PROVE  DTimed' /\ DRoom'
<1>1. PICK t \in advInterval(s) : advTimer' = [advTimer EXCEPT ![a] = t]
  BY ZenonT(60) DEF DSetLifetime, AdvSetLifetime
<1>2. /\ net = {} /\ net' = {} /\ s >= 3 /\ advLifetime' = [advLifetime EXCEPT ![a] = s]
      /\ delayed' = IF a = solAgent THEN 2 ELSE delayed
      /\ UNCHANGED <<silentIn, missed, lifetimeTimer, solAgent>>
  BY DEF DSetLifetime, AdvSetLifetime, solVars
<1>3. s \in Nat /\ s <= Infinity
  BY PacketAssumption DEF LifetimesFit
<1>4. t <= Interval(s)
  BY <1>2, <1>3, IntervalRange
<1>5. \A b \in Advertisers : /\ advTimer'[b] = IF b = a THEN t ELSE advTimer[b]
                             /\ advLifetime'[b] = IF b = a THEN s ELSE advLifetime[b]
  BY <1>1, <1>2 DEF DTimedInv, DClock
<1>6. Adverts(net) = {} /\ Adverts(net') = {}
  BY <1>2 DEF Adverts
<1>7. DTimed'
  <2>1. ASSUME NEW b \in Advertisers
        PROVE  advLifetime'[b] <= Infinity /\ advTimer'[b] <= Interval(advLifetime'[b])
    <3>1. advLifetime[b] <= Infinity /\ advTimer[b] <= Interval(advLifetime[b])
      BY TimedFacts, Zenon
    <3> QED
      BY <1>3, <1>4, <1>5, <3>1
  <2>2. silentIn' \in Nat /\ missed' \in 0..2 /\ delayed' \in 0..2
    BY <1>2 DEF DTimedInv, DTimed
  <2> QED
    BY <1>6, <2>1, <2>2, Zenon DEF DTimed
<1>8. ASSUME lifetimeTimer, solAgent \in Advertisers, missed < 2, delayed' < 2
      PROVE  silentIn > 0 /\ Room(missed)'
  <2>1. solAgent # a /\ delayed' = delayed
    BY <1>2, <1>8
  <2>2. silentIn > 0 /\ Room(missed)
    <3>1. ~Underway
      BY <1>6, NothingUnderway, Zenon
    <3> QED
      BY <1>8, <2>1, <3>1 DEF DTimedInv, DRoom
  <2>3. advTimer'[solAgent'] = advTimer[solAgent] /\ advLifetime'[solAgent'] = advLifetime[solAgent]
    BY <1>2, <1>5, <1>8, <2>1
  <2> QED
    BY <1>2, <2>1, <2>2, <2>3 DEF Room
<1> QED
  BY <1>2, <1>7, <1>8 DEF DRoom

\* A start uses up the interval to spare.
LEMMA RestartTime ==
  ASSUME LifetimesFit, DTimedInv, NEW a \in Advertisers, DRestart(a)
  PROVE  DTimed' /\ DRoom'
<1>1. /\ net = {} /\ net' = {}
      /\ advLifetime' = [advLifetime EXCEPT ![a] = AdvDefaultLifetime]
      /\ advTimer' = [advTimer EXCEPT ![a] = advFirst]
      /\ delayed' = IF a = solAgent
                    THEN IF advLifetime[a] < AdvDefaultLifetime THEN 2 ELSE Minimum(2, delayed + 1)
                    ELSE delayed
      /\ UNCHANGED <<silentIn, missed, lifetimeTimer, solAgent>>
  BY DEF DRestart, AdvRestart, solVars
<1>2. /\ AdvDefaultLifetime \in Nat /\ AdvDefaultLifetime >= 12 /\ AdvDefaultLifetime <= Infinity
  BY PacketAssumption DEF LifetimesFit
<1>3. advFirst \in Nat /\ advFirst < Interval(AdvDefaultLifetime) /\ Interval(AdvDefaultLifetime) \in Nat
  BY <1>2, FirstIsSooner, IntervalThird
<1>4. \A b \in Advertisers :
        /\ advTimer'[b] = IF b = a THEN advFirst ELSE advTimer[b]
        /\ advLifetime'[b] = IF b = a THEN AdvDefaultLifetime ELSE advLifetime[b]
  BY <1>1 DEF DTimedInv, DClock
<1>5. Adverts(net) = {} /\ Adverts(net') = {}
  BY <1>1 DEF Adverts
<1>6. missed \in 0..2 /\ delayed \in 0..2 /\ delayed' \in 0..2
  BY <1>1 DEF DTimedInv, DTimed, Minimum
<1>7. DTimed'
  <2>1. ASSUME NEW b \in Advertisers
        PROVE  advLifetime'[b] <= Infinity /\ advTimer'[b] <= Interval(advLifetime'[b])
    <3>1. advLifetime[b] <= Infinity /\ advTimer[b] <= Interval(advLifetime[b])
      BY TimedFacts, Zenon
    <3> QED
      BY <1>2, <1>3, <1>4, <3>1
  <2>2. silentIn' \in Nat /\ missed' \in 0..2 /\ delayed' \in 0..2
    BY <1>1, <1>6 DEF DTimedInv, DTimed
  <2> QED
    BY <1>5, <2>1, <2>2, Zenon DEF DTimed
<1>8. ASSUME lifetimeTimer, solAgent \in Advertisers, missed < 2, delayed' < 2
      PROVE  silentIn > 0 /\ Room(missed)'
  <2>1. delayed < 2
    BY <1>1, <1>6, <1>8 DEF Minimum
  <2>2. silentIn > 0 /\ Room(missed)
    <3>1. ~Underway
      BY <1>5, NothingUnderway, Zenon
    <3> QED
      BY <1>8, <2>1, <3>1 DEF DTimedInv, DRoom
  <2>3. CASE solAgent = a
    <3> DEFINE old == Interval(advLifetime[a])
               new == Interval(AdvDefaultLifetime)
               w == advTimer[a]
    <3>1. delayed = 0 /\ delayed' = 1 /\ ~(advLifetime[a] < AdvDefaultLifetime)
      BY <1>1, <1>6, <1>8, <2>3 DEF Minimum
    <3>2. old \in Nat /\ w \in Nat /\ silentIn \in Nat /\ new <= old
      BY <1>2, <3>1, TimedFacts, IntervalMonotone
    <3>3. /\ Interval(advLifetime[solAgent])' = new /\ advTimer'[solAgent'] = advFirst
      BY <1>1, <1>4, <2>3 DEF Interval
    <3>4. silentIn >= w + (IF missed = 0 THEN old ELSE 0) + old
      BY <2>2, <2>3, <3>1 DEF Room
    <3>5. new \in Nat /\ advFirst \in Nat /\ advFirst < new
      BY <1>3
    <3> HIDE DEF old, new, w
    <3>6. silentIn > advFirst + (IF missed = 0 THEN new ELSE 0)
      BY <3>2, <3>4, <3>5
    <3> QED
      BY <1>1, <2>2, <3>1, <3>3, <3>6 DEF Room
  <2>4. CASE solAgent # a
    <3>1. /\ advTimer'[solAgent'] = advTimer[solAgent]
          /\ advLifetime'[solAgent'] = advLifetime[solAgent] /\ delayed' = delayed
      BY <1>1, <1>4, <1>8, <2>4
    <3> QED
      BY <1>1, <2>2, <3>1 DEF Room
  <2> QED
    BY <2>3, <2>4
<1> QED
  BY <1>1, <1>7, <1>8 DEF DRoom

\* The node's time and the agent's pass together.
LEMMA TickTime ==
  ASSUME DTimedInv, DTick
  PROVE  DTimed' /\ DRoom'
<1>1. /\ net = {} /\ net' = {} /\ \A a \in Advertisers : advTimer[a] > 0
      /\ advTimer' = [a \in Advertisers |-> advTimer[a] - 1]
      /\ lifetimeTimer => silentIn > 0
      /\ silentIn' = IF lifetimeTimer THEN silentIn - 1 ELSE silentIn
      /\ UNCHANGED <<advLifetime, missed, delayed, lifetimeTimer, solAgent>>
  BY DEF DTick, AdvElapse, solVars, dHistory
<1>2. Adverts(net) = {} /\ Adverts(net') = {}
  BY <1>1 DEF Adverts
<1>3. \A a \in Advertisers : /\ advTimer'[a] = advTimer[a] - 1 /\ advTimer[a] \in Nat
                             /\ advTimer[a] <= Interval(advLifetime[a])
                             /\ Interval(advLifetime[a]) \in Nat
  BY <1>1, TimedFacts
<1>4. DTimed'
  <2>1. ASSUME NEW b \in Advertisers
        PROVE  advLifetime'[b] <= Infinity /\ advTimer'[b] <= Interval(advLifetime'[b])
    <3>1. advLifetime'[b] = advLifetime[b] /\ advLifetime[b] <= Infinity
      BY <1>1, TimedFacts, Zenon
    <3> QED
      BY <1>3, <3>1
  <2>2. silentIn' \in Nat /\ missed' \in 0..2 /\ delayed' \in 0..2
    BY <1>1 DEF DTimedInv, DTimed
  <2> QED
    BY <1>2, <2>1, <2>2, Zenon DEF DTimed
<1>5. ASSUME lifetimeTimer, solAgent \in Advertisers, missed < 2, delayed < 2
      PROVE  silentIn' > 0 /\ Room(missed)'
  <2> DEFINE iv == Interval(advLifetime[solAgent])
             t == advTimer[solAgent]
             more == IF missed = 0 THEN iv ELSE 0
  <2>1. Room(missed)
    <3>1. ~Underway
      BY <1>2, NothingUnderway, Zenon
    <3> QED
      BY <1>5, <3>1 DEF DTimedInv, DRoom
  <2>2. /\ t \in Nat /\ t > 0 /\ iv \in Nat /\ iv >= 1 /\ silentIn \in Nat
        /\ Interval(advLifetime[solAgent])' = iv /\ advTimer'[solAgent'] = t - 1
    BY <1>1, <1>3, <1>5, TimedFacts DEF Interval
  <2>3. IF delayed = 0 THEN silentIn >= (t + more) + iv ELSE silentIn > t + more
    BY <2>1 DEF Room
  <2>4. silentIn' = silentIn - 1 /\ delayed' = delayed /\ missed' = missed
    BY <1>1, <1>5
  <2>5. more \in Nat
    BY <2>2
  <2>6. more' = more
    BY <2>2, <2>4
  <2> HIDE DEF iv, t
  <2>7. /\ silentIn' > 0
        /\ IF delayed = 0 THEN silentIn' >= ((t - 1) + more) + iv ELSE silentIn' > (t - 1) + more
    <3> HIDE DEF more
    <3> QED
      BY <2>2, <2>3, <2>4, <2>5
  <2> QED
    BY <2>2, <2>4, <2>7 DEF Room
<1> QED
  BY <1>1, <1>4, <1>5 DEF DRoom

LEMMA DTimedInvNext ==
  ASSUME LifetimesFit, DTimedInv, [DNext]_dVars
  PROVE  DTimedInv'
<1>1. DInv' /\ DClock'
  BY ClockStep, DInvNext DEF DTimedInv
<1>2. DTimed /\ DRoom /\ DInv
  BY DEF DTimedInv
<1>3. ASSUME UNCHANGED <<dClocks, missed>>, Adverts(net') = Adverts(net) PROVE DTimed' /\ DRoom'
  BY <1>2, <1>3, QuietTime
<1>4. ASSUME NEW p \in net, DGone(p) PROVE DTimed' /\ DRoom'
  <2>1. p \in Adverts(net) /\ Adverts(net') = {}
    BY <1>2, <1>4 DEF DGone, DInv, DInFlight, Adverts
  <2>2. /\ UNCHANGED dClocks
        /\ missed' = IF p.src = solAgent /\ p.dst \in {MNHome, BroadcastAddr}
                     THEN Minimum(2, missed + 1) ELSE missed
    BY <1>4 DEF DGone, dClocks, solVars, advVars
  <2> QED
    BY <2>1, <2>2, GoesTime
<1>5. ASSUME NEW p \in net, DAnswer(p) PROVE DTimed' /\ DRoom'
  <2>1. \A q \in net' : q \in net \ {p} \/ q.type = "REPLY"
    BY <1>5 DEF DAnswer, buildRegistrationReply
  <2>2. Adverts(net') = Adverts(net)
    BY <1>5, <2>1 DEF DAnswer, Adverts
  <2>3. UNCHANGED <<dClocks, missed>>
    BY <1>5 DEF DAnswer, solVars, advVars, dHistory, dClocks
  <2> QED
    BY <1>3, <2>2, <2>3
<1>6. ASSUME NEW p \in net, DAccept(p) PROVE DTimed' /\ DRoom'
  <2>1. UNCHANGED <<dClocks, missed>>
    BY <1>6 DEF DAccept, solVars, advVars, dHistory, dClocks
  <2> QED
    BY <1>3, <1>6, <2>1, PushNoAdvert DEF DAccept
<1>7. ASSUME NEW p \in net, DUnsolicited(p) PROVE DTimed' /\ DRoom'
  <2>1. Adverts(net') = Adverts(net)
    BY <1>7 DEF DUnsolicited, Adverts
  <2>2. UNCHANGED <<dClocks, missed>>
    BY <1>7 DEF DUnsolicited, solVars, advVars, dHistory, dClocks
  <2> QED
    BY <1>3, <2>1, <2>2
<1>8. ASSUME NEW p \in net, NEW a \in Advertisers, DSolicited(a, p) PROVE DTimed' /\ DRoom'
  <2>1. net = {p} /\ p.type = "SOLICITATION" /\ AdvSolicited(a, p)
    BY <1>8, Zenon DEF DSolicited, AdvSolicited
  <2>2. Adverts(net) = {}
    BY <2>1 DEF Adverts
  <2>3. UNCHANGED <<dClocks, missed>>
    BY <1>8, Zenon DEF DSolicited, AdvSolicited, solVars, dHistory, dClocks
  <2>4. CASE p.sum = "ok"
    <3>1. advSend(a, {p}, p.src)
      BY <2>1, <2>4, Zenon DEF AdvSolicited
    <3>2. \A q \in Adverts(net') : q.src = a /\ q.lifetime = advLifetime[a]
      BY <2>2, <3>1, SentLifetime, ZenonT(60)
    <3>3. advLifetime[a] \in Nat
      BY TimedFacts, Zenon
    <3>4. \A q \in Adverts(net') :
            q.lifetime \in Nat /\ (q.src \in Advertisers => q.lifetime = advLifetime[q.src])
      BY <3>2, <3>3
    <3> QED
      BY <1>2, <2>2, <2>3, <3>4, ComesTime, Zenon
  <2>5. CASE p.sum # "ok"
    <3>1. Adverts(net') = Adverts(net)
      BY <2>1, <2>2, <2>5 DEF AdvSolicited, Adverts
    <3> QED
      BY <1>3, <2>3, <3>1
  <2> QED
    BY <2>4, <2>5
<1>9. ASSUME NEW a \in Advertisers, NEW l \in AdvRegistrations, DSetRegistration(a, l)
      PROVE  DTimed' /\ DRoom'
  <2>1. UNCHANGED <<dClocks, missed>> /\ net' = net
    BY <1>9 DEF DSetRegistration, AdvSetRegistration, solVars, dHistory, dClocks
  <2> QED
    BY <1>3, <2>1
<1>10. ASSUME NEW p \in MNAdverts, DPut(p) PROVE DTimed' /\ DRoom'
  <2>1. p.src \notin Advertisers /\ p.lifetime \in Nat
    BY DAssumption, SolAssumption, PacketAssumption DEF AdvertPacket
  <2>2. Adverts(net) = {} /\ \A q \in Adverts(net') : q = p
    BY <1>10 DEF DPut, Adverts
  <2>3. UNCHANGED <<dClocks, missed>>
    BY <1>10 DEF DPut, solVars, advVars, dHistory, dClocks
  <2> QED
    BY <1>2, <2>1, <2>2, <2>3, ComesTime
<1>11. ASSUME NEW link \in {"home", "foreign"}, NEW o \in DOthers, DOther(link, o)
       PROVE  DTimed' /\ DRoom'
  <2>1. UNCHANGED <<dClocks, missed>>
    BY <1>11 DEF DOther, solVars, advVars, dHistory, dClocks
  <2>2. Adverts(net') = Adverts(net)
    BY <1>11 DEF DOther, Adverts, buildRouterSolicitation
  <2> QED
    BY <1>3, <2>1, <2>2
<1>12. ASSUME DExpire \/ DNodeRestart PROVE DTimed' /\ DRoom'
  <2>1. /\ UNCHANGED <<net, advLifetime, advTimer>> /\ lifetimeTimer' = FALSE
        /\ missed' = 0 /\ delayed' = 0 /\ silentIn' \in {0, silentIn}
    BY <1>12 DEF DExpire, DNodeRestart, SolRunTimer, MNRestart, dNoHistory, mnVars, advVars
  <2> QED
    BY <1>2, <2>1, EndTime, Zenon
<1>13. ASSUME DUser PROVE DTimed' /\ DRoom'
  <2>1. UNCHANGED <<dClocks, missed>>
    BY <1>13 DEF DUser, SolSetInterval, SolSolicit, MNCarry, solVars, advVars, dHistory, dClocks
  <2>2. Adverts(net') = Adverts(net)
    BY <1>13 DEF DUser, SolSetInterval, SolSolicit, MNCarry, mnVars, Adverts, buildRouterSolicitation
  <2> QED
    BY <1>3, <2>1, <2>2
<1>14. CASE UNCHANGED dVars
  <2>1. UNCHANGED <<dClocks, missed>> /\ net' = net
    BY <1>14 DEF dVars, mnVars, solVars, advVars, dHistory, dClocks
  <2> QED
    BY <1>1, <1>3, <2>1 DEF DTimedInv
<1>15. CASE DNext
  <2>1. DTimed' /\ DRoom'
    BY <1>4, <1>5, <1>6, <1>7, <1>8, <1>9, <1>10, <1>11, <1>12, <1>13, <1>15,
       HearTime, AdvertiseTime, SetLifetimeTime, RestartTime, TickTime, ZenonT(60) DEF DNext
  <2> QED
    BY <1>1, <2>1 DEF DTimedInv
<1> QED
  BY <1>14, <1>15

(***************************************************************************)
(* The node gives up only an agent two of whose advertisements failed to   *)
(* prolong the connection, for every lifetime, jitter and number of agents *)
(* and however its advertisements are lost, as long as the lifetimes fit   *)
(* the field they are sent in.                                             *)
(***************************************************************************)
THEOREM DSilenceIsReal ==
  ASSUME LifetimesFit
  PROVE  DSpec => SilenceIsReal
<1> DEFINE A == DExpire /\ solAgent \in Advertisers => missed = 2 \/ delayed = 2
<1>1. DStart => DTimedInv
  <2> SUFFICES ASSUME DStart PROVE DTimedInv
    OBVIOUS
  <2>1. DInv /\ DClock
    BY DInvInit, ClockInit
  <2>2. DTimed
    <3>1. AdvDefaultLifetime \in Nat /\ AdvDefaultLifetime >= 12 /\ AdvDefaultLifetime <= Infinity
      BY PacketAssumption DEF LifetimesFit
    <3>2. advFirst \in Nat /\ Interval(AdvDefaultLifetime) \in Nat
          /\ advFirst < Interval(AdvDefaultLifetime)
      BY <3>1, FirstIsSooner, IntervalThird
    <3> QED
      BY <3>1, <3>2 DEF DStart, AdvInit, DTimed, Adverts
  <2>3. DRoom
    BY DEF DStart, SolInit, DRoom
  <2> QED
    BY <2>1, <2>2, <2>3 DEF DTimedInv
<1>2. DTimedInv /\ [DNext]_dVars => DTimedInv'
  BY DTimedInvNext
<1>3. DTimedInv => A
  <2> SUFFICES ASSUME DTimedInv, DExpire, solAgent \in Advertisers, missed # 2, delayed # 2
               PROVE  FALSE
    OBVIOUS
  <2>1. lifetimeTimer /\ silentIn = 0
    BY DEF DExpire, SolRunTimer
  <2>2. missed < 2 /\ delayed < 2
    BY DEF DTimedInv, DTimed
  <2>3. silentIn > 0
    BY <2>1, <2>2 DEF DTimedInv, DRoom
  <2> QED
    BY <2>1, <2>3
<1>4. DTimedInv => [A]_dVars
  BY <1>3
<1> HIDE DEF A
<1>5. DSpec => [][A]_dVars
  BY <1>1, <1>2, <1>4, PTL DEF DSpec
<1> QED
  BY <1>5 DEF SilenceIsReal, A

DSilent == silentIn \in 0..(Infinity * AdvSecond)

DTyped == MNInv /\ DInv /\ DClock /\ DSilent

LEMMA AdvertType ==
  ASSUME DTyped, NEW a \in Advertisers, NEW destination \in Addr
  PROVE  advMessage(a, destination) \in AdvertPacket
<1>1. /\ advLifetime[a] \in Nat /\ advRegistration[a] \in Nat /\ advSequence[a] \in Nat
  BY PacketAssumption DEF DTyped, DClock, DInv, DCounted, UInt
<1>2. htons(advLifetime[a]) \in 0..Infinity /\ htons(advRegistration[a]) \in 0..Infinity
  BY <1>1, HtonsRange
<1>3. advSequence[a] % (SequenceMax + 1) \in 0..SequenceMax
  BY <1>1, PacketAssumption
<1>4. AdvLinkOf[a] \in Link /\ AdvCareOf[a] \in Addr /\ a \in Addr
  BY AdvAssumption
<1> QED
  BY <1>2, <1>3, <1>4 DEF advMessage, buildRouterAdvertisement, AdvertPacket, Checksum

\* Steps of the agents and of the links: of the node's state only the packets
\* in flight change.
LEMMA OnlyNet ==
  ASSUME MNInv, NetTyped(net'), UNCHANGED <<mnRest, solVars>>
  PROVE  MNInv'
<1>1. NodeTyped /\ SolTyped
  BY TypeSplit DEF MNInv
<1>2. NodeTyped' /\ SolTyped'
  BY <1>1 DEF NodeTyped, SolTyped, mnRest, solVars
<1>3. MNTypeOK'
  BY <1>2, TypeSplit, PTL
<1> QED
  BY <1>3 DEF MNInv, ElementsAgree, SilenceIsNoticed, mnRest, solVars

LEMMA NodeStep ==
  ASSUME DTyped, [DNext]_dVars
  PROVE  MNInv'
<1>1. MNInv /\ NetTyped(net)
  BY TypeSplit DEF DTyped, MNInv, NodeTyped
<1>2. ASSUME NEW p \in net, DHear(p) PROVE MNInv'
  <2>1. simple_action(p)
    BY <1>2, Zenon DEF DHear, simple_action
  <2>2. p \in MNPacket
    BY <1>1, Zenon DEF NetTyped
  <2> QED
    BY <1>1, <2>1, <2>2, MNInvAdvert, Zenon
<1>3. ASSUME NEW p \in net, DGone(p) \/ DUnsolicited(p) PROVE MNInv'
  <2>1. net' = net \ {p} /\ UNCHANGED <<mnRest, solVars>>
    BY <1>3 DEF DGone, DUnsolicited
  <2> QED
    BY <1>1, <2>1, OnlyNet DEF NetTyped
<1>4. ASSUME NEW p \in net, DAnswer(p) PROVE MNInv'
  <2>1. p \in RequestPacket
    <3>1. p.type = "REGISTRATION" /\ p \in MNPacket
      BY <1>1, <1>4 DEF DAnswer, NetTyped
    <3> QED
      BY <3>1 DEF MNPacket, RequestPacket, ReplyPacket, AdvertPacket, SolicitationPacket
  <2> DEFINE m == buildRegistrationReply(
                    UDPIP(p.link, p.dst, RegistrationPort, MNHome, p.sport),
                    p.lifetime, 0, p.home, p.homeAgent, p.identification)
  <2>2. m \in ReplyPacket
    <3>1. /\ p.link \in Link /\ p.dst \in Addr /\ p.sport \in Nat /\ p.lifetime \in Nat
          /\ p.home \in Addr /\ p.homeAgent \in Addr /\ p.identification \in Id
      BY <2>1, PacketAssumption DEF RequestPacket
    <3>2. RegistrationPort \in Nat /\ MNHome \in Addr /\ 0 \in Nat
      BY MNAssumption DEF RegistrationPort
    <3> QED
      BY <3>1, <3>2, ReplyType, ZenonT(60)
  <2>3. net' = (net \ {p}) \cup {m} /\ UNCHANGED <<mnRest, solVars>>
    BY <1>4 DEF DAnswer
  <2> HIDE DEF m
  <2>4. NetTyped(net')
    BY <1>1, <2>2, <2>3 DEF NetTyped, MNPacket
  <2> QED
    BY <1>1, <2>3, <2>4, OnlyNet
<1>5. ASSUME NEW p \in net, DAccept(p) PROVE MNInv'
  BY <1>1, <1>5, MNInvPush DEF DAccept
<1>6. ASSUME NEW a \in Advertisers, NEW received, NEW destination \in Addr,
             advSend(a, received, destination), UNCHANGED <<mnRest, solVars>>
      PROVE  MNInv'
  <2> DEFINE m == advMessage(a, destination)
  <2>1. m \in MNPacket
    BY AdvertType DEF MNPacket
  <2>2. net' = (net \ received) \cup {m}
    BY <1>6 DEF advSend
  <2> HIDE DEF m
  <2>3. NetTyped(net')
    BY <1>1, <2>1, <2>2 DEF NetTyped
  <2> QED
    BY <1>1, <1>6, <2>3, OnlyNet
<1>7. ASSUME NEW p \in net, NEW a \in Advertisers, DSolicited(a, p) PROVE MNInv'
  <2>1. p \in SolicitationPacket
    <3>1. p.type = "SOLICITATION" /\ p \in MNPacket
      BY <1>1, <1>7 DEF DSolicited, AdvSolicited, NetTyped
    <3> QED
      BY <3>1 DEF MNPacket, RequestPacket, ReplyPacket, AdvertPacket, SolicitationPacket
  <2>2. CASE p.sum = "ok"
    <3>1. p.src \in Addr
      BY <2>1 DEF SolicitationPacket
    <3>2. advSend(a, {p}, p.src) /\ UNCHANGED <<mnRest, solVars>>
      BY <1>7, <2>2 DEF DSolicited, AdvSolicited
    <3> QED
      BY <1>6, <3>1, <3>2
  <2>3. CASE p.sum # "ok"
    <3>1. net' = net \ {p} /\ UNCHANGED <<mnRest, solVars>>
      BY <1>7, <2>3 DEF DSolicited, AdvSolicited
    <3> QED
      BY <1>1, <3>1, OnlyNet DEF NetTyped
  <2> QED
    BY <2>2, <2>3
<1>8. ASSUME NEW a \in Advertisers, DAdvertise(a) PROVE MNInv'
  <2>1. advSend(a, {}, BroadcastAddr) /\ UNCHANGED <<mnRest, solVars>>
    BY <1>8 DEF DAdvertise, AdvRunTimer
  <2> QED
    BY <1>6, <2>1, PacketAssumption
<1>9. ASSUME NEW a \in Advertisers, NEW s, DRestart(a) \/ DSetLifetime(a, s) \/ DSetRegistration(a, s)
      PROVE  MNInv'
  <2>1. net' = net /\ UNCHANGED <<mnRest, solVars>>
    BY <1>9, Zenon
       DEF DRestart, DSetLifetime, DSetRegistration, AdvRestart, AdvSetLifetime, AdvSetRegistration
  <2> QED
    BY <1>1, <2>1, OnlyNet
<1>10. ASSUME NEW p \in MNAdverts, DPut(p) PROVE MNInv'
  <2>1. p \in MNPacket
    BY SolAssumption DEF MNPacket
  <2>2. net' = {p} /\ UNCHANGED <<mnRest, solVars>>
    BY <1>10 DEF DPut
  <2> QED
    BY <1>1, <2>1, <2>2, OnlyNet DEF NetTyped
<1>11. ASSUME NEW link \in {"home", "foreign"}, NEW o \in DOthers, DOther(link, o) PROVE MNInv'
  <2> DEFINE m == buildRouterSolicitation(link, o, BroadcastAddr)
  <2>1. m \in SolicitationPacket
    BY DAssumption, PacketAssumption DEF buildRouterSolicitation, SolicitationPacket, Link, Checksum
  <2>2. net' = {m} /\ UNCHANGED <<mnRest, solVars>>
    BY <1>11 DEF DOther
  <2> HIDE DEF m
  <2>3. NetTyped(net')
    BY <2>1, <2>2 DEF NetTyped, MNPacket
  <2> QED
    BY <1>1, <2>2, <2>3, OnlyNet
<1>12. ASSUME DExpire \/ DNodeRestart PROVE MNInv'
  <2>1. SolRunTimer \/ MNRestart
    BY <1>12 DEF DExpire, DNodeRestart
  <2> QED
    BY <1>1, <2>1, MNInvStep DEF MNStep
<1>13. ASSUME DUser PROVE MNInv'
  <2>1. MNStep \/ MNEnv
    BY <1>13, ZenonT(60) DEF DUser, MNStep, MNEnv
  <2> QED
    BY <1>1, <2>1, MNInvStep, MNInvEnv
<1>14. ASSUME DTick \/ UNCHANGED dVars PROVE MNInv'
  <2>1. net' = net /\ UNCHANGED <<mnRest, solVars>>
    BY <1>14 DEF DTick, AdvElapse, dVars, mnVars, mnRest
  <2> QED
    BY <1>1, <2>1, OnlyNet
<1>15. CASE DNext
  BY <1>2, <1>3, <1>4, <1>5, <1>7, <1>8, <1>9, <1>10, <1>11, <1>12, <1>13, <1>14, <1>15, ZenonT(60)
     DEF DNext
<1> QED
  BY <1>14, <1>15

\* raiseLifetime: what the timer is set to came through a 16-bit field.
LEMMA SilentStep ==
  ASSUME DTyped, [DNext]_dVars
  PROVE  DSilent'
<1>1. DSilent /\ NetTyped(net)
  BY TypeSplit DEF DTyped, MNInv, NodeTyped
<1>2. Infinity \in Nat /\ AdvSecond \in Nat /\ Infinity * AdvSecond \in Nat
  BY PacketAssumption, AdvAssumption
<1>3. ASSUME UNCHANGED silentIn PROVE DSilent'
  BY <1>1, <1>3 DEF DSilent
<1>4. ASSUME NEW p \in net, DHear(p) PROVE DSilent'
  <2>1. CASE UNCHANGED silentIn
    BY <1>3, <2>1
  <2>2. CASE dRaise(p)
    <3>1. p.type = "ADVERTISEMENT" /\ p \in MNPacket
      BY <1>1, <1>4, ZenonT(60)
         DEF NetTyped, DHear, SolRefresh, SolFirstHome, SolMove, SolAgentReset, SolSinkhole, solGetsAdvert
    <3>2. p.lifetime \in 0..Infinity
      BY <3>1 DEF MNPacket, RequestPacket, ReplyPacket, AdvertPacket, SolicitationPacket
    <3>3. p.lifetime * AdvSecond \in 0..(Infinity * AdvSecond)
      <4>1. PICK d \in Nat : Infinity = p.lifetime + d
        <5>1. Infinity - p.lifetime \in Nat /\ Infinity = p.lifetime + (Infinity - p.lifetime)
          BY <1>2, <3>2
        <5> QED
          BY <5>1
      <4>2. Infinity * AdvSecond = p.lifetime * AdvSecond + d * AdvSecond
        BY <1>2, <3>2, <4>1
      <4>3. p.lifetime * AdvSecond \in Nat /\ d * AdvSecond \in Nat
        BY <1>2, <3>2, <4>1
      <4> QED
        BY <1>2, <4>2, <4>3
    <3> QED
      BY <2>2, <3>3 DEF dRaise, DSilent
  <2> QED
    BY <1>4, <2>1, <2>2, ZenonT(60) DEF DHear
<1>5. ASSUME DNodeRestart PROVE DSilent'
  BY <1>2, <1>5 DEF DNodeRestart, DSilent
<1>6. ASSUME DTick PROVE DSilent'
  BY <1>1, <1>2, <1>6 DEF DTick, DSilent
<1>7. ASSUME \/ \E p \in net : \/ DGone(p) \/ DAnswer(p) \/ DAccept(p) \/ DUnsolicited(p)
                               \/ \E a \in Advertisers : DSolicited(a, p)
             \/ \E a \in Advertisers :
                  \/ DAdvertise(a) \/ DRestart(a)
                  \/ \E s \in AdvLifetimes : DSetLifetime(a, s)
                  \/ \E l \in AdvRegistrations : DSetRegistration(a, l)
             \/ \E p \in MNAdverts : DPut(p)
             \/ \E link \in {"home", "foreign"}, o \in DOthers : DOther(link, o)
             \/ DExpire \/ DUser \/ UNCHANGED dVars
      PROVE  DSilent'
  BY <1>3, <1>7, Zenon
     DEF DGone, DAnswer, DAccept, DUnsolicited, DSolicited, DAdvertise, DRestart, DSetLifetime,
         DSetRegistration, DPut, DOther, DExpire, DUser, dVars
<1>8. CASE DNext
  BY <1>4, <1>5, <1>6, <1>7, <1>8, ZenonT(60) DEF DNext
<1> QED
  BY <1>7, <1>8

LEMMA DTypedInit ==
  DStart => DTyped
<1> SUFFICES ASSUME DStart PROVE DTyped
  OBVIOUS
<1>1. MNInv
  BY MNInvInit DEF DStart, MNStart
<1>2. DInv
  BY DInvInit
<1>3. DClock
  BY ClockInit
<1>4. DSilent
  BY PacketAssumption, AdvAssumption DEF DStart, DSilent
<1> QED
  BY <1>1, <1>2, <1>3, <1>4 DEF DTyped

LEMMA DTypedInvariant ==
  DSpec => []DTyped
<1>1. ASSUME DTyped, [DNext]_dVars PROVE DTyped'
  <2>1. DInv'
    BY <1>1, DInvNext DEF DTyped
  <2> QED
    BY <1>1, <2>1, NodeStep, ClockStep, SilentStep DEF DTyped
<1>2. DTyped /\ [DNext]_dVars => DTyped'
  BY <1>1
<1> QED
  BY <1>2, DTypedInit, PTL DEF DSpec

(***************************************************************************)
(* The elements of the node and of the agents keep their variables in      *)
(* their sets: no timer is set to a negative time, no sequence number is   *)
(* above the largest one, and the node never waits longer than the largest *)
(* lifetime on the wire.                                                   *)
(***************************************************************************)
THEOREM DTypeCorrect ==
  DSpec => []DTypeOK
<1>1. DTyped => DTypeOK
  <2> SUFFICES ASSUME DTyped PROVE DTypeOK
    OBVIOUS
  <2>1. MNTypeOK
    BY DEF DTyped, MNInv
  <2>2. \A a \in Advertisers : /\ advSequence[a] \in 0..SequenceMax
                               /\ advLifetime[a] \in UInt /\ advTimer[a] \in Nat
    BY DEF DTyped, DInv, DCounted, DClock
  <2> QED
    BY <2>1, <2>2 DEF DTyped, DSilent, DTypeOK
<1> QED
  BY <1>1, DTypedInvariant, PTL
============================================================================
