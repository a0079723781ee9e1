---------------------------- MODULE VisitorList ----------------------------
(***************************************************************************)
(* src/elements/lists/VisitorList.hh: the mobile nodes a foreign agent     *)
(* serves.                                                                 *)
(***************************************************************************)
EXTENDS MobileIPPackets, Vectors

VisitorListItem ==
  [MNhome: Addr, UDPSourcePort: Nat, MNhomeAgent: Addr,
   requestedLifetime: UInt, remainingLifetime: UInt]

VisitsOf(v, home, homeAgent) ==
  {i \in DOMAIN v : v[i].MNhome = home /\ v[i].MNhomeAgent = homeAgent}

hasVisitor(v, home, homeAgent) == VisitsOf(v, home, homeAgent) # {}

removeVisitor(v, home, homeAgent) == Retain(v, DOMAIN v \ VisitsOf(v, home, homeAgent))

setVisitorRequestedLifetime(v, home, homeAgent, lifetime) ==
  [i \in DOMAIN v |-> IF i \in VisitsOf(v, home, homeAgent)
                      THEN [v[i] EXCEPT !.requestedLifetime = lifetime]
                      ELSE v[i]]

\* Mutated form: a renewed visit keeps what it had left.
resetVisitorRemainingLifetime_kept(v, home, homeAgent) == v

resetVisitorRemainingLifetime(v, home, homeAgent) ==
  [i \in DOMAIN v |-> IF i \in VisitsOf(v, home, homeAgent)
                      THEN [v[i] EXCEPT !.remainingLifetime = v[i].requestedLifetime]
                      ELSE v[i]]

\* One second passes: a visit without limit stays, any other loses one in
\* unsigned arithmetic, and what has just become zero is erased.
OlderVisit(x) ==
  IF x.requestedLifetime = Infinity
  THEN x
  ELSE [x EXCEPT !.remainingLifetime = MinusOne(@)]

\* Mutated form: zero is looked for before the second is taken off.
decreaseVisitors_late(v) ==
  LET w == [i \in DOMAIN v |-> OlderVisit(v[i])]
  IN  Retain(w, {i \in DOMAIN v : v[i].requestedLifetime = Infinity
                                  \/ v[i].remainingLifetime # 0})

decreaseVisitors(v) ==
  LET w == [i \in DOMAIN v |-> OlderVisit(v[i])]
  IN  Retain(w, {i \in DOMAIN v : v[i].requestedLifetime = Infinity
                                  \/ w[i].remainingLifetime # 0})

\* No node of one home agent is in the list twice.
NoDuplicateVisits(v) ==
  \A i, j \in DOMAIN v :
    v[i].MNhome = v[j].MNhome /\ v[i].MNhomeAgent = v[j].MNhomeAgent => i = j

\* A visit has between one second and what was granted left, and one granted
\* without limit has not run down.
Present(x) ==
  /\ x.requestedLifetime \in 1..Infinity
  /\ x.remainingLifetime \in 1..x.requestedLifetime
  /\ x.requestedLifetime = Infinity => x.remainingLifetime = Infinity

AllPresent(v) == \A i \in DOMAIN v : Present(v[i])
============================================================================
