--------------------------- MODULE BindingLeases ---------------------------
(***************************************************************************)
(* What a home agent promises, without its vector: it holds leases, each   *)
(* of a home address, a care-of address and the seconds left, at most one  *)
(* for a pair.  Leases are granted, renewed, given back, aged by the       *)
(* second, and lost when the agent is started again.  HomeAgent implements *)
(* this specification.                                                     *)
(***************************************************************************)
EXTENDS Naturals

CONSTANTS
  Holder,   \* home addresses and care-of addresses
  Forever   \* the number of seconds that is never counted down

VARIABLE leases

Lease == [homeAddress: Holder, careOfAddress: Holder, remainingLifetime: 1..Forever]

LeasesOf(home, careOf) ==
  {b \in leases : b.homeAddress = home /\ b.careOfAddress = careOf}

LeasesStart == leases = {}

\* A new lease of the pair takes the place of the one it had, if any.
Grant(home, careOf, lifetime) ==
  leases' = (leases \ LeasesOf(home, careOf)) \cup
              {[homeAddress |-> home, careOfAddress |-> careOf,
                remainingLifetime |-> lifetime]}

Release(home, careOf) == leases' = leases \ LeasesOf(home, careOf)

ReleaseAll(home) == leases' = {b \in leases : b.homeAddress # home}

\* A second passes: the leases of one second end, all others lose one, but
\* for those that are for ever.
SecondLess(b) ==
  IF b.remainingLifetime = Forever THEN b
  ELSE [b EXCEPT !.remainingLifetime = @ - 1]

Outlasts(b) == b.remainingLifetime = Forever \/ b.remainingLifetime > 1

Second == leases' = {SecondLess(b) : b \in {x \in leases : Outlasts(x)}}

Forget == leases' = {}

LeasesNext ==
  \/ \E home, careOf \in Holder, lifetime \in 1..Forever : Grant(home, careOf, lifetime)
  \/ \E home, careOf \in Holder : Release(home, careOf)
  \/ \E home \in Holder : ReleaseAll(home)
  \/ Second
  \/ Forget

LeasesSpec == LeasesStart /\ [][LeasesNext]_leases
============================================================================
