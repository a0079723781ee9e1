------------------------ MODULE MobilityBindingList ------------------------
(***************************************************************************)
(* src/elements/lists/MobilityBindingList.hh: the operations of the home   *)
(* agent's list of bindings, as functions of the vector.                   *)
(***************************************************************************)
EXTENDS MobileIPPackets, Vectors

MobilityBindingListItem ==
  [homeAddress: Addr, careOfAddress: Addr, remainingLifetime: UInt]

\* The positions of the bindings of one home address and one care-of address.
BindingsOf(v, home, careOf) ==
  {i \in DOMAIN v : v[i].homeAddress = home /\ v[i].careOfAddress = careOf}

HomeBindings(v, home) == {i \in DOMAIN v : v[i].homeAddress = home}

removeBinding(v, home, careOf) == Retain(v, DOMAIN v \ BindingsOf(v, home, careOf))

removeHome(v, home) == Retain(v, DOMAIN v \ HomeBindings(v, home))

\* Mutated forms: an entry that exists is not looked for; it is erased and
\* pushed to the back.
addBinding_push(v, home, careOf, lifetime) ==
  Append(v, [homeAddress |-> home, careOfAddress |-> careOf, remainingLifetime |-> lifetime])

addBinding_back(v, home, careOf, lifetime) ==
  addBinding_push(removeBinding(v, home, careOf), home, careOf, lifetime)

\* The first entry of the pair is updated where it stands, or a new one is
\* pushed to the back.
addBinding(v, home, careOf, lifetime) ==
  LET I == BindingsOf(v, home, careOf)
  IN  IF I # {}
      THEN [v EXCEPT ![FirstOf(I)].remainingLifetime = lifetime]
      ELSE Append(v, [homeAddress |-> home, careOfAddress |-> careOf,
                      remainingLifetime |-> lifetime])

\* Mutated form: the last second is never counted.
Aged_lingers(b) ==
  IF b.remainingLifetime \in {1, Infinity}
  THEN b
  ELSE [b EXCEPT !.remainingLifetime = MinusOne(@)]

\* One second passes: an infinite lifetime stays, any other loses one in
\* unsigned arithmetic, and what has just become zero is erased.
Aged(b) ==
  IF b.remainingLifetime = Infinity
  THEN b
  ELSE [b EXCEPT !.remainingLifetime = MinusOne(@)]

\* Mutated form: zero is looked for before the second is taken off.
decreaseBindings_late(v) ==
  LET w == [i \in DOMAIN v |-> Aged(v[i])]
  IN  Retain(w, {i \in DOMAIN v : v[i].remainingLifetime # 0})

decreaseBindings(v) ==
  LET w == [i \in DOMAIN v |-> Aged(v[i])]
  IN  Retain(w, {i \in DOMAIN w : w[i].remainingLifetime # 0})

isMobileBinded(v, home) == HomeBindings(v, home) # {}

\* The first, that is the oldest, binding of a home address decides.
getCareOfAddress(v, home) ==
  IF isMobileBinded(v, home)
  THEN v[FirstOf(HomeBindings(v, home))].careOfAddress
  ELSE AnyAddr

\* No two entries are of the same home address and care-of address.
NoDuplicatePairs(v) ==
  \A i, j \in DOMAIN v :
    v[i].homeAddress = v[j].homeAddress /\ v[i].careOfAddress = v[j].careOfAddress
    => i = j

\* Every entry has seconds left, and no more than a packet can carry.
AllAlive(v) == \A i \in DOMAIN v : v[i].remainingLifetime \in 1..Infinity
============================================================================
