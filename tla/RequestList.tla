---------------------------- MODULE RequestList ----------------------------
(***************************************************************************)
(* src/elements/lists/RequestList.hh: the requests a foreign agent or a    *)
(* mobile node waits for an answer to.  An item is a record with at least  *)
(* the fields identification, requestedLifetime, remainingLifetime and     *)
(* waitingTime.                                                            *)
(***************************************************************************)
EXTENDS MobileIPPackets, Vectors

\* remove(identification) takes the first request of that identification off
\* the list and returns it; it throws when there is none.
RequestsOf(v, id) == {i \in DOMAIN v : v[i].identification = id}

foundRequest(v, id) == v[FirstOf(RequestsOf(v, id))]

removeRequest(v, id) == EraseAt(v, FirstOf(RequestsOf(v, id)))

\* Deregistrations and requests without limit are not counted down.
CountsDown(r) == r.requestedLifetime \notin {0, Infinity}

\* One second passes: a request whose lifetime was already 0 is erased.
decreaseRequests(v) ==
  LET w == [i \in DOMAIN v |->
              IF CountsDown(v[i])
              THEN [v[i] EXCEPT !.remainingLifetime = MinusOne(@)]
              ELSE v[i]]
  IN  Retain(w, {i \in DOMAIN v : CountsDown(v[i]) => v[i].remainingLifetime # 0})

\* Mutated form: a request without a lifetime to count down does not age.
Waited_idle(v) ==
  [i \in DOMAIN v |-> IF CountsDown(v[i]) THEN [v[i] EXCEPT !.waitingTime = @ + 1] ELSE v[i]]

\* removeTimedOutRequests makes every request one second older, keeps those
\* that waited no longer than the limit and returns the others.
Waited(v) == [i \in DOMAIN v |-> [v[i] EXCEPT !.waitingTime = @ + 1]]

\* Mutated forms: the age is compared before the second is added.
stillWaiting_late(v, seconds) ==
  Retain(Waited(v), {i \in DOMAIN v : v[i].waitingTime <= seconds})

timedOut_late(v, seconds) ==
  Retain(Waited(v), {i \in DOMAIN v : v[i].waitingTime > seconds})

stillWaiting(v, seconds) ==
  Retain(Waited(v), {i \in DOMAIN v : v[i].waitingTime + 1 <= seconds})

timedOut(v, seconds) ==
  Retain(Waited(v), {i \in DOMAIN v : v[i].waitingTime + 1 > seconds})
============================================================================
