---------------------------- MODULE CommonProofs ----------------------------
(***************************************************************************)
(* What the proofs about the elements share: what Retain does, for every   *)
(* vector and every set of positions, what the builders of packets make,   *)
(* and what the operations on the list of bindings and on the list of      *)
(* visitors do to every list.                                              *)
(***************************************************************************)
EXTENDS MobilityBindingList, VisitorList, FiniteSetTheorems, TLAPS

\* A leaf goes to the SMT solver, with a minute, unless it names a prover; then
\* to Zenon, and to the SMT solver once more.
USE SMTT(60), ZenonT(30), SMTT(90)

(***************************************************************************)
(* Every set of natural numbers that has a member has a least one.         *)
(***************************************************************************)
LEMMA LeastMember ==
  ASSUME NEW T \in SUBSET Nat, T # {}
  PROVE  \E x \in T : \A y \in T : x <= y
<1> DEFINE R == OpToRel(<, Nat)
<1>1. IsWellFoundedOn(R, Nat)
  BY NatLessThanWellFounded, Zenon
<1> HIDE DEF R
<1>2. PICK x \in T : \A y \in T : ~(<<y, x>> \in R)
  BY <1>1, WFMin, Zenon
<1>3. ASSUME NEW y \in T
      PROVE  x <= y
  <2>1. ~(<<y, x>> \in R)
    BY <1>2
  <2>2. ~(y < x)
    BY <2>1 DEF R, OpToRel
  <2> QED
    BY <2>2
<1> QED
  BY <1>3

(***************************************************************************)
(* Every set of positions 1..n has an increasing enumeration, so the       *)
(* CHOOSE in Ascending always finds one.  By the least n for which it      *)
(* could fail: the enumeration of K \ {n} is extended by n.                *)
(***************************************************************************)
LEMMA AscendingExists ==
  ASSUME NEW n \in Nat, NEW K \in SUBSET (1..n)
  PROVE  \E m \in [1..Cardinality(K) -> K] : IsAscending(m, K)
<1> DEFINE Fails(x) == \E L \in SUBSET (1..x) :
                          ~ \E m \in [1..Cardinality(L) -> L] : IsAscending(m, L)
           Bad == {x \in Nat : Fails(x)}
<1>1. SUFFICES ASSUME Bad # {} PROVE FALSE
  <2>1. n \notin Bad
    BY <1>1, Zenon
  <2> QED
    BY <2>1
<1>2. PICK x \in Bad : \A y \in Bad : x <= y
  <2>1. Bad \in SUBSET Nat
    OBVIOUS
  <2> HIDE DEF Bad
  <2> QED
    BY <1>1, <2>1, LeastMember
<1>3. PICK L \in SUBSET (1..x) : ~ \E m \in [1..Cardinality(L) -> L] : IsAscending(m, L)
  BY <1>2
<1>4. x \in Nat
  BY <1>2
<1> HIDE DEF Bad
<1>5. CASE x \notin L
  <2>1. CASE x = 0
    <3>1. L = {}
      BY <1>3, <2>1
    <3>2. Cardinality(L) = 0
      BY <3>1, FS_EmptySet
    <3> DEFINE m == [i \in 1..0 |-> 0]
    <3>3. m \in [1..Cardinality(L) -> L] /\ IsAscending(m, L)
      BY <3>1, <3>2 DEF IsAscending
    <3> QED
      BY <1>3, <3>3, Zenon
  <2>2. CASE x # 0
    <3>1. x - 1 \in Nat /\ L \in SUBSET (1..(x-1))
      BY <1>3, <1>4, <1>5, <2>2
    <3>2. x - 1 \in Bad
      BY <1>3, <3>1 DEF Bad
    <3> QED
      BY <1>2, <1>4, <3>2
  <2> QED
    BY <2>1, <2>2
<1>6. CASE x \in L
  <2>1. x # 0 /\ x - 1 \in Nat
    BY <1>3, <1>4, <1>6
  <2> DEFINE M == L \ {x}
             c == Cardinality(M)
  <2>2. M \in SUBSET (1..(x-1))
    BY <1>3, <1>4
  <2>3. x - 1 \notin Bad
    BY <1>2, <1>4, <2>1
  <2>4. PICK m \in [1..c -> M] : IsAscending(m, M)
    BY <2>1, <2>2, <2>3, Zenon DEF Bad
  <2>5. IsFiniteSet(L)
    <3>1. IsFiniteSet(1..x)
      BY <1>4, FS_Interval
    <3> QED
      BY <1>3, <3>1, FS_Subset, Zenon
  <2>6. c \in Nat /\ Cardinality(L) = c + 1
    <3>1. IsFiniteSet(M)
      BY <2>5, FS_RemoveElement
    <3>2. c \in Nat
      BY <3>1, FS_CardinalityType
    <3>3. Cardinality(L) \in Nat
      BY <2>5, FS_CardinalityType
    <3>4. c = Cardinality(L) - 1
      BY <1>6, <2>5, FS_RemoveElement, Zenon
    <3> QED
      BY <3>2, <3>3, <3>4
  <2> DEFINE mm == [i \in 1..(c+1) |-> IF i = c + 1 THEN x ELSE m[i]]
  <2> HIDE DEF c
  <2>7. mm \in [1..(c+1) -> L]
    BY <1>6, <2>4, <2>6
  <2>8. \A k \in L : \E i \in 1..(c+1) : mm[i] = k
    <3>1. ASSUME NEW k \in L, k # x
          PROVE  \E i \in 1..(c+1) : mm[i] = k
      <4>1. PICK i \in 1..c : m[i] = k
        BY <2>4, <3>1, Zenon DEF IsAscending, c
      <4> QED
        BY <4>1, <2>6
    <3>2. mm[c+1] = x
      BY <2>6
    <3> QED
      BY <3>1, <3>2, <2>6
  <2>9. \A i, j \in 1..(c+1) : i < j => mm[i] < mm[j]
    <3>1. SUFFICES ASSUME NEW i \in 1..(c+1), NEW j \in 1..(c+1), i < j
                   PROVE  mm[i] < mm[j]
      OBVIOUS
    <3>2. i \in 1..c /\ mm[i] = m[i] /\ m[i] \in 1..(x-1)
      BY <3>1, <2>2, <2>4, <2>6
    <3>3. CASE j = c + 1
      BY <3>2, <3>3, <1>4, <2>6
    <3>4. CASE j # c + 1
      <4>1. j \in 1..c /\ mm[j] = m[j]
        BY <3>4, <2>6
      <4> QED
        BY <3>1, <3>2, <4>1, <2>4, Zenon DEF IsAscending, c
    <3> QED
      BY <3>3, <3>4
  <2>10. IsAscending(mm, L)
    BY <2>6, <2>8, <2>9 DEF IsAscending
  <2> QED
    BY <1>3, <2>6, <2>7, <2>10
<1> QED
  BY <1>5, <1>6

(***************************************************************************)
(* Retain leaves as many elements as there are positions in K, fewer than  *)
(* before if a position is erased.                                         *)
(***************************************************************************)
LEMMA RetainLength ==
  ASSUME NEW S, NEW v \in Seq(S), NEW K \in SUBSET (DOMAIN v)
  PROVE  /\ Cardinality(K) \in Nat
         /\ Len(Retain(v, K)) = Cardinality(K)
         /\ Len(Retain(v, K)) <= Len(v)
         /\ K # DOMAIN v => Len(Retain(v, K)) < Len(v)
<1> DEFINE D == 1..Len(v)
           c == Cardinality(K)
<1>1. Len(v) \in Nat /\ DOMAIN v = D
  OBVIOUS
<1>2. IsFiniteSet(D) /\ Cardinality(D) = Len(v)
  <2>1. 1 \in Int /\ Len(v) \in Int
    BY <1>1
  <2>2. /\ IsFiniteSet(1..Len(v))
        /\ Cardinality(1..Len(v)) = IF 1 > Len(v) THEN 0 ELSE Len(v) - 1 + 1
    BY <2>1, FS_Interval
  <2> QED
    BY <1>1, <2>2
<1>3. IsFiniteSet(K) /\ c <= Cardinality(D) /\ (Cardinality(D) = c => D = K)
  BY <1>1, <1>2, FS_Subset, Zenon
<1>4. c \in Nat
  BY <1>3, FS_CardinalityType
<1>5. Retain(v, K) = [i \in 1..c |-> v[Ascending(K)[i]]]
  BY DEF Retain
<1> HIDE DEF c, D
<1>6. Len(Retain(v, K)) = c
  BY <1>4, <1>5
<1> QED
  BY <1>1, <1>2, <1>3, <1>4, <1>6 DEF c

(***************************************************************************)
(* w holds the elements of v at the positions in K, each once and in the   *)
(* order they had: its positions are numbered by an increasing map onto K. *)
(***************************************************************************)
IsThinned(w, v, K) ==
  \E m \in [1..Len(w) -> K] :
    /\ \A k \in K : \E i \in 1..Len(w) : m[i] = k
    /\ \A i, j \in 1..Len(w) : i < j => m[i] < m[j]
    /\ \A i \in 1..Len(w) : w[i] = v[m[i]]

(***************************************************************************)
(* Retain keeps exactly the elements at the positions in K, each once and  *)
(* in the order they had.                                                  *)
(***************************************************************************)
THEOREM RetainProperties ==
  ASSUME NEW S, NEW v \in Seq(S), NEW K \in SUBSET (DOMAIN v)
  PROVE  /\ Retain(v, K) \in Seq(S)
         /\ Len(Retain(v, K)) <= Len(v)
         /\ IsThinned(Retain(v, K), v, K)
<1> DEFINE r == Retain(v, K)
           c == Cardinality(K)
           m == Ascending(K)
<1>1. Len(v) \in Nat /\ DOMAIN v = 1..Len(v)
  OBVIOUS
<1>2. c \in Nat /\ c <= Len(v)
  BY RetainLength
<1>3. m \in [1..c -> K] /\ IsAscending(m, K)
  BY <1>1, AscendingExists, Zenon DEF Ascending
<1>4. r = [i \in 1..c |-> v[m[i]]]
  BY DEF Retain
<1> HIDE DEF m, r
<1>5. r \in Seq(S) /\ Len(r) = c
  <2>1. \A i \in 1..c : v[m[i]] \in S
    BY <1>3
  <2> HIDE DEF c
  <2> QED
    BY <1>2, <1>4, <2>1
<1>6. \A i \in 1..Len(r) : r[i] = v[m[i]]
  BY <1>4, <1>5
<1> HIDE DEF c
<1>7. /\ m \in [1..Len(r) -> K]
      /\ \A k \in K : \E i \in 1..Len(r) : m[i] = k
      /\ \A i, j \in 1..Len(r) : i < j => m[i] < m[j]
  <2>1. IsAscending(m, K) <=> /\ \A k \in K : \E i \in 1..c : m[i] = k
                              /\ \A i, j \in 1..c : i < j => m[i] < m[j]
    BY DEF IsAscending, c
  <2> QED
    BY <1>3, <1>5, <2>1, Zenon
<1>8. Len(r) <= Len(v)
  BY <1>2, <1>5
<1>9. IsThinned(r, v, K)
  BY <1>6, <1>7, Zenon DEF IsThinned
<1> QED
  BY <1>5, <1>8, <1>9 DEF r

LEMMA ThinnedElements ==
  ASSUME NEW S, NEW w \in Seq(S), NEW v, NEW K, IsThinned(w, v, K)
  PROVE  /\ \A i \in DOMAIN w : \E k \in K : w[i] = v[k]
         /\ \A k \in K : \E i \in DOMAIN w : w[i] = v[k]
<1>1. DOMAIN w = 1..Len(w)
  OBVIOUS
<1>2. PICK m \in [1..Len(w) -> K] :
        /\ \A k \in K : \E i \in 1..Len(w) : m[i] = k
        /\ \A i \in 1..Len(w) : w[i] = v[m[i]]
  BY Zenon DEF IsThinned
<1> QED
  BY <1>1, <1>2

(***************************************************************************)
(* The same, without the numbering: every survivor comes from a position   *)
(* of K, two survivors from two positions, and none of K is lost.          *)
(***************************************************************************)
LEMMA RetainElements ==
  ASSUME NEW S, NEW v \in Seq(S), NEW K \in SUBSET (DOMAIN v)
  PROVE  LET r == Retain(v, K)
         IN  /\ r \in Seq(S)
             /\ Len(r) <= Len(v)
             /\ \A i \in DOMAIN r : \E k \in K : r[i] = v[k]
             /\ \A k \in K : \E i \in DOMAIN r : r[i] = v[k]
             /\ \A i, j \in DOMAIN r :
                  i # j => \E k, l \in K : k # l /\ r[i] = v[k] /\ r[j] = v[l]
<1> DEFINE r == Retain(v, K)
<1>1. r \in Seq(S) /\ Len(r) <= Len(v) /\ IsThinned(r, v, K)
  BY RetainProperties
<1> HIDE DEF r
<1>2. PICK m \in [1..Len(r) -> K] :
        /\ \A k \in K : \E i \in 1..Len(r) : m[i] = k
        /\ \A i, j \in 1..Len(r) : i < j => m[i] < m[j]
        /\ \A i \in 1..Len(r) : r[i] = v[m[i]]
  BY <1>1, Zenon DEF IsThinned
<1>3. DOMAIN r = 1..Len(r) /\ Len(r) \in Nat /\ K \in SUBSET Nat
  BY <1>1
<1>4. ASSUME NEW i \in DOMAIN r, NEW j \in DOMAIN r, i # j
      PROVE  \E k, l \in K : k # l /\ r[i] = v[k] /\ r[j] = v[l]
  <2>1. m[i] \in K /\ m[j] \in K /\ m[i] \in Nat /\ m[j] \in Nat
    BY <1>2, <1>3
  <2>2. i < j \/ j < i
    BY <1>3, <1>4
  <2>3. m[i] # m[j]
    BY <1>2, <1>3, <2>1, <2>2
  <2> QED
    BY <1>2, <1>3, <2>1, <2>3
<1>5. \A i \in DOMAIN r : \E k \in K : r[i] = v[k]
  BY <1>2, <1>3
<1>6. \A k \in K : \E i \in DOMAIN r : r[i] = v[k]
  BY <1>2, <1>3
<1> QED
  BY <1>1, <1>4, <1>5, <1>6 DEF r

(***************************************************************************)
(* A scan that finds something finds its first position.                   *)
(***************************************************************************)
LEMMA FirstOfMember ==
  ASSUME NEW K \in SUBSET Nat, K # {}
  PROVE  FirstOf(K) \in K /\ \A j \in K : FirstOf(K) <= j
BY LeastMember, Zenon DEF FirstOf

(***************************************************************************)
(* What goes on the wire is 16 bits wide, and every answer the agent       *)
(* builds is a well-formed reply.                                          *)
(***************************************************************************)
LEMMA HtonsRange ==
  ASSUME NEW n \in Nat
  PROVE  htons(n) \in 0..Infinity
BY PacketAssumption DEF htons

LEMMA ReplyType ==
  ASSUME NEW link \in Link, NEW src \in Addr, NEW sport \in Nat, NEW dst \in Addr,
         NEW dport \in Nat, NEW l \in Nat, NEW code \in Nat, NEW home \in Addr,
         NEW homeAgent \in Addr, NEW id \in Id
  PROVE  buildRegistrationReply(UDPIP(link, src, sport, dst, dport),
                                l, code, home, homeAgent, id) \in ReplyPacket
<1>1. htons(l) \in 0..Infinity
  BY HtonsRange
<1> QED
  BY <1>1 DEF buildRegistrationReply, UDPIP, ReplyPacket, Checksum

(***************************************************************************)
(* The type byte tells the two kinds of packet apart.                      *)
(***************************************************************************)
LEMMA RequestIsRequest ==
  ASSUME NEW rr \in RequestPacket \cup ReplyPacket, rr.type = "REGISTRATION"
  PROVE  rr \in RequestPacket
BY DEF RequestPacket, ReplyPacket

LEMMA ReplyIsReply ==
  ASSUME NEW p \in RequestPacket \cup ReplyPacket, p.type = "REPLY"
  PROVE  p \in ReplyPacket
BY DEF RequestPacket, ReplyPacket

(***************************************************************************)
(* What a relaying agent sends on is a well-formed request.                *)
(***************************************************************************)
LEMMA RequestType ==
  ASSUME NEW link \in Link, NEW src \in Addr, NEW sport \in Nat, NEW dst \in Addr,
         NEW dport \in Nat, NEW l \in Nat, NEW home \in Addr,
         NEW homeAgent \in Addr, NEW careOf \in Addr, NEW id \in Id, NEW reading,
         id = 0 => reading \in Id
  PROVE  buildRegistrationRequest(UDPIP(link, src, sport, dst, dport),
                                  l, home, homeAgent, careOf, id, reading) \in RequestPacket
<1>1. htons(l) \in 0..Infinity
  BY HtonsRange
<1> QED
  BY <1>1 DEF buildRegistrationRequest, UDPIP, RequestPacket, Checksum

----------------------------------------------------------------------------
(***************************************************************************)
(* Erasing entries leaves a list of bindings, without making two entries   *)
(* of one pair or an entry that has expired.                               *)
(***************************************************************************)
LEMMA RetainBindings ==
  ASSUME NEW v \in Seq(MobilityBindingListItem), NEW K \in SUBSET (DOMAIN v)
  PROVE  /\ Retain(v, K) \in Seq(MobilityBindingListItem)
         /\ NoDuplicatePairs(v) => NoDuplicatePairs(Retain(v, K))
         /\ (\A k \in K : v[k].remainingLifetime \in 1..Infinity) => AllAlive(Retain(v, K))
<1> DEFINE r == Retain(v, K)
<1>1. r \in Seq(MobilityBindingListItem) /\ IsThinned(r, v, K)
  BY RetainProperties
<1> HIDE DEF r
<1>2. PICK m \in [1..Len(r) -> K] :
        /\ \A i, j \in 1..Len(r) : i < j => m[i] < m[j]
        /\ \A i \in 1..Len(r) : r[i] = v[m[i]]
  BY <1>1, Zenon DEF IsThinned
<1>3. DOMAIN r = 1..Len(r) /\ Len(r) \in Nat /\ K \in SUBSET Nat
  BY <1>1
<1>4. ASSUME NoDuplicatePairs(v) PROVE NoDuplicatePairs(r)
  <2>1. SUFFICES ASSUME NEW i \in 1..Len(r), NEW j \in 1..Len(r),
                        r[i].homeAddress = r[j].homeAddress,
                        r[i].careOfAddress = r[j].careOfAddress
                 PROVE  i = j
    BY <1>3 DEF NoDuplicatePairs
  <2>2. m[i] = m[j]
    <3>1. m[i] \in DOMAIN v /\ m[j] \in DOMAIN v
      BY <1>2
    <3>2. r[i] = v[m[i]] /\ r[j] = v[m[j]]
      BY <1>2
    <3>3. v[m[i]].homeAddress = v[m[j]].homeAddress
          /\ v[m[i]].careOfAddress = v[m[j]].careOfAddress
      BY <2>1, <3>2
    <3> QED
      BY <1>4, <3>1, <3>3, Zenon DEF NoDuplicatePairs
  <2>3. ~(i < j) /\ ~(j < i)
    BY <1>2, <1>3, <2>2
  <2> QED
    BY <2>3, <1>3
<1>5. ASSUME \A k \in K : v[k].remainingLifetime \in 1..Infinity
      PROVE  AllAlive(r)
  BY <1>2, <1>3, <1>5 DEF AllAlive
<1> QED
  BY <1>1, <1>4, <1>5 DEF r

(***************************************************************************)
(* add keeps the list well formed and without duplicate pairs.             *)
(***************************************************************************)
LEMMA AddBinding ==
  ASSUME NEW v \in Seq(MobilityBindingListItem),
         NEW h \in Addr, NEW c \in Addr, NEW l \in UInt
  PROVE  LET w == addBinding(v, h, c, l)
         IN  /\ w \in Seq(MobilityBindingListItem)
             /\ NoDuplicatePairs(v) => NoDuplicatePairs(w)
             /\ AllAlive(v) /\ l \in 1..Infinity => AllAlive(w)
<1> DEFINE I == BindingsOf(v, h, c)
           w == addBinding(v, h, c, l)
<1>1. CASE I # {}
  <2>1. I \in SUBSET Nat /\ I \in SUBSET (DOMAIN v)
    BY DEF BindingsOf
  <2> DEFINE k == FirstOf(I)
  <2>2. k \in DOMAIN v
    BY <1>1, <2>1, FirstOfMember
  <2>3. w = [v EXCEPT ![k].remainingLifetime = l]
    BY <1>1 DEF addBinding
  <2> HIDE DEF k, w
  <2>4. /\ w \in Seq(MobilityBindingListItem)
        /\ DOMAIN w = DOMAIN v
        /\ \A i \in DOMAIN v : /\ w[i].homeAddress = v[i].homeAddress
                               /\ w[i].careOfAddress = v[i].careOfAddress
                               /\ w[i].remainingLifetime = IF i = k THEN l ELSE v[i].remainingLifetime
    <3>1. ASSUME NEW b \in MobilityBindingListItem
          PROVE  /\ [b EXCEPT !.remainingLifetime = l] \in MobilityBindingListItem
                 /\ [b EXCEPT !.remainingLifetime = l].homeAddress = b.homeAddress
                 /\ [b EXCEPT !.remainingLifetime = l].careOfAddress = b.careOfAddress
                 /\ [b EXCEPT !.remainingLifetime = l].remainingLifetime = l
      BY DEF MobilityBindingListItem
    <3>2. \A i \in DOMAIN v : v[i] \in MobilityBindingListItem
      OBVIOUS
    <3>3. /\ DOMAIN w = DOMAIN v
          /\ \A i \in DOMAIN v :
               w[i] = IF i = k THEN [v[i] EXCEPT !.remainingLifetime = l] ELSE v[i]
      BY <2>2, <2>3
    <3>4. \A i \in DOMAIN v : w[i] \in MobilityBindingListItem
      BY <3>1, <3>2, <3>3
    <3>5. w \in Seq(MobilityBindingListItem)
      BY <2>2, <2>3, <3>1, <3>2
    <3> QED
      BY <3>1, <3>2, <3>3, <3>5, ZenonT(60)
  <2>5. NoDuplicatePairs(v) => NoDuplicatePairs(w)
    BY <2>4 DEF NoDuplicatePairs
  <2>6. AllAlive(v) /\ l \in 1..Infinity => AllAlive(w)
    BY <2>4 DEF AllAlive
  <2> QED
    BY <2>4, <2>5, <2>6 DEF w
<1>2. CASE I = {}
  <2> DEFINE e == [homeAddress |-> h, careOfAddress |-> c, remainingLifetime |-> l]
  <2>1. w = Append(v, e)
    BY <1>2 DEF addBinding
  <2>2. e \in MobilityBindingListItem
    BY DEF MobilityBindingListItem
  <2>3. e.homeAddress = h /\ e.careOfAddress = c /\ e.remainingLifetime = l
    OBVIOUS
  <2>4. \A i \in DOMAIN v : ~(v[i].homeAddress = h /\ v[i].careOfAddress = c)
    BY <1>2 DEF BindingsOf
  <2> HIDE DEF e, w
  <2>5. /\ w \in Seq(MobilityBindingListItem)
        /\ DOMAIN w = 1..(Len(v)+1) /\ DOMAIN v = 1..Len(v) /\ Len(v) \in Nat
        /\ \A i \in DOMAIN v : w[i] = v[i]
        /\ w[Len(v)+1] = e
    BY <2>1, <2>2
  <2>6. NoDuplicatePairs(v) => NoDuplicatePairs(w)
    BY <2>3, <2>4, <2>5 DEF NoDuplicatePairs
  <2>7. AllAlive(v) /\ l \in 1..Infinity => AllAlive(w)
    BY <2>3, <2>5 DEF AllAlive
  <2> QED
    BY <2>5, <2>6, <2>7 DEF w
<1> QED
  BY <1>1, <1>2

(***************************************************************************)
(* decreaseLifetime keeps the list well formed, without duplicate pairs,   *)
(* and free of expired entries if it was so before.                        *)
(***************************************************************************)
LEMMA DecreaseBindings ==
  ASSUME NEW v \in Seq(MobilityBindingListItem)
  PROVE  LET w == decreaseBindings(v)
         IN  /\ w \in Seq(MobilityBindingListItem)
             /\ NoDuplicatePairs(v) => NoDuplicatePairs(w)
             /\ AllAlive(v) => AllAlive(w)
<1> DEFINE a == [i \in DOMAIN v |-> Aged(v[i])]
           K == {i \in DOMAIN a : a[i].remainingLifetime # 0}
<1>1. ASSUME NEW b \in MobilityBindingListItem
      PROVE  /\ Aged(b) \in MobilityBindingListItem
             /\ Aged(b).homeAddress = b.homeAddress
             /\ Aged(b).careOfAddress = b.careOfAddress
             /\ b.remainingLifetime \in 1..Infinity =>
                  Aged(b).remainingLifetime \in 0..Infinity
  <2>1. b.remainingLifetime \in UInt
    BY DEF MobilityBindingListItem
  <2>2. /\ MinusOne(b.remainingLifetime) \in UInt
        /\ b.remainingLifetime \in 1..Infinity =>
             MinusOne(b.remainingLifetime) \in 0..Infinity
    BY <2>1, PacketAssumption DEF MinusOne, UInt
  <2> QED
    BY <2>1, <2>2, PacketAssumption DEF Aged, MobilityBindingListItem
<1>2. /\ a \in Seq(MobilityBindingListItem) /\ DOMAIN a = DOMAIN v
      /\ \A i \in DOMAIN v : /\ a[i].homeAddress = v[i].homeAddress
                             /\ a[i].careOfAddress = v[i].careOfAddress
                             /\ v[i].remainingLifetime \in 1..Infinity =>
                                  a[i].remainingLifetime \in 0..Infinity
  <2>1. \A i \in DOMAIN v : v[i] \in MobilityBindingListItem
    OBVIOUS
  <2> QED
    BY <1>1, <2>1
<1>3. decreaseBindings(v) = Retain(a, K)
  BY DEF decreaseBindings
<1> HIDE DEF a
<1>4. NoDuplicatePairs(v) => NoDuplicatePairs(a)
  BY <1>2 DEF NoDuplicatePairs
<1>5. AllAlive(v) => \A k \in K : a[k].remainingLifetime \in 1..Infinity
  BY <1>2, PacketAssumption DEF AllAlive
<1> QED
  BY <1>2, <1>3, <1>4, <1>5, RetainBindings

----------------------------------------------------------------------------

ElementsOf(v) == {v[i] : i \in DOMAIN v}

(***************************************************************************)
(* What the erase loop leaves, as a set.                                   *)
(***************************************************************************)
LEMMA RetainSet ==
  ASSUME NEW v \in Seq(MobilityBindingListItem), NEW K \in SUBSET (DOMAIN v)
  PROVE  ElementsOf(Retain(v, K)) = {v[k] : k \in K}
<1> DEFINE r == Retain(v, K)
<1>1. /\ r \in Seq(MobilityBindingListItem) /\ Len(r) <= Len(v)
      /\ \A i \in DOMAIN r : \E k \in K : r[i] = v[k]
      /\ \A k \in K : \E i \in DOMAIN r : r[i] = v[k]
  BY RetainElements
<1> HIDE DEF r
<1> QED
  BY <1>1 DEF ElementsOf, r

(***************************************************************************)
(* removeBinding and removeHome give back the leases they are meant to.    *)
(***************************************************************************)
LEMMA RemoveSet ==
  ASSUME NEW v \in Seq(MobilityBindingListItem), NEW h, NEW c
  PROVE  /\ ElementsOf(removeBinding(v, h, c)) =
              {b \in ElementsOf(v) : ~(b.homeAddress = h /\ b.careOfAddress = c)}
         /\ ElementsOf(removeHome(v, h)) = {b \in ElementsOf(v) : b.homeAddress # h}
<1>1. ElementsOf(removeBinding(v, h, c)) = {v[k] : k \in DOMAIN v \ BindingsOf(v, h, c)}
  BY RetainSet DEF removeBinding
<1>2. ElementsOf(removeHome(v, h)) = {v[k] : k \in DOMAIN v \ HomeBindings(v, h)}
  BY RetainSet DEF removeHome
<1> QED
  BY <1>1, <1>2, ZenonT(60) DEF ElementsOf, BindingsOf, HomeBindings

(***************************************************************************)
(* add replaces the lease of the pair, if the vector has no duplicates.    *)
(***************************************************************************)
LEMMA AddSet ==
  ASSUME NEW v \in Seq(MobilityBindingListItem), NoDuplicatePairs(v),
         NEW h \in Addr, NEW c \in Addr, NEW l \in UInt
  PROVE  ElementsOf(addBinding(v, h, c, l)) =
           {b \in ElementsOf(v) : ~(b.homeAddress = h /\ b.careOfAddress = c)}
             \cup {[homeAddress |-> h, careOfAddress |-> c, remainingLifetime |-> l]}
<1> DEFINE I == BindingsOf(v, h, c)
           w == addBinding(v, h, c, l)
           e == [homeAddress |-> h, careOfAddress |-> c, remainingLifetime |-> l]
<1>0. e.homeAddress = h /\ e.careOfAddress = c
  OBVIOUS
<1>1. CASE I # {}
  <2> DEFINE k == FirstOf(I)
  <2>1. k \in DOMAIN v /\ v[k].homeAddress = h /\ v[k].careOfAddress = c
    <3>1. I \in SUBSET Nat
      BY DEF BindingsOf
    <3>2. k \in I
      BY <1>1, <3>1, FirstOfMember
    <3> QED
      BY <3>2 DEF BindingsOf
  <2>2. w = [v EXCEPT ![k].remainingLifetime = l]
    BY <1>1 DEF addBinding
  <2>3. v[k] \in MobilityBindingListItem
    BY <2>1
  <2>4. [v[k] EXCEPT !.remainingLifetime = l] = e
    BY <2>1, <2>3 DEF MobilityBindingListItem
  <2> HIDE DEF k, w, e
  <2>5. DOMAIN w = DOMAIN v /\ w[k] = e /\ \A i \in DOMAIN v : i # k => w[i] = v[i]
    BY <2>1, <2>2, <2>4
  <2>6. \A i \in DOMAIN v : v[i].homeAddress = h /\ v[i].careOfAddress = c <=> i = k
    BY <2>1 DEF NoDuplicatePairs
  <2> QED
    BY <2>1, <2>5, <2>6 DEF ElementsOf, w, e
<1>2. CASE I = {}
  <2>1. w = Append(v, e)
    BY <1>2 DEF addBinding
  <2>2. \A i \in DOMAIN v : ~(v[i].homeAddress = h /\ v[i].careOfAddress = c)
    BY <1>2 DEF BindingsOf
  <2>3. e \in MobilityBindingListItem
    BY DEF MobilityBindingListItem
  <2> HIDE DEF w, e
  <2>4. /\ DOMAIN w = 1..(Len(v) + 1) /\ DOMAIN v = 1..Len(v) /\ Len(v) \in Nat
        /\ \A i \in DOMAIN v : w[i] = v[i]
        /\ w[Len(v) + 1] = e
    BY <2>1, <2>3
  <2> QED
    BY <2>2, <2>4 DEF ElementsOf, w, e
<1> QED
  BY <1>1, <1>2

----------------------------------------------------------------------------
(***************************************************************************)
(* The visitor list.                                                       *)
(***************************************************************************)
LEMMA RetainVisitors ==
  ASSUME NEW v \in Seq(VisitorListItem), NEW K \in SUBSET (DOMAIN v)
  PROVE  /\ Retain(v, K) \in Seq(VisitorListItem)
         /\ NoDuplicateVisits(v) => NoDuplicateVisits(Retain(v, K))
         /\ (\A k \in K : Present(v[k])) => AllPresent(Retain(v, K))
<1> DEFINE r == Retain(v, K)
<1>1. /\ r \in Seq(VisitorListItem)
      /\ \A i \in DOMAIN r : \E k \in K : r[i] = v[k]
      /\ \A i, j \in DOMAIN r :
           i # j => \E k, l \in K : k # l /\ r[i] = v[k] /\ r[j] = v[l]
  BY RetainElements
<1> HIDE DEF r
<1>2. ASSUME NoDuplicateVisits(v), NEW i \in DOMAIN r, NEW j \in DOMAIN r,
             r[i].MNhome = r[j].MNhome, r[i].MNhomeAgent = r[j].MNhomeAgent, i # j
      PROVE  FALSE
  <2>1. PICK k \in K, l \in K : k # l /\ r[i] = v[k] /\ r[j] = v[l]
    BY <1>1, <1>2
  <2>2. v[k].MNhome = v[l].MNhome /\ v[k].MNhomeAgent = v[l].MNhomeAgent
    BY <1>2, <2>1
  <2>3. k \in DOMAIN v /\ l \in DOMAIN v
    OBVIOUS
  <2> QED
    BY <1>2, <2>1, <2>2, <2>3, Zenon DEF NoDuplicateVisits
<1>3. NoDuplicateVisits(v) => NoDuplicateVisits(r)
  BY <1>2 DEF NoDuplicateVisits
<1>4. (\A k \in K : Present(v[k])) => AllPresent(r)
  BY <1>1 DEF AllPresent
<1> QED
  BY <1>1, <1>3, <1>4 DEF r

LEMMA RemoveVisitor ==
  ASSUME NEW v \in Seq(VisitorListItem), NEW h, NEW g
  PROVE  LET w == removeVisitor(v, h, g)
         IN  /\ w \in Seq(VisitorListItem)
             /\ NoDuplicateVisits(v) => NoDuplicateVisits(w)
             /\ AllPresent(v) => AllPresent(w)
<1> DEFINE K == DOMAIN v \ VisitsOf(v, h, g)
<1>1. K \in SUBSET (DOMAIN v)
  OBVIOUS
<1>2. AllPresent(v) => \A k \in K : Present(v[k])
  BY DEF AllPresent
<1>3. removeVisitor(v, h, g) = Retain(v, K)
  BY DEF removeVisitor
<1> HIDE DEF K
<1> QED
  BY <1>1, <1>2, <1>3, RetainVisitors

LEMMA SetLifetime ==
  ASSUME NEW v \in Seq(VisitorListItem), NEW h, NEW g, NEW l \in UInt
  PROVE  LET w == setVisitorRequestedLifetime(v, h, g, l)
         IN  /\ w \in Seq(VisitorListItem) /\ DOMAIN w = DOMAIN v
             /\ \A i \in DOMAIN v :
                  /\ w[i].MNhome = v[i].MNhome /\ w[i].MNhomeAgent = v[i].MNhomeAgent
                  /\ w[i].requestedLifetime = IF i \in VisitsOf(v, h, g)
                                              THEN l ELSE v[i].requestedLifetime
                  /\ w[i].remainingLifetime = v[i].remainingLifetime
<1> DEFINE f(x) == [x EXCEPT !.requestedLifetime = l]
<1>1. ASSUME NEW x \in VisitorListItem
      PROVE  /\ f(x) \in VisitorListItem
             /\ f(x).MNhome = x.MNhome /\ f(x).MNhomeAgent = x.MNhomeAgent
             /\ f(x).requestedLifetime = l
             /\ f(x).remainingLifetime = x.remainingLifetime
  BY DEF VisitorListItem
<1>2. \A i \in DOMAIN v : v[i] \in VisitorListItem
  OBVIOUS
<1>3. setVisitorRequestedLifetime(v, h, g, l) =
        [i \in DOMAIN v |-> IF i \in VisitsOf(v, h, g) THEN f(v[i]) ELSE v[i]]
  BY DEF setVisitorRequestedLifetime
<1> HIDE DEF f
<1> QED
  BY <1>1, <1>2, <1>3

LEMMA ResetLifetime ==
  ASSUME NEW v \in Seq(VisitorListItem), NEW h, NEW g
  PROVE  LET w == resetVisitorRemainingLifetime(v, h, g)
         IN  /\ w \in Seq(VisitorListItem) /\ DOMAIN w = DOMAIN v
             /\ \A i \in DOMAIN v :
                  /\ w[i].MNhome = v[i].MNhome /\ w[i].MNhomeAgent = v[i].MNhomeAgent
                  /\ w[i].requestedLifetime = v[i].requestedLifetime
                  /\ w[i].remainingLifetime = IF i \in VisitsOf(v, h, g)
                                              THEN v[i].requestedLifetime
                                              ELSE v[i].remainingLifetime
<1> DEFINE f(x) == [x EXCEPT !.remainingLifetime = x.requestedLifetime]
<1>1. ASSUME NEW x \in VisitorListItem
      PROVE  /\ f(x) \in VisitorListItem
             /\ f(x).MNhome = x.MNhome /\ f(x).MNhomeAgent = x.MNhomeAgent
             /\ f(x).requestedLifetime = x.requestedLifetime
             /\ f(x).remainingLifetime = x.requestedLifetime
  BY DEF VisitorListItem
<1>2. \A i \in DOMAIN v : v[i] \in VisitorListItem
  OBVIOUS
<1>3. resetVisitorRemainingLifetime(v, h, g) =
        [i \in DOMAIN v |-> IF i \in VisitsOf(v, h, g) THEN f(v[i]) ELSE v[i]]
  BY DEF resetVisitorRemainingLifetime
<1> HIDE DEF f
<1> QED
  BY <1>1, <1>2, <1>3

LEMMA DecreaseVisitors ==
  ASSUME NEW v \in Seq(VisitorListItem)
  PROVE  LET w == decreaseVisitors(v)
         IN  /\ w \in Seq(VisitorListItem)
             /\ NoDuplicateVisits(v) => NoDuplicateVisits(w)
             /\ AllPresent(v) => AllPresent(w)
<1> DEFINE a == [i \in DOMAIN v |-> OlderVisit(v[i])]
           K == {i \in DOMAIN v : v[i].requestedLifetime = Infinity
                                  \/ a[i].remainingLifetime # 0}
<1>1. ASSUME NEW x \in VisitorListItem
      PROVE  /\ OlderVisit(x) \in VisitorListItem
             /\ OlderVisit(x).MNhome = x.MNhome
             /\ OlderVisit(x).MNhomeAgent = x.MNhomeAgent
             /\ Present(x) /\ (x.requestedLifetime = Infinity
                                \/ OlderVisit(x).remainingLifetime # 0)
                  => Present(OlderVisit(x))
  <2>1. x.requestedLifetime \in UInt /\ x.remainingLifetime \in UInt
    BY DEF VisitorListItem
  <2>2. CASE x.requestedLifetime = Infinity
    BY <2>2 DEF OlderVisit
  <2>3. CASE x.requestedLifetime # Infinity
    <3> DEFINE y == [x EXCEPT !.remainingLifetime = MinusOne(@)]
    <3>1. MinusOne(x.remainingLifetime) \in UInt
      BY <2>1, PacketAssumption DEF MinusOne, UInt
    <3>2. /\ y \in VisitorListItem
          /\ y.MNhome = x.MNhome /\ y.MNhomeAgent = x.MNhomeAgent
          /\ y.requestedLifetime = x.requestedLifetime
          /\ y.remainingLifetime = MinusOne(x.remainingLifetime)
      BY <3>1 DEF VisitorListItem
    <3>3. OlderVisit(x) = y
      BY <2>3 DEF OlderVisit
    <3> HIDE DEF y
    <3>4. Present(x) /\ y.remainingLifetime # 0 =>
            y.remainingLifetime \in 1..x.requestedLifetime
      BY <2>1, <3>2, PacketAssumption DEF Present, MinusOne, UInt
    <3>5. Present(x) /\ y.remainingLifetime # 0 => Present(y)
      BY <2>3, <3>2, <3>4 DEF Present
    <3> QED
      BY <2>3, <3>2, <3>3, <3>5
  <2> QED
    BY <2>2, <2>3
<1>2. \A i \in DOMAIN v : v[i] \in VisitorListItem
  OBVIOUS
<1>3. /\ a \in Seq(VisitorListItem) /\ DOMAIN a = DOMAIN v
      /\ \A i \in DOMAIN v : a[i] = OlderVisit(v[i])
  BY <1>1, <1>2
<1>4. decreaseVisitors(v) = Retain(a, K)
  BY DEF decreaseVisitors
<1>5. K \in SUBSET (DOMAIN a)
  BY <1>3
<1> HIDE DEF a
<1>6. NoDuplicateVisits(v) => NoDuplicateVisits(a)
  BY <1>1, <1>2, <1>3 DEF NoDuplicateVisits
<1>7. AllPresent(v) => \A k \in K : Present(a[k])
  BY <1>1, <1>2, <1>3 DEF AllPresent
<1> QED
  BY <1>3, <1>4, <1>5, <1>6, <1>7, RetainVisitors

----------------------------------------------------------------------------
(***************************************************************************)
(* Moving an element to the back keeps the order of the others.            *)
(***************************************************************************)
Before(t, x, y) == \E i, j \in DOMAIN t : i < j /\ t[i] = x /\ t[j] = y

LEMMA MovedBack ==
  ASSUME NEW S, NEW t \in Seq(S), NEW x \in S
  PROVE  LET u == Append(Retain(t, {i \in DOMAIN t : t[i] # x}), x)
         IN  /\ u \in Seq(S)
             /\ \A i \in DOMAIN t : \E j \in DOMAIN u : u[j] = t[i]
             /\ \A y : ~Before(u, x, y)
             /\ \A y, z : y # x /\ z # x /\ Before(u, y, z) => Before(t, y, z)
<1> DEFINE K == {i \in DOMAIN t : t[i] # x}
           r == Retain(t, K)
           u == Append(r, x)
<1>1. DOMAIN t \in SUBSET Nat
  OBVIOUS
<1>2. r \in Seq(S) /\ IsThinned(r, t, K)
  BY <1>1, RetainProperties
<1> HIDE DEF r
<1>3. /\ u \in Seq(S) /\ DOMAIN r = 1..Len(r) /\ Len(r) \in Nat
      /\ DOMAIN u = 1..(Len(r) + 1) /\ u[Len(r) + 1] = x
      /\ \A i \in 1..Len(r) : u[i] = r[i]
  BY <1>2
<1> HIDE DEF u
<1>4. PICK m \in [1..Len(r) -> K] :
        /\ \A i, j \in 1..Len(r) : i < j => m[i] < m[j]
        /\ \A i \in 1..Len(r) : r[i] = t[m[i]]
  BY <1>2, Zenon DEF IsThinned
<1>5. \A i \in 1..Len(r) : r[i] # x /\ m[i] \in DOMAIN t
  BY <1>4
<1>6. ASSUME NEW k \in DOMAIN t PROVE \E j \in DOMAIN u : u[j] = t[k]
  <2>1. CASE t[k] = x
    BY <1>3, <2>1
  <2>2. CASE t[k] # x
    <3>1. PICK i \in DOMAIN r : r[i] = t[k]
      BY <1>2, <2>2, ThinnedElements
    <3> QED
      BY <1>3, <3>1
  <2> QED
    BY <2>1, <2>2
<1>7. \A y : ~Before(u, x, y)
  BY <1>3, <1>5 DEF Before
<1>8. ASSUME NEW y, NEW z, y # x, z # x, Before(u, y, z)
      PROVE  Before(t, y, z)
  <2>1. PICK i, j \in DOMAIN u : i < j /\ u[i] = y /\ u[j] = z
    BY <1>8 DEF Before
  <2>2. i \in 1..Len(r) /\ j \in 1..Len(r)
    BY <1>3, <1>8, <2>1
  <2>3. m[i] < m[j] /\ t[m[i]] = y /\ t[m[j]] = z
    BY <1>3, <1>4, <2>1, <2>2
  <2> QED
    BY <1>5, <2>2, <2>3 DEF Before
<1> QED
  BY <1>3, <1>6, <1>7, <1>8, Zenon DEF u, r

(***************************************************************************)
(* What the operations on the two lists leave of the entry of a pair, of   *)
(* which at least n seconds were left.                                     *)
(***************************************************************************)
BindingLasts(v, h, c, n) ==
  \E i \in DOMAIN v : /\ v[i].homeAddress = h /\ v[i].careOfAddress = c
                      /\ v[i].remainingLifetime >= n

VisitLasts(v, h, g, n) ==
  \E i \in DOMAIN v : /\ v[i].MNhome = h /\ v[i].MNhomeAgent = g
                      /\ v[i].remainingLifetime >= n

LEMMA MinusOneRange ==
  ASSUME NEW n \in UInt
  PROVE  MinusOne(n) \in UInt
BY PacketAssumption DEF MinusOne, UInt

LEMMA AddLasts ==
  ASSUME NEW v \in Seq(MobilityBindingListItem), NEW h \in Addr, NEW c \in Addr,
         NEW l \in UInt, NEW n \in Nat, l >= n, NEW H, NEW G,
         BindingLasts(v, H, G, n) \/ (h = H /\ c = G)
  PROVE  BindingLasts(addBinding(v, h, c, l), H, G, n)
<1> DEFINE I == BindingsOf(v, h, c)
           w == addBinding(v, h, c, l)
           e == [homeAddress |-> h, careOfAddress |-> c, remainingLifetime |-> l]
<1>1. CASE I # {}
  <2> DEFINE k == FirstOf(I)
  <2>1. k \in DOMAIN v /\ v[k].homeAddress = h /\ v[k].careOfAddress = c
    <3>1. I \in SUBSET Nat
      BY DEF BindingsOf
    <3>2. k \in I
      BY <1>1, <3>1, FirstOfMember
    <3> QED
      BY <3>2 DEF BindingsOf
  <2>2. w = [v EXCEPT ![k].remainingLifetime = l]
    BY <1>1 DEF addBinding
  <2>3. v[k] \in MobilityBindingListItem
    BY <2>1
  <2>4. [v[k] EXCEPT !.remainingLifetime = l] = e
    BY <2>1, <2>3 DEF MobilityBindingListItem
  <2> HIDE DEF k, w, e
  <2>5. DOMAIN w = DOMAIN v /\ w[k] = e /\ \A i \in DOMAIN v : i # k => w[i] = v[i]
    BY <2>1, <2>2, <2>4
  <2>6. e.homeAddress = h /\ e.careOfAddress = c /\ e.remainingLifetime = l
    BY DEF e
  <2> QED
    BY <2>1, <2>5, <2>6 DEF BindingLasts, w
<1>2. CASE I = {}
  <2>1. w = Append(v, e)
    BY <1>2 DEF addBinding
  <2>2. e \in MobilityBindingListItem
    BY DEF MobilityBindingListItem
  <2>3. e.homeAddress = h /\ e.careOfAddress = c /\ e.remainingLifetime = l
    OBVIOUS
  <2> HIDE DEF w, e
  <2>4. /\ DOMAIN w = 1..(Len(v) + 1) /\ DOMAIN v = 1..Len(v) /\ Len(v) \in Nat
        /\ \A i \in DOMAIN v : w[i] = v[i]
        /\ w[Len(v) + 1] = e
    BY <2>1, <2>2
  <2> QED
    BY <2>3, <2>4 DEF BindingLasts, w
<1> QED
  BY <1>1, <1>2

LEMMA DecreaseLasts ==
  ASSUME NEW v \in Seq(MobilityBindingListItem), NEW n \in Nat, n > 0, NEW H, NEW G,
         BindingLasts(v, H, G, n + 1)
  PROVE  BindingLasts(decreaseBindings(v), H, G, n)
<1> DEFINE a == [i \in DOMAIN v |-> Aged(v[i])]
           K == {i \in DOMAIN a : a[i].remainingLifetime # 0}
           r == Retain(a, K)
<1>1. PICK k \in DOMAIN v : /\ v[k].homeAddress = H /\ v[k].careOfAddress = G
                            /\ v[k].remainingLifetime >= n + 1
  BY DEF BindingLasts
<1>2. \A i \in DOMAIN v : a[i] \in MobilityBindingListItem
  <2> SUFFICES ASSUME NEW i \in DOMAIN v PROVE a[i] \in MobilityBindingListItem
    OBVIOUS
  <2>1. v[i] \in MobilityBindingListItem
    OBVIOUS
  <2>2. MinusOne(v[i].remainingLifetime) \in UInt
    BY <2>1, MinusOneRange DEF MobilityBindingListItem
  <2> QED
    BY <2>1, <2>2 DEF Aged, MobilityBindingListItem
<1>3. a \in Seq(MobilityBindingListItem) /\ DOMAIN a = DOMAIN v
  BY <1>2
<1>4. /\ a[k].homeAddress = H /\ a[k].careOfAddress = G
      /\ a[k].remainingLifetime >= n /\ a[k].remainingLifetime # 0
  <2>1. v[k] \in MobilityBindingListItem
    OBVIOUS
  <2>2. v[k].remainingLifetime \in Nat
    BY <2>1, PacketAssumption DEF MobilityBindingListItem, UInt
  <2>3. a[k] = Aged(v[k])
    OBVIOUS
  <2> HIDE DEF a
  <2> QED
    BY <1>1, <2>1, <2>2, <2>3 DEF Aged, MinusOne, MobilityBindingListItem
<1>5. decreaseBindings(v) = r
  BY DEF decreaseBindings
<1> HIDE DEF a
<1>6. PICK i \in DOMAIN r : r[i] = a[k]
  <2>1. k \in K /\ K \in SUBSET (DOMAIN a)
    BY <1>3, <1>4
  <2> QED
    BY <1>3, <2>1, RetainElements, Zenon
<1> HIDE DEF r
<1> QED
  BY <1>4, <1>5, <1>6 DEF BindingLasts

LEMMA DecreaseVisitLasts ==
  ASSUME NEW v \in Seq(VisitorListItem), NEW n \in Nat, n > 0, NEW H, NEW G,
         VisitLasts(v, H, G, n + 1)
  PROVE  VisitLasts(decreaseVisitors(v), H, G, n)
<1> DEFINE a == [i \in DOMAIN v |-> OlderVisit(v[i])]
           K == {i \in DOMAIN v : v[i].requestedLifetime = Infinity
                                  \/ a[i].remainingLifetime # 0}
           r == Retain(a, K)
<1>1. PICK k \in DOMAIN v : /\ v[k].MNhome = H /\ v[k].MNhomeAgent = G
                            /\ v[k].remainingLifetime >= n + 1
  BY DEF VisitLasts
<1>2. \A i \in DOMAIN v : a[i] \in VisitorListItem
  <2> SUFFICES ASSUME NEW i \in DOMAIN v PROVE a[i] \in VisitorListItem
    OBVIOUS
  <2>1. v[i] \in VisitorListItem
    OBVIOUS
  <2>2. MinusOne(v[i].remainingLifetime) \in UInt
    BY <2>1, MinusOneRange DEF VisitorListItem
  <2> QED
    BY <2>1, <2>2 DEF OlderVisit, VisitorListItem
<1>3. a \in Seq(VisitorListItem) /\ DOMAIN a = DOMAIN v
  BY <1>2
<1>4. /\ a[k].MNhome = H /\ a[k].MNhomeAgent = G
      /\ a[k].remainingLifetime >= n /\ a[k].remainingLifetime # 0
  <2>1. v[k] \in VisitorListItem
    OBVIOUS
  <2>2. v[k].remainingLifetime \in Nat
    BY <2>1, PacketAssumption DEF VisitorListItem, UInt
  <2>3. a[k] = OlderVisit(v[k])
    OBVIOUS
  <2> HIDE DEF a
  <2> QED
    BY <1>1, <2>1, <2>2, <2>3 DEF OlderVisit, MinusOne, VisitorListItem
<1>5. decreaseVisitors(v) = r
  BY DEF decreaseVisitors
<1> HIDE DEF a
<1>6. PICK i \in DOMAIN r : r[i] = a[k]
  <2>1. k \in K /\ K \in SUBSET (DOMAIN a)
    BY <1>3, <1>4
  <2> QED
    BY <1>3, <2>1, RetainElements, Zenon
<1> HIDE DEF r
<1> QED
  BY <1>4, <1>5, <1>6 DEF VisitLasts

(***************************************************************************)
(* A visit that begins or is renewed, as relayReply does it.               *)
(***************************************************************************)
LEMMA RenewedLasts ==
  ASSUME NEW v \in Seq(VisitorListItem), NEW h, NEW g, NEW l \in UInt,
         NEW e \in VisitorListItem, e.MNhome = h, e.MNhomeAgent = g, e.requestedLifetime = l
  PROVE  VisitLasts(resetVisitorRemainingLifetime(
                      IF hasVisitor(v, h, g) THEN setVisitorRequestedLifetime(v, h, g, l)
                                             ELSE Append(v, e), h, g), h, g, l)
<1> DEFINE w == IF hasVisitor(v, h, g) THEN setVisitorRequestedLifetime(v, h, g, l)
                                       ELSE Append(v, e)
           z == resetVisitorRemainingLifetime(w, h, g)
<1>1. /\ w \in Seq(VisitorListItem)
      /\ \E k \in DOMAIN w : /\ w[k].MNhome = h /\ w[k].MNhomeAgent = g
                             /\ w[k].requestedLifetime = l
  <2>1. CASE hasVisitor(v, h, g)
    <3>1. PICK k \in DOMAIN v : v[k].MNhome = h /\ v[k].MNhomeAgent = g
      BY <2>1 DEF hasVisitor, VisitsOf
    <3>2. k \in VisitsOf(v, h, g)
      BY <3>1 DEF VisitsOf
    <3>3. w = setVisitorRequestedLifetime(v, h, g, l)
      BY <2>1
    <3> HIDE DEF w
    <3> QED
      BY <3>1, <3>2, <3>3, SetLifetime
  <2>2. CASE ~hasVisitor(v, h, g)
    <3>1. w = Append(v, e)
      BY <2>2
    <3> HIDE DEF w
    <3> QED
      BY <3>1
  <2> QED
    BY <2>1, <2>2
<1> HIDE DEF w
<1>2. PICK k \in DOMAIN w : /\ w[k].MNhome = h /\ w[k].MNhomeAgent = g
                            /\ w[k].requestedLifetime = l
  BY <1>1
<1>3. k \in VisitsOf(w, h, g)
  BY <1>2 DEF VisitsOf
<1>4. /\ k \in DOMAIN z /\ z[k].MNhome = h /\ z[k].MNhomeAgent = g
      /\ z[k].remainingLifetime = l
  BY <1>1, <1>2, <1>3, ResetLifetime
<1>5. l >= l
  BY PacketAssumption DEF UInt
<1> HIDE DEF z
<1> QED
  BY <1>4, <1>5 DEF VisitLasts, z, w

LEMMA LastsLess ==
  ASSUME NEW v \in Seq(MobilityBindingListItem), NEW H, NEW G, NEW n \in Nat, NEW k \in Nat,
         BindingLasts(v, H, G, n), k <= n
  PROVE  BindingLasts(v, H, G, k)
<1>1. UInt \in SUBSET Nat
  BY PacketAssumption DEF UInt
<1>2. ASSUME NEW i \in DOMAIN v PROVE v[i].remainingLifetime \in Nat
  <2>1. v[i] \in MobilityBindingListItem
    OBVIOUS
  <2> QED
    BY <1>1, <2>1, Zenon DEF MobilityBindingListItem
<1> QED
  BY <1>2 DEF BindingLasts

LEMMA VisitLastsLess ==
  ASSUME NEW v \in Seq(VisitorListItem), NEW H, NEW G, NEW n \in Nat, NEW k \in Nat,
         VisitLasts(v, H, G, n), k <= n
  PROVE  VisitLasts(v, H, G, k)
<1>1. UInt \in SUBSET Nat
  BY PacketAssumption DEF UInt
<1>2. ASSUME NEW i \in DOMAIN v PROVE v[i].remainingLifetime \in Nat
  <2>1. v[i] \in VisitorListItem
    OBVIOUS
  <2> QED
    BY <1>1, <2>1, Zenon DEF VisitorListItem
<1> QED
  BY <1>2 DEF VisitLasts

(***************************************************************************)
(* One list after the other.                                               *)
(***************************************************************************)
IsConcat(u, v, w) ==
  /\ \A k \in DOMAIN u : (\E i \in DOMAIN v : u[k] = v[i]) \/ (\E i \in DOMAIN w : u[k] = w[i])
  /\ \A i \in DOMAIN v : \E k \in DOMAIN u : u[k] = v[i]
  /\ \A i \in DOMAIN w : \E k \in DOMAIN u : u[k] = w[i]

LEMMA ConcatElements ==
  ASSUME NEW S, NEW v \in Seq(S), NEW w \in Seq(S)
  PROVE  IsConcat(v \o w, v, w)
<1> DEFINE u == v \o w
<1>1. /\ DOMAIN u = 1..(Len(v) + Len(w))
      /\ DOMAIN v = 1..Len(v) /\ DOMAIN w = 1..Len(w) /\ Len(v) \in Nat /\ Len(w) \in Nat
      /\ \A k \in DOMAIN u : u[k] = IF k <= Len(v) THEN v[k] ELSE w[k - Len(v)]
  OBVIOUS
<1> HIDE DEF u
<1>2. ASSUME NEW k \in DOMAIN u
      PROVE  (\E i \in DOMAIN v : u[k] = v[i]) \/ (\E i \in DOMAIN w : u[k] = w[i])
  <2>1. CASE k <= Len(v)
    BY <1>1, <2>1
  <2>2. CASE ~(k <= Len(v))
    <3>1. k - Len(v) \in DOMAIN w
      BY <1>1, <2>2
    <3> QED
      BY <1>1, <2>2, <3>1
  <2> QED
    BY <2>1, <2>2
<1>3. ASSUME NEW i \in DOMAIN v PROVE \E k \in DOMAIN u : u[k] = v[i]
  <2>1. i \in DOMAIN u /\ i <= Len(v)
    BY <1>1
  <2> QED
    BY <1>1, <2>1
<1>4. ASSUME NEW i \in DOMAIN w PROVE \E k \in DOMAIN u : u[k] = w[i]
  <2> DEFINE k == Len(v) + i
  <2>1. k \in DOMAIN u /\ ~(k <= Len(v)) /\ k - Len(v) = i
    BY <1>1
  <2> HIDE DEF k
  <2> QED
    BY <1>1, <2>1
<1>5. IsConcat(u, v, w)
  BY <1>2, <1>3, <1>4, Zenon DEF IsConcat
<1> QED
  BY <1>5 DEF u
=============================================================================
