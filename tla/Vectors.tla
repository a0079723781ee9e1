------------------------------ MODULE Vectors ------------------------------
(***************************************************************************)
(* The std::vector idioms the three lists of src/elements/lists are made   *)
(* of.  A vector is a sequence; push_back is Append, back() the last       *)
(* element.  The loop                                                      *)
(*                                                                         *)
(*     for(auto it = v.begin(); it != v.end();)                            *)
(*       if(...) it = v.erase(it); else it++;                              *)
(*                                                                         *)
(* visits every element once and keeps the others in their order: it is    *)
(* Retain(v, K), K being the set of the positions that are not erased.     *)
(* Retain is written with the increasing enumeration of K, and not with    *)
(* SelectSeq, so that its properties can be proved (CommonProofs).         *)
(***************************************************************************)
EXTENDS Naturals, Sequences, FiniteSets

IsAscending(m, K) ==
  /\ \A k \in K : \E i \in 1..Cardinality(K) : m[i] = k
  /\ \A i, j \in 1..Cardinality(K) : i < j => m[i] < m[j]

\* The members of the finite set K of numbers, in increasing order.
Ascending(K) == CHOOSE m \in [1..Cardinality(K) -> K] : IsAscending(m, K)

\* What is left of v when every position outside K is erased.
Retain(v, K) == [i \in 1..Cardinality(K) |-> v[Ascending(K)[i]]]

\* The first position of v that is in K, as a scan from begin() finds it.
FirstOf(K) == CHOOSE k \in K : \A j \in K : k <= j

\* v without its element at position k, for a scan that stops after one erase.
EraseAt(v, k) == Retain(v, DOMAIN v \ {k})
============================================================================
