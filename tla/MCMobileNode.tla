---------------------------- MODULE MCMobileNode ----------------------------
(***************************************************************************)
(* Small instances of the mobile node: its home agent on one link, two     *)
(* foreign agents on the other.  Lifetime 3 stands for infinity, and       *)
(* sequence numbers below 2 for those an agent uses only after a start.    *)
(***************************************************************************)
EXTENDS MobileIPSoliciter, TLC

CONSTANTS mn, any, bcast, haPub, haPriv, fa1, fa2, coa

MCAddr == {mn, any, bcast, haPub, haPriv, fa1, fa2, coa}

Advert(link, src, careOf, lifetime, seq, sum) ==
  [type |-> "ADVERTISEMENT", link |-> link, sum |-> sum, src |-> src,
   dst |-> bcast, careOf |-> careOf, lifetime |-> 1, registrationLifetime |-> lifetime,
   sequenceNumber |-> seq]

Reply(link, src, code, lifetime, id, dport, sum) ==
  [type |-> "REPLY", link |-> link, sum |-> sum,
   src |-> src, sport |-> RegistrationPort, dst |-> mn, dport |-> dport,
   code |-> code, lifetime |-> lifetime,
   home |-> mn, homeAgent |-> haPub, identification |-> id]

HomeAdvert == Advert("home", haPriv, any, 2, 0, "ok")

ForeignAdverts(Lifetimes, Seqs) ==
  {Advert("foreign", fa1, coa, l, s, "ok") : l \in Lifetimes, s \in Seqs}
OtherAdvert == Advert("foreign", fa2, coa, 2, 2, "ok")

MCAdverts == {HomeAdvert, OtherAdvert, Advert("foreign", fa1, coa, 2, 1, "zero")}
               \cup ForeignAdverts({2}, {0, 2}) \cup ForeignAdverts({3}, {2})

MCReplies ==
  {Reply("home", haPriv, 0, 0, 1, NodePort, "ok"),
   Reply("home", haPriv, 136, 2, 1, NodePort, "ok")} \cup
  {Reply("foreign", fa1, c, 1, 1, NodePort, "ok") : c \in {0, 69, 66}} \cup
  {Reply("foreign", fa1, 0, 3, 1, NodePort, "ok"),
   Reply("foreign", fa1, 0, 1, 1, 435, "ok"),
   Reply("foreign", fa1, 0, 1, 1, NodePort, "invalid"),
   Reply("foreign", fa1, 0, 1, 1, NodePort, "zero")}

\* One foreign agent, for the runs about the timers.
FewAdverts == {HomeAdvert, Advert("foreign", fa1, coa, 2, 2, "ok"),
               Advert("foreign", fa1, coa, 2, 2, "zero")}
FewReplies == {Reply("home", haPriv, 0, 0, 1, NodePort, "ok"),
               Reply("foreign", fa1, 0, 2, 1, NodePort, "ok"),
               Reply("foreign", fa1, 66, 2, 1, NodePort, "ok")}
=============================================================================
