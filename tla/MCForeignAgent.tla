--------------------------- MODULE MCForeignAgent ---------------------------
(***************************************************************************)
(* Small instances of ForeignAgent: two mobile nodes of one home agent,    *)
(* whose identifications may coincide, and lifetimes of which 3 stands     *)
(* for infinity.                                                           *)
(***************************************************************************)
EXTENDS ForeignAgent, TLC

CONSTANTS h1, h2, any, bcast, faPub, faPriv, ha

MCAddr == {h1, h2, any, bcast, faPub, faPriv, ha}

Request(home, id, careOf, lifetime, options, dport, sum) ==
  [type |-> "REGISTRATION", link |-> "foreign", sum |-> sum,
   src |-> home, sport |-> NodePort, dst |-> faPriv, dport |-> dport,
   options |-> options, lifetime |-> lifetime,
   home |-> home, homeAgent |-> ha, careOf |-> careOf, identification |-> id]

Reply(home, id, code, lifetime, dport, sum) ==
  [type |-> "REPLY", link |-> "public", sum |-> sum,
   src |-> ha, sport |-> RegistrationPort, dst |-> faPub, dport |-> dport,
   code |-> code, lifetime |-> lifetime,
   home |-> home, homeAgent |-> ha, identification |-> id]

\* One of each kind that is turned down or ignored.
OddRequests ==
  {Request(h1, 1, faPub, 2, {"x"}, 434, "ok"), Request(h1, 1, ha, 2, {}, 434, "ok"),
   Request(h1, 1, faPub, 2, {"D", "T"}, 434, "ok"),
   Request(h1, 1, faPub, 2, {}, 435, "ok"), Request(h1, 1, faPub, 2, {}, 434, "zero")}

OddReplies ==
  {Reply(h1, 1, 0, 2, 435, "ok"), Reply(h1, 1, 0, 2, AgentPort, "invalid")}

GoodRequests ==
  {Request(h1, 1, faPub, l, {}, 434, "ok") : l \in {0, 2}} \cup
  {Request(h2, 0, faPub, 2, {}, 434, "ok"), Request(h2, 1, faPub, 3, {}, 434, "ok")}

GoodReplies(Lifetimes) ==
  {Reply(h1, 1, 0, l, AgentPort, "ok") : l \in Lifetimes} \cup
  {Reply(h1, 1, 128, 2, AgentPort, "ok"), Reply(h2, 1, 0, 2, AgentPort, "ok")}

MCRequests == GoodRequests \cup OddRequests
MCReplies == GoodReplies({2, 3}) \cup OddReplies
=============================================================================
