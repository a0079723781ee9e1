---------------------------- MODULE MCHomeAgent ----------------------------
(***************************************************************************)
(* Small instances of HomeAgent.  Two mobile nodes, two foreign agents;    *)
(* lifetimes are 0 (deregister), 2 (counted down) and 3, which stands for  *)
(* infinity.                                                               *)
(***************************************************************************)
EXTENDS HomeAgent, TLC

CONSTANTS h1, h2, c1, c2, other, any, bcast, haPub, haPriv

MCAddr == {h1, h2, c1, c2, other, any, bcast, haPub, haPriv}

\* A request the node sends to the home link, or one a foreign agent relays.
Request(link, home, homeAgent, careOf, lifetime, options, dport, sum) ==
  [type |-> "REGISTRATION", link |-> link, sum |-> sum,
   src |-> IF link = "home" THEN home ELSE careOf,
   sport |-> IF link = "home" THEN NodePort ELSE AgentPort,
   dst |-> IF link = "home" THEN haPriv ELSE homeAgent, dport |-> dport,
   options |-> options, lifetime |-> lifetime,
   home |-> home, homeAgent |-> homeAgent, careOf |-> careOf,
   identification |-> 1]

GoodRequests(Homes, Lifetimes) ==
  {Request("public", h, haPub, c, l, {}, 434, "ok") :
     h \in Homes, c \in {c1, c2}, l \in Lifetimes} \cup
  {Request("home", h, haPub, c1, 0, {}, 434, "ok") : h \in Homes} \cup
  {Request("home", h, haPub, h, 0, {}, 434, "ok") : h \in Homes}

\* One of each kind that is turned down.
OddRequests ==
  {Request("public", h1, haPub, c1, 2, {"r"}, 434, "ok"),
   Request("public", h1, haPub, c1, 2, {"M"}, 434, "ok"),
   Request("public", h1, other, c1, 2, {}, 434, "ok"),
   Request("public", h1, haPub, c1, 2, {}, 435, "ok"),
   Request("public", h1, haPub, c1, 2, {}, 434, "invalid")}

\* The first node registers in every way, the second one with one agent.
MCRequests ==
  GoodRequests({h1}, {0, 1, 2, 3}) \cup OddRequests \cup
  {Request("public", h2, haPub, c1, l, {}, 434, "ok") : l \in {0, 2, 3}}
============================================================================
