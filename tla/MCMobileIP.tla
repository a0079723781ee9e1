----------------------------- MODULE MCMobileIP -----------------------------
(***************************************************************************)
(* The smallest system: one node, one home agent, one foreign agent.       *)
(***************************************************************************)
EXTENDS MobileIP, TLC

CONSTANTS mn, any, bcast, haPub, haPriv, faPub, faPriv

MCAddr == {mn, any, bcast, haPub, haPriv, faPub, faPriv}
=============================================================================
