---------------------------- MODULE MCDiscovery ----------------------------
(***************************************************************************)
(* Agent discovery with one foreign agent in real time; the home agent and *)
(* a second foreign agent advertise at any time.  Time passes in seconds;  *)
(* the default lifetime 12 keeps the order of the code's times: the wait   *)
(* after a start (3) is shorter than the interval between advertisements   *)
(* (4, in the code 15).                                                    *)
(***************************************************************************)
EXTENDS Discovery, TLC

CONSTANTS mn, other, any, bcast, haPub, haPriv, fa, fa2, coa

MCAddr == {mn, other, any, bcast, haPub, haPriv, fa, fa2, coa}
MCLinkOf == [a \in Advertisers |-> "foreign"]
MCCareOf == [a \in Advertisers |-> coa]

MCOtherAdverts ==
  {buildRouterAdvertisement("home", haPriv, bcast, 3, Infinity, haPub, 2),
   buildRouterAdvertisement("foreign", fa2, bcast, 3, Infinity, coa, 2)}
============================================================================
