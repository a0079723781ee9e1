------------------------------ MODULE Network ------------------------------
(***************************************************************************)
(* The links between the processes.  net is the set of the packets in      *)
(* flight, and a packet carries the link it is on; taking one out of the   *)
(* set in any order, or never, is how packets are overtaken and lost.      *)
(***************************************************************************)
EXTENDS MobileIPPackets

VARIABLE net
============================================================================
