------------------------------ MODULE DataPath ------------------------------
(***************************************************************************)
(* The elements that forward data: MobileIPEncapsulator in the home agent, *)
(* MobileIPDecapsulator in the foreign agent, MobileIPPacketTransformer in *)
(* the mobile node, and the MobileIPClassifier in front of them, as        *)
(* functions of the lists and of the node's connection.  A data packet is  *)
(* its source, destination and time to live; a tunnelled one carries the   *)
(* original.  A function returns the set of the packets it puts on its     *)
(* output: none when the packet is dropped.                                *)
(***************************************************************************)
EXTENDS MobilityBindingList, VisitorList

CONSTANT TTLMod   \* the ttl of an IP header is 8 bits: 256

ASSUME TTLAssumption == TTLMod \in Nat /\ TTLMod > 1

TTL == 0..(TTLMod - 1)
DataPacket == [type: {"IP"}, src: Addr, dst: Addr, ttl: TTL]
TunnelPacket == [type: {"IPINIP"}, src: Addr, dst: Addr, ttl: TTL, inner: DataPacket]

ttlLess(n) == IF n = 0 THEN TTLMod - 1 ELSE n - 1

\* Click's DecIPTTL: a packet whose time to live is over is not forwarded.
DecIPTTL(p) == IF p.ttl <= 1 THEN {} ELSE {[p EXCEPT !.ttl = @ - 1]}

----------------------------------------------------------------------------
\* addMapping and push of MobileIPClassifier: the output port of a packet type
\* under a configuration, which gives distinct ports other than 0 to the types
\* it names.
validMapping(mappings) ==
  /\ \A t \in DOMAIN mappings : mappings[t] # 0
  /\ \A t, u \in DOMAIN mappings : mappings[t] = mappings[u] => t = u

classify(mappings, type) == IF type \in DOMAIN mappings THEN mappings[type] ELSE 0

----------------------------------------------------------------------------
buildTunnelIPPacket(p, source, destination) ==
  [type |-> "IPINIP", src |-> source, dst |-> destination,
   ttl |-> ttlLess(p.ttl), inner |-> p]

\* MobileIPEncapsulator::push with the DecIPTTL behind its output 1, and the
\* route to the home link behind its output 0.  Left out: processIPHeader throws
\* what push does not catch when the checksum is 0 or the header has options,
\* which ends the home agent; it starts again as in HARestart.
encapsulate(bindings, public, p) ==
  IF isMobileBinded(bindings, p.dst)
  THEN DecIPTTL(buildTunnelIPPacket(p, public, getCareOfAddress(bindings, p.dst)))
  ELSE DecIPTTL(p)

\* MobileIPDecapsulator::push, processTunnelIPPacket and the DecIPTTL behind
\* them: a node that is no visitor of the sending home agent gets nothing.
decapsulate(visiting, t) ==
  IF hasVisitor(visiting, t.inner.dst, t.src)
  THEN DecIPTTL([t.inner EXCEPT !.ttl = t.ttl])
  ELSE {}

\* MobileIPPacketTransformer::push: the interface a packet of the node is sent
\* to, the agent's or the one of the gateway.  Left out: the branch for an
\* Ethernet broadcast, which reads the address from the first bytes of the IP
\* header; these are never all ones.
transform(isHome, mac, gateway) == IF ~isHome /\ mac # AnyAddr THEN mac ELSE gateway
============================================================================
