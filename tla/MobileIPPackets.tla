-------------------------- MODULE MobileIPPackets --------------------------
(***************************************************************************)
(* The packets of the protocol as the elements see them: what              *)
(* PacketBuilders.cc writes and PacketProcessors.cc reads back.  A packet  *)
(* is the record of the fields some element looks at; addresses are        *)
(* opaque, and the eight option bits are the set of those that are on.     *)
(*                                                                         *)
(* Lifetimes are unsigned int in the elements and 16 bits on the wire.     *)
(* The widths are constants: Infinity stands for 65535, the largest wire   *)
(* lifetime and the one that never expires, SequenceMax for 65535 as a     *)
(* sequence number, and UIntMod for 2^32.                                  *)
(***************************************************************************)
EXTENDS Naturals

CONSTANTS
  Addr,           \* IP addresses
  AnyAddr,        \* 0.0.0.0
  BroadcastAddr,  \* 255.255.255.255
  Id,             \* values of a Timestamp::subsec() reading
  Infinity,       \* 65535
  SequenceMax,    \* 65535
  UIntMod         \* 2^32

ASSUME PacketAssumption ==
  /\ AnyAddr \in Addr
  /\ BroadcastAddr \in Addr
  /\ Id \subseteq Nat
  /\ Infinity \in Nat \ {0} /\ SequenceMax \in Nat \ {0}
  /\ UIntMod \in Nat
  /\ UIntMod > Infinity + 1 /\ UIntMod > SequenceMax + 1

UInt == 0..(UIntMod - 1)

\* n - 1 in unsigned arithmetic
MinusOne(n) == IF n = 0 THEN UIntMod - 1 ELSE n - 1

\* Mutated form: the value is written without being cut to 16 bits.
htons_wide(n) == n

\* htons of an unsigned int: the value the other side reads with ntohs
htons(n) == n % (Infinity + 1)

Minimum(a, b) == IF a < b THEN a ELSE b

RegistrationPort == 434
NodePort == 5241
AgentPort == 3581

\* A processed packet has a correct checksum, a wrong one, or an IP checksum
\* field that is zero; the processors throw on the last two.
Checksum == {"ok", "invalid", "zero"}
Link == {"home", "foreign", "public"}
Option == {"S", "B", "D", "M", "G", "r", "T", "x"}

RequestPacket ==
  [type: {"REGISTRATION"}, link: Link, sum: Checksum,
   src: Addr, sport: Nat, dst: Addr, dport: Nat,
   options: SUBSET Option, lifetime: 0..Infinity,
   home: Addr, homeAgent: Addr, careOf: Addr, identification: Id]

ReplyPacket ==
  [type: {"REPLY"}, link: Link, sum: Checksum,
   src: Addr, sport: Nat, dst: Addr, dport: Nat,
   code: Nat, lifetime: 0..Infinity,
   home: Addr, homeAgent: Addr, identification: Id]

AdvertPacket ==
  [type: {"ADVERTISEMENT"}, link: Link, sum: Checksum, src: Addr, dst: Addr,
   careOf: Addr, lifetime: 0..Infinity, registrationLifetime: 0..Infinity,
   sequenceNumber: 0..SequenceMax]

SolicitationPacket ==
  [type: {"SOLICITATION"}, link: Link, sum: Checksum, src: Addr, dst: Addr]

UDPIP(link, src, sport, dst, dport) ==
  [link |-> link, src |-> src, sport |-> sport, dst |-> dst, dport |-> dport]

\* A request for identification 0 leaves with another reading of the clock.
buildRegistrationRequest(hdr, lifetime, home, homeAgent, careOf, id, reading) ==
  [type |-> "REGISTRATION", link |-> hdr.link, sum |-> "ok",
   src |-> hdr.src, sport |-> hdr.sport, dst |-> hdr.dst, dport |-> hdr.dport,
   options |-> {}, lifetime |-> htons(lifetime),
   home |-> home, homeAgent |-> homeAgent, careOf |-> careOf,
   identification |-> IF id = 0 THEN reading ELSE id]

buildRegistrationReply(hdr, lifetime, code, home, homeAgent, id) ==
  [type |-> "REPLY", link |-> hdr.link, sum |-> "ok",
   src |-> hdr.src, sport |-> hdr.sport, dst |-> hdr.dst, dport |-> hdr.dport,
   code |-> code, lifetime |-> htons(lifetime),
   home |-> home, homeAgent |-> homeAgent, identification |-> id]

buildRouterAdvertisement(link, src, dst, lifetime, registrationLifetime, careOf, seq) ==
  [type |-> "ADVERTISEMENT", link |-> link, sum |-> "ok", src |-> src, dst |-> dst,
   careOf |-> careOf, lifetime |-> htons(lifetime),
   registrationLifetime |-> htons(registrationLifetime),
   sequenceNumber |-> seq % (SequenceMax + 1)]

buildRouterSolicitation(link, src, dst) ==
  [type |-> "SOLICITATION", link |-> link, sum |-> "ok", src |-> src, dst |-> dst]
============================================================================
