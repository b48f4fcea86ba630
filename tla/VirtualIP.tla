------------------------------ MODULE VirtualIP -----------------------------
(***************************************************************************)
(* The network layer of a server with the transport layer's UDP.  TCP is   *)
(* INET's and knows IP addresses; the network knows server addresses.  0   *)
(* is no IP address, so the two are one apart.  A TCP segment comes with   *)
(* the addresses of its control info.                                      *)
(***************************************************************************)
EXTENDS Naturals

convertDCAddressToIP(address) == address + 1
convertIPAddressToDC(address) == address - 1

(* A segment in a packet; the port stamps it later.                        *)
encapsulateTCP(segment) ==
  [srcAddr |-> convertIPAddressToDC(segment.srcIP),
   destAddr |-> convertIPAddressToDC(segment.destIP),
   transportProtocol |-> "TCP", conn |-> segment.conn, kind |-> segment.kind,
   bytes |-> segment.bytes, timestamp |-> 0]

decapsulateTCP(pkt) ==
  [srcIP |-> convertDCAddressToIP(pkt.srcAddr),
   destIP |-> convertDCAddressToIP(pkt.destAddr),
   conn |-> pkt.conn, kind |-> pkt.kind, bytes |-> pkt.bytes]

(* The protocol tells which layer above a packet from the network is for.  *)
toTcp(pkt) == pkt.transportProtocol = "TCP"
toUdp(pkt) == pkt.transportProtocol = "UDP"

(* UDP packets pass SimpleUDP and the network layer as the application     *)
(* made them.                                                              *)
UDPPacket(src, dest, bytes) ==
  [srcAddr |-> src, destAddr |-> dest, transportProtocol |-> "UDP",
   conn |-> <<src, dest>>, kind |-> "UDP", bytes |-> bytes, timestamp |-> 0]
=============================================================================
