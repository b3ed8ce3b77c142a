------------------------------ MODULE NetLedMC ------------------------------
(* An instance of NetLed for TLC: ICMP, UDP and TCP packets, ARP packets    *)
(* whose hardware address has or has not 1 where IPv4 has its protocol, an  *)
(* IPv6 packet, an unknown and a truncated frame.                           *)
EXTENDS NetLed

Pkt(type, ip_p, full) == [type |-> type, ip_p |-> ip_p, full |-> full]

MCPacket ==
  {Pkt("IP", 1, TRUE), Pkt("IP", 17, TRUE), Pkt("IP", 6, TRUE),
   Pkt("ARP", 0, TRUE), Pkt("ARP", 1, TRUE), Pkt("IPV6", 0, TRUE),
   Pkt("OTHER", 0, TRUE), Pkt("OTHER", 0, FALSE)}
MCEntry == 0 .. 3
=============================================================================
