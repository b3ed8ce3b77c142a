------------------------------- MODULE NetLed -------------------------------
(***************************************************************************)
(* netled (src/netled/sniffer.c): libpcap hands packets to parse_packet in *)
(* the main thread, which gives them to the first matching entry of the    *)
(* table p2f; the blinker thread turns every entry's blink_count into      *)
(* alternating LED HIGH and LED LOW.  The two share the counters, each     *)
(* under a mutex of its own.                                               *)
(***************************************************************************)
EXTENDS Naturals

CONSTANTS
  LIMIT,    \* no more blinks are queued at this count (4 in the code)
  Entry,    \* positions of the table p2f, 0 .. p2f_siz - 1
  Packet    \* the packets on the wire

\* What the callbacks look at: the Ethernet type, the byte where an IPv4 header
\* has its protocol, and whether a whole Ethernet header was captured.
PacketType == [type: {"IP", "IPV6", "ARP", "OTHER"}, ip_p: Nat, full: BOOLEAN]

icmp == 0
udp  == 1
arp  == 2
susp == 3

ASSUME NetLedAssumption ==
  /\ LIMIT \in Nat /\ LIMIT % 2 = 0
  /\ Entry = icmp .. susp
  /\ Packet \subseteq PacketType

VARIABLES
  blink_count,  \* [Entry -> Nat]
  led,          \* [Entry -> {"LOW", "HIGH"}]: what the blinker last showed
  pos           \* the entry the blinker thread looks at next

vars == <<blink_count, led, pos>>

Init ==
  /\ blink_count = [i \in Entry |-> 0]
  /\ led = [i \in Entry |-> "LOW"]
  /\ pos = icmp

-----------------------------------------------------------------------------
\* The callbacks.  The first two look at the protocol byte whatever the
\* Ethernet type is.
Matches(i, pkt) ==
  CASE i = icmp -> pkt.ip_p = 1
    [] i = udp  -> pkt.ip_p = 17
    [] i = arp  -> pkt.full /\ pkt.type = "ARP"
    [] i = susp -> pkt.full /\ pkt.type = "OTHER"

\* The BPF filter "icmp or udp or arp or (!ip)".
Captured(pkt) == pkt.type = "IP" => pkt.ip_p \in {1, 17}

FirstMatch(i, pkt) ==
  Matches(i, pkt) /\ \A j \in Entry : j < i => ~Matches(j, pkt)

\* Mutant: a blink counts one change.
HandleOne(i, pkt) ==
  /\ Captured(pkt)
  /\ FirstMatch(i, pkt)
  /\ blink_count' = [blink_count EXCEPT ![i] = IF @ < LIMIT THEN @ + 1 ELSE @]
  /\ UNCHANGED <<led, pos>>

\* p2f_callbacks: queue one more blink, unless enough are queued.
Handle(i, pkt) ==
  /\ Captured(pkt)
  /\ FirstMatch(i, pkt)
  /\ blink_count' = [blink_count EXCEPT ![i] = IF @ < LIMIT THEN @ + 2 ELSE @]
  /\ UNCHANGED <<led, pos>>

\* parse_packet: nobody could process the packet.
Unhandled(pkt) ==
  /\ Captured(pkt)
  /\ \A i \in Entry : ~Matches(i, pkt)
  /\ UNCHANGED vars

\* Mutants: the count is not decremented; the last entry is never looked at.
BlinkForever ==
  /\ led' = [led EXCEPT ![pos] =
               IF blink_count[pos] = 0 THEN @
               ELSE IF blink_count[pos] % 2 = 0 THEN "HIGH" ELSE "LOW"]
  /\ pos' = IF pos = susp THEN icmp ELSE pos + 1
  /\ UNCHANGED blink_count

BlinkShort ==
  /\ blink_count' = [blink_count EXCEPT ![pos] = IF @ > 0 THEN @ - 1 ELSE 0]
  /\ led' = [led EXCEPT ![pos] =
               IF blink_count[pos] = 0 THEN @
               ELSE IF blink_count[pos] % 2 = 0 THEN "HIGH" ELSE "LOW"]
  /\ pos' = IF pos + 1 = susp THEN icmp ELSE pos + 1

\* blinker_thread looks at one entry; after the last one it sleeps.
Blink ==
  /\ blink_count' = [blink_count EXCEPT ![pos] = IF @ > 0 THEN @ - 1 ELSE 0]
  /\ led' = [led EXCEPT ![pos] =
               IF blink_count[pos] = 0 THEN @
               ELSE IF blink_count[pos] % 2 = 0 THEN "HIGH" ELSE "LOW"]
  /\ pos' = IF pos = susp THEN icmp ELSE pos + 1

Receive == \E pkt \in Packet : Unhandled(pkt) \/ \E i \in Entry : Handle(i, pkt)

Next == Receive \/ Blink

Spec == Init /\ [][Next]_vars

\* The blinker thread never stops; no packet has to arrive.
FairSpec == Spec /\ WF_vars(Blink)

-----------------------------------------------------------------------------
\* Types of the sniffer's state; the queue of LED changes, blink_count, never
\* exceeds p2f_callbacks' limit by more than one.
TypeOK ==
  /\ blink_count \in [Entry -> 0 .. LIMIT + 1]
  /\ led \in [Entry -> {"LOW", "HIGH"}]
  /\ pos \in Entry

\* A lit LED has an odd number of changes left and a dark one an even number,
\* however packets and blinks interleave: an LED never stays lit for good.
LedParity ==
  \A i \in Entry : (led[i] = "HIGH") <=> (blink_count[i] % 2 = 1)

\* Under any traffic every LED goes dark again and again.
NeverStuckOn == \A i \in Entry : []<>(led[i] = "LOW")

\* Every queued blink is shown.
QueuedBlinkIsShown == \A i \in Entry : (blink_count[i] >= 2) ~> (led[i] = "HIGH")
=============================================================================
