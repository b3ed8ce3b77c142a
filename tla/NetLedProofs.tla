---------------------------- MODULE NetLedProofs ----------------------------
(* No LED of netled is left burning, for every even queue limit and every    *)
(* traffic.                                                                  *)
EXTENDS NetLed, TLAPS

BlinkInv == TypeOK /\ LedParity

\* The invariant holds initially.
LEMMA InitBlinkInv == Init => BlinkInv
BY NetLedAssumption DEF Init, BlinkInv, TypeOK, LedParity, icmp, susp

\* Parity of a number changes with every step by one.
LEMMA ParityFlips ==
  ASSUME NEW n \in Nat
  PROVE  /\ n % 2 \in {0, 1}
         /\ (n + 2) % 2 = n % 2
         /\ n > 0 => ((n - 1) % 2 = 1 <=> n % 2 = 0)
OBVIOUS

\* Queueing a blink keeps the invariant: two changes are added.
LEMMA HandleBlinkInv ==
  ASSUME BlinkInv, NEW i \in Entry, NEW pkt \in Packet, Handle(i, pkt)
  PROVE  BlinkInv'
<1> USE NetLedAssumption DEF BlinkInv, Handle
<1>1. blink_count[i] \in Nat /\ blink_count[i] <= LIMIT + 1
  BY DEF TypeOK
<1>2. blink_count'[i] \in 0 .. LIMIT + 1
  BY <1>1 DEF TypeOK
<1>3. TypeOK'
  BY <1>2 DEF TypeOK
<1>4. blink_count'[i] % 2 = blink_count[i] % 2
  BY <1>1, ParityFlips DEF TypeOK
<1>5. LedParity'
  BY <1>4 DEF LedParity, TypeOK
<1> QED
  BY <1>3, <1>5

\* A step of the blinker thread keeps the invariant.
LEMMA BlinkBlinkInv ==
  ASSUME BlinkInv, Blink
  PROVE  BlinkInv'
<1> USE NetLedAssumption DEF BlinkInv, Blink, TypeOK
<1>1. blink_count[pos] \in Nat /\ pos \in Entry
  OBVIOUS
<1>2. TypeOK'
  BY <1>1 DEF icmp, susp
<1>3. ASSUME NEW i \in Entry
      PROVE  (led'[i] = "HIGH") <=> (blink_count'[i] % 2 = 1)
  <2>1. CASE i # pos
    BY <2>1 DEF LedParity
  <2>2. CASE i = pos /\ blink_count[pos] = 0
    BY <2>2 DEF LedParity
  <2>3. CASE i = pos /\ blink_count[pos] # 0
    BY <2>3, <1>1, ParityFlips
  <2> QED
    BY <2>1, <2>2, <2>3
<1> QED
  BY <1>2, <1>3 DEF LedParity

\* Every step keeps the invariant.
LEMMA NextBlinkInv == BlinkInv /\ [Next]_vars => BlinkInv'
<1> SUFFICES ASSUME BlinkInv, [Next]_vars PROVE BlinkInv'
  OBVIOUS
<1>1. CASE UNCHANGED vars
  BY <1>1 DEF vars, BlinkInv, TypeOK, LedParity
<1>2. CASE Receive
  BY <1>1, <1>2, HandleBlinkInv DEF Receive, Unhandled
<1>3. CASE Blink
  BY <1>3, BlinkBlinkInv
<1> QED
  BY <1>1, <1>2, <1>3 DEF Next

\* A lit LED always has an odd number of changes left, so the blinker thread
\* switches it off before its queue is empty.
THEOREM LitHasChangesLeft == Spec => []LedParity
<1>1. BlinkInv => LedParity
  BY DEF BlinkInv
<1> QED
  BY <1>1, InitBlinkInv, NextBlinkInv, PTL DEF Spec

\* The queue of blinks never exceeds its limit by more than one.
THEOREM QueueIsBounded == Spec => []TypeOK
<1>1. BlinkInv => TypeOK
  BY DEF BlinkInv
<1> QED
  BY <1>1, InitBlinkInv, NextBlinkInv, PTL DEF Spec
=============================================================================
