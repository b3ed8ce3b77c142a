------------------------------ MODULE PortBank ------------------------------
(***************************************************************************)
(* What the portex driver promises to a user of /sys/class/portex: a write *)
(* asks for exactly the pins it names, once per port, and leaves the       *)
(* others as they were asked for; a transfer brings a port to everything   *)
(* it was asked for, earlier requests whose transfer failed included;      *)
(* unloading the module switches ports off and loading it forgets what was *)
(* asked for.                                                              *)
(***************************************************************************)
CONSTANTS
  Writer,   \* open sysfs files that are written to
  Port,     \* ports of the expander
  Pin       \* pins of one port

VARIABLES
  ask,     \* [Writer -> Ask]: what a write has still to ask for
  want,    \* [Port -> SUBSET Pin]: the pins that were asked to be high
  level    \* [Port -> SUBSET Pin]: the pins that are high

\* The pins of mask on each of the ports are to become high, or low.
Ask  == [ports: SUBSET Port, mask: SUBSET Pin, high: BOOLEAN]
None == [ports |-> {}, mask |-> {}, high |-> FALSE]

AllLow == [p \in Port |-> {}]

Init ==
  /\ ask = [w \in Writer |-> None]
  /\ want = AllLow
  /\ level = AllLow

\* A write to gpioN (one pin of one port) or to gpio_all begins.
Call(w) ==
  /\ ask[w] = None
  /\ \E a \in Ask :
       /\ \/ \E p \in Port, n \in Pin : a.ports = {p} /\ a.mask = {n}
          \/ a.ports = Port /\ a.mask = Pin
       /\ ask' = [ask EXCEPT ![w] = a]
  /\ UNCHANGED <<want, level>>

\* One port of the write is taken down.
Accept(w, p) ==
  LET a == ask[w]  rest == a.ports \ {p} IN
  /\ p \in a.ports
  /\ want' = [want EXCEPT ![p] = IF a.high THEN @ \cup a.mask ELSE @ \ a.mask]
  /\ ask' = [ask EXCEPT ![w] = IF rest = {} THEN None
                                            ELSE [a EXCEPT !.ports = rest]]
  /\ UNCHANGED level

Transfer(p) == level' = [level EXCEPT ![p] = want[p]] /\ UNCHANGED <<ask, want>>

NoCall == \A w \in Writer : ask[w] = None

Load == NoCall /\ want' = AllLow /\ UNCHANGED <<ask, level>>

Unload ==
  /\ NoCall
  /\ \E off \in SUBSET Port :
       level' = [p \in Port |-> IF p \in off THEN {} ELSE level[p]]
  /\ UNCHANGED <<ask, want>>

Next ==
  \/ \E w \in Writer : Call(w) \/ \E p \in Port : Accept(w, p)
  \/ \E p \in Port : Transfer(p)
  \/ Load
  \/ Unload

Spec == Init /\ [][Next]_<<ask, want, level>>
=============================================================================
