------------------------------ MODULE PortExMC ------------------------------
(* Instances of PortEx for TLC: two ports with two pins each.               *)
EXTENDS PortEx

CONSTANTS portA, portB
=============================================================================
