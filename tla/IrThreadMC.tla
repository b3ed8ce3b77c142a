----------------------------- MODULE IrThreadMC -----------------------------
(* Instances of IrThread for TLC.  There are two callbacks, as in iralarmd:  *)
(* cbStatus never suspends its worker, cbAlarm does on one of its data.      *)
EXTENDS IrThread, TLC

CONSTANTS cbStatus, cbAlarm, dNone, dAlarm

MCSuspendOn == (cbStatus :> {}) @@ (cbAlarm :> {dNone})

\* Every callback is harmless: test.c's __thread_func.
MCNeverSuspends == [cb \in Callback |-> {}]

ClientSymmetry == Permutations(Client)
=============================================================================
