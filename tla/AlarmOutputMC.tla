---------------------------- MODULE AlarmOutputMC ---------------------------
(* Instances of AlarmOutput for TLC: the daemon's two worker threads.       *)
EXTENDS AlarmOutput

MCSuspendOn == [cb \in Callback |-> IF cb = "alarm_thread" THEN {"NONE"} ELSE {}]

ASSUME PoolIsDaemons == DaemonPool
=============================================================================
