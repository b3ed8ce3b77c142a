---------------------------- MODULE AlarmLoopMC -----------------------------
(* Instances of AlarmLoop for TLC: three configurations, one of them with   *)
(* thresholds of zero, and counters that wrap at SIZE.                      *)
EXTENDS AlarmLoop

ConfA == [minrecvd |-> 2, minalarm |-> 1, rstalarm |-> 2]
ConfB == [minrecvd |-> 1, minalarm |-> 2, rstalarm |-> 1]
ConfZ == [minrecvd |-> 1, minalarm |-> 0, rstalarm |-> 0]

MCConf == {ConfA, ConfB, ConfZ}
MCDefConf == ConfA
=============================================================================
