---------------------------- MODULE AlarmCycleMC ----------------------------
(* An instance of AlarmCycle for TLC: the smallest counters; minrecvd may    *)
(* change.                                                                   *)
EXTENDS AlarmCycle

MCConf == [minrecvd: {0, 1}, minalarm: {0}, rstalarm: {0}]
MCDefConf == [minrecvd |-> 1, minalarm |-> 0, rstalarm |-> 0]
=============================================================================
