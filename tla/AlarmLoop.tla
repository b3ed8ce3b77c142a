----------------------------- MODULE AlarmLoop ------------------------------
(***************************************************************************)
(* What the main loop of iralarmd promises (src/iralarm/iralarmd.c): the   *)
(* light barrier delivers flanks, and once per cycle the daemon counts     *)
(* quiet cycles and cycles with enough flanks and moves its alarm state.   *)
(* Here a cycle, a flank and a reload of the configuration are one step    *)
(* each; AlarmCycle has the semaphore, the interrupt thread and the signal *)
(* handler, and is shown to implement this module.                         *)
(***************************************************************************)
EXTENDS Integers

CONSTANTS
  Conf,       \* the configurations iralarmctl may publish
  DefConf,    \* the compiled-in one
  SIZE,       \* size_t counters wrap at SIZE (2^32 on the target)
  MaxFlanks,  \* bound: flanks received between two cycles
  GRACE,      \* seconds a PREACTIVE alarm waits (10 in the code)
  BACK,       \* bound: how far before ir_alrm_start the clock may be set
  Stored      \* bound: what iralarmctl stores as SHM_ALARM, "OTHER" for a
              \* byte that is no alarm state

State == {"NONE", "PREACTIVE", "ACTIVE"}

ASSUME LoopAssumption ==
  /\ SIZE \in Nat \ {0}
  /\ MaxFlanks \in 0 .. SIZE - 1
  /\ GRACE \in Nat /\ BACK \in Nat
  /\ Conf \subseteq [minrecvd: Nat, minalarm: Nat, rstalarm: Nat]
  /\ DefConf \in Conf

VARIABLES
  ir_recvd,        \* flanks since the last cycle
  ir_alrm_cycls,   \* quiet cycles, minus cycles with enough flanks
  ir_recvd_cycls,  \* cycles with enough flanks since the last transition
  astate,          \* alarm state
  since,           \* time(NULL) - ir_alrm_start, in -BACK .. GRACE + 1
  conf,            \* the daemon's copy of the thresholds
  s_astate,        \* the alarm state in shared memory
  shown,           \* history: the alarm state the daemon stored there last
  quiet,           \* history: quiet cycles since astate last became NONE
  beams            \* history: cycles with enough flanks since astate changed

vars == <<ir_recvd, ir_alrm_cycls, ir_recvd_cycls, astate, since, conf,
          s_astate, shown, quiet, beams>>

Init ==
  /\ ir_recvd = 0
  /\ ir_alrm_cycls = 0
  /\ ir_recvd_cycls = 0
  /\ astate = "NONE"
  /\ since = 0
  /\ conf = DefConf
  /\ s_astate = "NONE" /\ shown = "NONE"
  /\ quiet = 0
  /\ beams = 0

-----------------------------------------------------------------------------
\* ++ on a size_t.
Inc(n) == (n + 1) % SIZE

\* The history counters stop at SIZE.
Upto(n) == IF n < SIZE THEN n + 1 ELSE n

\* ir_flank: a falling edge of the receiver.
Flank ==
  /\ ir_recvd < MaxFlanks
  /\ ir_recvd' = Inc(ir_recvd)
  /\ UNCHANGED <<ir_alrm_cycls, ir_recvd_cycls, astate, since, conf, s_astate,
                 shown, quiet, beams>>

\* Too few flanks arrived since the last cycle.
Quiet == ir_recvd < conf.minrecvd

\* Mutants: the branches swapped.
AlrmCyclsSwapped ==
  IF ~Quiet THEN Inc(ir_alrm_cycls)
  ELSE IF ir_alrm_cycls > 0 THEN ir_alrm_cycls - 1 ELSE 0
RecvdCyclsSwapped == IF Quiet THEN Inc(ir_recvd_cycls) ELSE ir_recvd_cycls

\* The counters as the first half of the cycle leaves them.
AlrmCycls ==
  IF Quiet THEN Inc(ir_alrm_cycls)
  ELSE IF ir_alrm_cycls > 0 THEN ir_alrm_cycls - 1 ELSE 0
RecvdCycls == IF Quiet THEN ir_recvd_cycls ELSE Inc(ir_recvd_cycls)

\* Mutant: no grace period.
RaiseActive ==
  /\ astate = "NONE"
  /\ AlrmCycls > conf.minalarm
  /\ astate' = "ACTIVE"
  /\ since' = 0
  /\ ir_recvd_cycls' = 0
  /\ ir_alrm_cycls' = AlrmCycls

\* case ALRM_NONE: the alarm starts and the grace period begins.
Raise ==
  /\ astate = "NONE"
  /\ AlrmCycls > conf.minalarm
  /\ astate' = "PREACTIVE"
  /\ since' = 0
  /\ ir_recvd_cycls' = 0
  /\ ir_alrm_cycls' = AlrmCycls

\* Mutant: ir_recvd_cycls is not reset.
EscalateNoReset ==
  /\ astate = "PREACTIVE"
  /\ since > GRACE
  /\ astate' = "ACTIVE"
  /\ ir_recvd_cycls' = RecvdCycls
  /\ ir_alrm_cycls' = AlrmCycls
  /\ UNCHANGED since

\* case ALRM_PREACTIVE: the grace period is over.
Escalate ==
  /\ astate = "PREACTIVE"
  /\ since > GRACE
  /\ astate' = "ACTIVE"
  /\ ir_recvd_cycls' = 0
  /\ ir_alrm_cycls' = AlrmCycls
  /\ UNCHANGED since

\* Mutant: ir_alrm_cycls keeps its value.
ClearNoReset ==
  /\ \/ astate = "ACTIVE"
     \/ astate = "PREACTIVE" /\ ~(since > GRACE)
  /\ RecvdCycls > conf.rstalarm
  /\ astate' = "NONE"
  /\ ir_alrm_cycls' = AlrmCycls
  /\ ir_recvd_cycls' = RecvdCycls
  /\ UNCHANGED since

\* case ALRM_PREACTIVE and case ALRM_ACTIVE: the barrier is closed again.
Clear ==
  /\ \/ astate = "ACTIVE"
     \/ astate = "PREACTIVE" /\ ~(since > GRACE)
  /\ RecvdCycls > conf.rstalarm
  /\ astate' = "NONE"
  /\ ir_alrm_cycls' = 0
  /\ ir_recvd_cycls' = RecvdCycls
  /\ UNCHANGED since

\* No case of the switch changes the state.
NoCase ==
  ~ \/ astate = "NONE" /\ AlrmCycls > conf.minalarm
    \/ astate = "PREACTIVE" /\ (since > GRACE \/ RecvdCycls > conf.rstalarm)
    \/ astate = "ACTIVE" /\ RecvdCycls > conf.rstalarm

\* Mutant: time(&ir_alrm_start) in every cycle of the warning.
StayRestarts ==
  /\ NoCase
  /\ ir_alrm_cycls' = AlrmCycls
  /\ ir_recvd_cycls' = RecvdCycls
  /\ since' = IF astate = "PREACTIVE" THEN 0 ELSE since
  /\ UNCHANGED astate

\* Only the counters move.
Stay ==
  /\ NoCase
  /\ ir_alrm_cycls' = AlrmCycls
  /\ ir_recvd_cycls' = RecvdCycls
  /\ UNCHANGED <<astate, since>>

\* History: the counters start again when astate becomes NONE, or changes.
Record ==
  /\ quiet' = IF astate' = "NONE" /\ astate # "NONE" THEN 0
              ELSE IF Quiet THEN Upto(quiet) ELSE quiet
  /\ beams' = IF astate' # astate THEN 0
              ELSE IF Quiet THEN beams ELSE Upto(beams)

\* One turn of for (;;).  The state is published before it changes.
Cycle ==
  /\ s_astate' = astate /\ shown' = astate
  /\ Raise \/ Escalate \/ Clear \/ Stay
  /\ Record
  /\ ir_recvd' = 0
  /\ UNCHANGED conf

\* SIGHUP: the thresholds are read again from shared memory.
Reload ==
  /\ conf' \in Conf
  /\ UNCHANGED <<ir_recvd, ir_alrm_cycls, ir_recvd_cycls, astate, since,
                 s_astate, shown, quiet, beams>>

\* do_set of iralarmctl on SHM_ALARM: it accepts every object and every value.
\* The daemon never reads this one.
Overwrite ==
  /\ s_astate' \in Stored
  /\ UNCHANGED <<ir_recvd, ir_alrm_cycls, ir_recvd_cycls, astate, since, conf,
                 shown, quiet, beams>>

clockVars == <<ir_recvd, ir_alrm_cycls, ir_recvd_cycls, astate, conf, s_astate,
               shown, quiet, beams>>

\* time() advances; it matters only while the alarm is PREACTIVE.
Tick ==
  /\ astate = "PREACTIVE" /\ since <= GRACE
  /\ since' = since + 1
  /\ UNCHANGED clockVars

\* The wall clock is set, back or forth: the grace period is measured with
\* time(), not with a monotonic clock.
ClockStep ==
  /\ astate = "PREACTIVE"
  /\ since' \in -BACK .. GRACE + 1
  /\ UNCHANGED clockVars

Next == Flank \/ Cycle \/ Reload \/ Overwrite \/ Tick \/ ClockStep

Spec == Init /\ [][Next]_vars

\* The loop never stops and time passes.
FairSpec == Spec /\ WF_vars(Cycle) /\ WF_vars(Tick)

-----------------------------------------------------------------------------
\* Types of the main loop's state; the size_t counters never go below zero: the
\* one that is decremented is tested first.
TypeOK ==
  /\ ir_recvd \in 0 .. MaxFlanks
  /\ ir_alrm_cycls \in 0 .. SIZE - 1
  /\ ir_recvd_cycls \in 0 .. SIZE - 1
  /\ astate \in State
  /\ since \in -BACK .. GRACE + 1
  /\ conf \in Conf
  /\ s_astate \in State \cup Stored
  /\ shown \in State
  /\ quiet \in 0 .. SIZE
  /\ beams \in 0 .. SIZE

\* No alarm without cause: since the last alarm was cleared there were more
\* quiet cycles than ir_minalarm, however reloads and wrap-around interleave.
NoFalseAlarm ==
  [][astate = "NONE" /\ astate' # "NONE"
       => quiet' > conf.minalarm]_vars

\* No early all-clear: the state that is left saw more than ir_rstalarm cycles
\* with enough flanks, the last one included.
NoEarlyClear ==
  [][astate # "NONE" /\ astate' = "NONE"
       => beams + (IF Quiet THEN 0 ELSE 1) > conf.rstalarm]_vars

\* The daemon never publishes ACTIVE where its last publication was NONE, in
\* whatever way iralarmctl overwrites the object in between.  (A reader that
\* polls may miss the warning, and until the next cycle it may find what
\* another iralarmctl has stored.)
NoSkippedWarning ==
  [][Cycle /\ s_astate' = "ACTIVE" => shown # "NONE"]_vars

\* A barrier that stays interrupted raises an alarm again and again.
InterruptedBarrierAlarms ==
  <>[][Cycle => Quiet]_vars => []<>(astate # "NONE")

\* A barrier that stays closed clears every alarm.
ClosedBarrierClears ==
  <>[][Cycle => ~Quiet]_vars => []<>(astate = "NONE")

\* A warning becomes an alarm or is withdrawn, unless the wall clock is set
\* back for ever.
ClockBack == ClockStep /\ since' < since
WarningEnds ==
  <>[][~ClockBack]_vars => (astate = "PREACTIVE" ~> astate # "PREACTIVE")
=============================================================================
