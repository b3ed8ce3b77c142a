-------------------------- MODULE AlarmLoopProofs ---------------------------
(* The alarm decision of iralarmd for all thresholds, counter widths, grace  *)
(* periods and sequences of reloads.                                         *)
EXTENDS AlarmLoop, TLAPS

\* In state NONE the counter never runs ahead of the quiet cycles since the
\* last all-clear: a counter that kept its value from before would.
QuietBound == astate = "NONE" => ir_alrm_cycls <= quiet

\* In an alarm the counter never runs ahead of the good cycles of this state.
BeamBound == astate # "NONE" => ir_recvd_cycls <= beams

\* What the daemon published last is the current state or its predecessor.
PublishedBound == shown = "NONE" => astate # "ACTIVE"

LoopInv == TypeOK /\ QuietBound /\ BeamBound /\ PublishedBound

\* A size_t increment stays in range and adds at most one.
LEMMA IncBound ==
  ASSUME NEW n \in 0 .. SIZE - 1
  PROVE  Inc(n) \in 0 .. SIZE - 1 /\ Inc(n) <= n + 1
<1>1. SIZE \in Nat \ {0}
  BY LoopAssumption
<1>2. n + 1 \in 1 .. SIZE
  BY <1>1
<1>3. (n + 1) % SIZE \in 0 .. SIZE - 1
  BY <1>1, <1>2
<1>4. (n + 1) % SIZE <= n + 1
  BY <1>1, <1>2
<1> QED
  BY <1>3, <1>4 DEF Inc

\* A history counter follows every increment it records.
LEMMA UptoBound ==
  ASSUME NEW m \in 0 .. SIZE, NEW n \in 0 .. SIZE - 1, n <= m
  PROVE  Upto(m) \in 0 .. SIZE /\ Inc(n) <= Upto(m) /\ n <= Upto(m)
BY IncBound, LoopAssumption DEF Upto

\* The counters of the first half of a cycle are in range, and bounded by
\* what the history records of this cycle.
LEMMA CountersBound ==
  ASSUME TypeOK
  PROVE  /\ AlrmCycls \in 0 .. SIZE - 1
         /\ RecvdCycls \in 0 .. SIZE - 1
         /\ ir_alrm_cycls <= quiet
              => AlrmCycls <= IF Quiet THEN Upto(quiet) ELSE quiet
         /\ ir_recvd_cycls <= beams
              => /\ RecvdCycls <= IF Quiet THEN beams ELSE Upto(beams)
                 /\ RecvdCycls <= beams + IF Quiet THEN 0 ELSE 1
<1>1. CASE Quiet
  BY <1>1, IncBound, UptoBound, LoopAssumption DEF TypeOK, AlrmCycls, RecvdCycls
<1>2. CASE ~Quiet
  BY <1>2, IncBound, UptoBound, LoopAssumption DEF TypeOK, AlrmCycls, RecvdCycls
<1> QED
  BY <1>1, <1>2

\* The invariant holds initially.
LEMMA InitLoopInv == Init => LoopInv
BY LoopAssumption
DEF Init, LoopInv, TypeOK, State, QuietBound, BeamBound, PublishedBound

\* A turn of the main loop keeps the invariant.
LEMMA CycleLoopInv ==
  ASSUME LoopInv, Cycle
  PROVE  LoopInv'
<1> USE LoopAssumption, CountersBound
    DEF LoopInv, TypeOK, State, QuietBound, BeamBound, PublishedBound
<1>1. /\ quiet' \in 0 .. SIZE /\ beams' \in 0 .. SIZE
      /\ s_astate' = astate /\ shown' = astate /\ ir_recvd' = 0 /\ conf' = conf
  BY UptoBound DEF Cycle, Record, Upto
<1>2. CASE Raise
  <2>1. /\ astate' = "PREACTIVE" /\ since' = 0
        /\ ir_alrm_cycls' \in 0 .. SIZE - 1
        /\ ir_recvd_cycls' = 0
    BY <1>2 DEF Raise
  <2> QED
    BY <1>1, <2>1
<1>3. CASE Escalate
  <2>1. /\ astate' = "ACTIVE" /\ since' = since /\ astate = "PREACTIVE"
        /\ ir_alrm_cycls' \in 0 .. SIZE - 1
        /\ ir_recvd_cycls' = 0
    BY <1>3 DEF Escalate
  <2> QED
    BY <1>1, <2>1
<1>4. CASE Clear
  <2>1. /\ astate' = "NONE" /\ since' = since
        /\ ir_alrm_cycls' = 0
        /\ ir_recvd_cycls' \in 0 .. SIZE - 1
    BY <1>4 DEF Clear
  <2> QED
    BY <1>1, <2>1
<1>5. CASE Stay
  <2>1. /\ astate' = astate /\ since' = since
        /\ ir_alrm_cycls' = AlrmCycls
        /\ ir_recvd_cycls' = RecvdCycls
    BY <1>5 DEF Stay
  <2>2. /\ quiet' = IF Quiet THEN Upto(quiet) ELSE quiet
        /\ beams' = IF Quiet THEN beams ELSE Upto(beams)
    BY <2>1 DEF Cycle, Record
  <2> QED
    BY <1>1, <2>1, <2>2
<1> QED
  BY <1>2, <1>3, <1>4, <1>5 DEF Cycle

\* Every step keeps the invariant.
LEMMA NextLoopInv == LoopInv /\ [Next]_vars => LoopInv'
<1> SUFFICES ASSUME LoopInv, [Next]_vars PROVE LoopInv'
  OBVIOUS
<1> USE LoopAssumption
    DEF LoopInv, TypeOK, QuietBound, BeamBound, PublishedBound
<1>1. CASE Flank
  <2>1. ir_recvd' \in 0 .. MaxFlanks
    <3>1. ir_recvd \in 0 .. SIZE - 1
      OBVIOUS
    <3> QED
      BY <1>1, <3>1, IncBound DEF Flank
  <2> QED
    BY <1>1, <2>1 DEF Flank
<1>2. CASE Cycle
  BY <1>2, CycleLoopInv
<1>3. CASE Reload
  BY <1>3 DEF Reload
<1>4. CASE Overwrite
  BY <1>4 DEF Overwrite
<1>5. CASE Tick
  BY <1>5 DEF Tick, clockVars
<1>6. CASE ClockStep
  BY <1>6 DEF ClockStep, clockVars
<1>7. CASE UNCHANGED vars
  BY <1>7 DEF vars
<1> QED
  BY <1>1, <1>2, <1>3, <1>4, <1>5, <1>6, <1>7 DEF Next

\* The counters, the state and the published state keep their types.
THEOREM LoopTypeCorrect == Spec => []TypeOK
<1>1. LoopInv => TypeOK
  BY DEF LoopInv
<1> QED
  BY <1>1, InitLoopInv, NextLoopInv, PTL DEF Spec

\* iralarmd raises an alarm only after more than ir_minalarm quiet cycles since
\* the last all-clear, whatever the thresholds, the reloads and the width of
\* the counters.
THEOREM AlarmIsJustified == Spec => NoFalseAlarm
<1>1. LoopInv /\ [Next]_vars
        => [astate = "NONE" /\ astate' # "NONE" => quiet' > conf.minalarm]_vars
  <2> SUFFICES ASSUME LoopInv, Next, astate = "NONE", astate' # "NONE"
               PROVE  quiet' > conf.minalarm
    OBVIOUS
  <2>1. Cycle /\ Raise
    BY DEF Next, Flank, Cycle, Reload, Overwrite, Tick, ClockStep, clockVars, Raise,
           Escalate, Clear, Stay
  <2>2. AlrmCycls <= quiet' /\ quiet' \in 0 .. SIZE
    BY <2>1, CountersBound, UptoBound
    DEF LoopInv, QuietBound, Cycle, Record, Upto, TypeOK
  <2>3. conf.minalarm \in Nat
    BY LoopAssumption DEF LoopInv, TypeOK
  <2> QED
    BY <2>1, <2>2, <2>3, CountersBound, LoopAssumption DEF Raise, LoopInv
<1> QED
  BY <1>1, InitLoopInv, NextLoopInv, PTL DEF Spec, NoFalseAlarm

\* iralarmd clears an alarm only after more than ir_rstalarm good cycles in the
\* state it leaves.
THEOREM ClearIsJustified == Spec => NoEarlyClear
<1>1. LoopInv /\ [Next]_vars
        => [astate # "NONE" /\ astate' = "NONE"
              => beams + (IF Quiet THEN 0 ELSE 1) > conf.rstalarm]_vars
  <2> SUFFICES ASSUME LoopInv, Next, astate # "NONE", astate' = "NONE"
               PROVE  beams + (IF Quiet THEN 0 ELSE 1) > conf.rstalarm
    OBVIOUS
  <2>1. Clear
    BY DEF Next, Flank, Cycle, Reload, Overwrite, Tick, ClockStep, clockVars, Raise,
           Escalate, Clear, Stay
  <2>2. RecvdCycls <= beams + IF Quiet THEN 0 ELSE 1
    BY CountersBound DEF LoopInv, BeamBound
  <2>3. conf.rstalarm \in Nat /\ beams \in Nat
    BY LoopAssumption DEF LoopInv, TypeOK
  <2> QED
    BY <2>1, <2>2, <2>3, CountersBound, LoopAssumption DEF Clear, LoopInv
<1> QED
  BY <1>1, InitLoopInv, NextLoopInv, PTL DEF Spec, NoEarlyClear

\* iralarmd never publishes ACTIVE after NONE, whatever iralarmctl writes into the
\* published state meanwhile.
THEOREM WarningIsPublished == Spec => NoSkippedWarning
<1>1. LoopInv /\ [Next]_vars
        => [Cycle /\ s_astate' = "ACTIVE" => shown # "NONE"]_vars
  BY DEF LoopInv, PublishedBound, Cycle
<1> QED
  BY <1>1, InitLoopInv, NextLoopInv, PTL DEF Spec, NoSkippedWarning

=============================================================================
