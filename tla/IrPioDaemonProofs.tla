------------------------- MODULE IrPioDaemonProofs --------------------------
(* irpio.c: the hand-over of a pin to its interrupt thread, for any number   *)
(* of callers, with failing open and pthread_create included; and the        *)
(* outputs, over any number of starts and kills of the process.              *)
EXTENDS IrPioDaemon, TLAPS

\* Inside the critical section of pinMutex.
Inside(p) == cpc[p] \in {"create", "spin"}

\* pinMutex is a mutex.
MutexInv ==
  /\ \A p \in Pin : Inside(p) => pinMutex
  /\ \A p, q \in Pin : Inside(p) /\ Inside(q) => p = q

\* A thread exists only after its caller created it, and is still starting only
\* while that caller waits for it.
StartInv ==
  \A p \in Pin :
    /\ cpc[p] \notin {"spin", "done"} => tpc[p] = "none"
    /\ cpc[p] = "done" => tpc[p] \in {"poll", "read", "call"}

\* pinPass keeps the pin until the thread has copied and reset it.
PassInv ==
  \A p \in Pin : Inside(p) /\ tpc[p] \in {"none", "take", "reset"} => pinPass = p

IsrInv == TypeOK /\ MutexInv /\ StartInv /\ PassInv /\ HandlerHasItsPin

LEMMA InitIsrInv == Init => IsrInv
BY DEF Init, IsrInv, TypeOK, MutexInv, StartInv, PassInv, HandlerHasItsPin,
       Inside, CallerPC, HandlerPC

\* A caller's step: only it, or nobody, is inside.
LEMMA CallerIsrInv ==
  ASSUME IsrInv, NEW p \in Pin, IsrOpen(p) \/ Caller(p)
  PROVE  IsrInv'
<1> USE IsrAssumption
    DEF IsrInv, TypeOK, MutexInv, StartInv, PassInv, HandlerHasItsPin, Inside,
        CallerPC, HandlerPC
<1>1. CASE IsrOpen(p)
  BY <1>1 DEF IsrOpen, CGoto
<1>2. CASE IsrClear(p)
  BY <1>2 DEF IsrClear, CGoto
<1>3. CASE IsrPass(p)
  BY <1>3 DEF IsrPass, CGoto
<1>4. CASE IsrCreate(p)
  BY <1>4 DEF IsrCreate, CGoto
<1>5. CASE IsrReturn(p)
  <2>1. /\ cpc[p] = "spin" /\ cpc' = [cpc EXCEPT ![p] = "done"]
        /\ pinPass = None /\ pinMutex' = FALSE
        /\ UNCHANGED <<tpc, myPin, pinPass, sysFds, pending, due>>
    BY <1>5 DEF IsrReturn, CGoto
  <2>2. tpc[p] \in {"poll", "read", "call"}
    BY <2>1
  <2>3. TypeOK' /\ HandlerHasItsPin'
    BY <2>1
  <2>4. \A q \in Pin : ~Inside(q)'
    BY <2>1
  <2>5. StartInv'
    BY <2>1, <2>2
  <2> QED
    BY <2>3, <2>4, <2>5
<1> QED
  BY <1>1, <1>2, <1>3, <1>4, <1>5 DEF Caller

\* A thread's step: while it starts, its caller is the one inside.
LEMMA HandlerIsrInv ==
  ASSUME IsrInv, NEW p \in Pin, Handler(p)
  PROVE  IsrInv'
<1> USE IsrAssumption
    DEF IsrInv, TypeOK, MutexInv, StartInv, PassInv, HandlerHasItsPin, Inside,
        CallerPC, HandlerPC
<1>1. CASE HandlerTake(p)
  BY <1>1 DEF HandlerTake, TGoto
<1>2. CASE HandlerReset(p)
  BY <1>2 DEF HandlerReset, TGoto
<1>3. CASE HandlerPoll(p)
  BY <1>3 DEF HandlerPoll, TGoto
<1>4. CASE HandlerRead(p)
  BY <1>4 DEF HandlerRead, TGoto
<1>5. CASE HandlerCall(p)
  BY <1>5 DEF HandlerCall, TGoto
<1> QED
  BY <1>1, <1>2, <1>3, <1>4, <1>5 DEF Handler

LEMMA NextIsrInv == IsrInv /\ [Next]_vars => IsrInv'
<1> SUFFICES ASSUME IsrInv, [Next]_vars PROVE IsrInv'
  OBVIOUS
<1>1. CASE UNCHANGED vars
  BY <1>1 DEF vars, IsrInv, TypeOK, MutexInv, StartInv, PassInv,
              HandlerHasItsPin, Inside
<1>2. ASSUME NEW p \in Pin, IsrOpen(p) \/ Caller(p) PROVE IsrInv'
  BY <1>2, CallerIsrInv
<1>3. ASSUME NEW p \in Pin, Handler(p) PROVE IsrInv'
  BY <1>3, HandlerIsrInv
<1>4. ASSUME NEW p \in Pin, Edge(p) PROVE IsrInv'
  BY <1>4 DEF Edge, IsrInv, TypeOK, MutexInv, StartInv, PassInv,
              HandlerHasItsPin, Inside
<1> QED
  BY <1>1, <1>2, <1>3, <1>4 DEF Next

LEMMA IsrInvariant == Spec => []IsrInv
BY InitIsrInv, NextIsrInv, PTL DEF Spec

\* irpio.c's interrupt state keeps its types, whatever fails.
THEOREM IsrTypeCorrect == Spec => []TypeOK
<1>1. IsrInv => TypeOK
  BY DEF IsrInv
<1> QED
  BY <1>1, IsrInvariant, PTL

\* However many callers of irpio_isr run at once, the one global pinPass gives
\* every interruptHandler the pin it was created for.
THEOREM PinHandOver == Spec => []HandlerHasItsPin
<1>1. IsrInv => HandlerHasItsPin
  BY DEF IsrInv
<1> QED
  BY <1>1, IsrInvariant, PTL

\* A caller that irpio_isr returned 0 to has a running interrupt thread; in
\* particular it does not return when pthread_create failed.
THEOREM ReturnArmed == Spec => []ReturnMeansArmed
<1>1. IsrInv => ReturnMeansArmed
  BY DEF IsrInv, StartInv, ReturnMeansArmed
<1> QED
  BY <1>1, IsrInvariant, PTL

-----------------------------------------------------------------------------
(* The process with both halves.                                             *)

\* The end of the process ends its interrupt threads with it, wherever they are.
LEMMA SystemIsrInv == IsrInv /\ [SystemNext]_allVars => IsrInv'
<1> SUFFICES ASSUME IsrInv, [SystemNext]_allVars PROVE IsrInv'
  OBVIOUS
<1>1. CASE UNCHANGED vars
  BY <1>1, NextIsrInv
<1>2. CASE IsrEnds
  BY <1>2, IsrAssumption
  DEF IsrEnds, IsrInv, TypeOK, MutexInv, StartInv, PassInv, HandlerHasItsPin,
      Inside, CallerPC, HandlerPC
<1>3. ASSUME NEW p \in Pin, CallerRuns(p) PROVE IsrInv'
  BY <1>3, CallerIsrInv DEF CallerRuns
<1>4. ASSUME NEW p \in Pin, HandlerRuns(p) PROVE IsrInv'
  BY <1>4, HandlerIsrInv DEF HandlerRuns
<1>5. ASSUME NEW p \in Pin, EdgeArrives(p) PROVE IsrInv'
  BY <1>5, NextIsrInv DEF EdgeArrives, Next
<1> QED
  BY <1>1, <1>2, <1>3, <1>4, <1>5
  DEF SystemNext, PioStep, Terminated, LowAll, Restarted, allVars

LEMMA SystemIsrInvariant == SystemSpec => []IsrInv
BY InitIsrInv, SystemIsrInv, PTL DEF SystemSpec, SystemInit

\* A new process does not inherit the pin of a caller or a thread of the former
\* one that was killed half way through the hand-over.
THEOREM PinHandOverRestarted == SystemSpec => [](HandlerHasItsPin /\ ReturnMeansArmed)
<1>1. IsrInv => HandlerHasItsPin /\ ReturnMeansArmed
  BY DEF IsrInv, StartInv, ReturnMeansArmed
<1> QED
  BY <1>1, SystemIsrInvariant, PTL

\* The entries of pipi[] that are digital outputs, and the levels they set.
Outputs == {2, 3, 4}
OutPin(p) == Pio!Pipi(p).pin

\* Which entries of pipi[] are low when main() is at entry i of a loop: a killed
\* process may leave any of them high, and each loop lowers them one by one.
LowSoFar ==
  CASE phase \in {"init", "init_low", "lowall"} -> {p \in Outputs : p < i}
    [] phase = "test_low"                       -> Outputs \ {i}
    [] phase \in {"setpwm", "test_high", "irled", "exit"} -> Outputs
    [] OTHER                                    -> {}

\* No other level is ever set.
LevelInv ==
  /\ i \in 0 .. 4
  /\ phase \in {"open", "fault", "setpwm", "irled", "run", "exit"} => i = 0
  /\ level \in [Pio!Gpio -> BOOLEAN]
  /\ \A g \in Pio!Gpio : level[g] => \E p \in Outputs : g = OutPin(p)
  /\ \A p \in LowSoFar : ~level[OutPin(p)]

\* The duty cycle that irpio_setvalue means to write never reaches PWM0_DATA:
\* pwmWrite looks the register up by an untranslated pin.
PwmInv == pwm \in [Pio!PwmReg -> Nat] /\ pwm[Pio!PWM0_DATA] = 0

PioInv == LevelInv /\ PwmInv

\* config.h's pinout, entry by entry.
LEMMA Pinout ==
  /\ Pio!Last = 4
  /\ Pio!Pipi(0) = [pin |-> 1, mode |-> "PWM_OUTPUT"]
  /\ Pio!Pipi(1) = [pin |-> 3, mode |-> "INPUT"]
  /\ Pio!Pipi(2) = [pin |-> 2, mode |-> "OUTPUT"]
  /\ Pio!Pipi(3) = [pin |-> 0, mode |-> "OUTPUT"]
  /\ Pio!Pipi(4) = [pin |-> 4, mode |-> "OUTPUT"]
BY DEF Pio!Last, Pio!Pipi, Pio!pipi

LEMMA OutPins ==
  \A p \in Outputs :
    OutPin(p) \in Pio!Gpio /\ \A q \in Outputs : OutPin(p) = OutPin(q) => p = q
<1>1. OutPin(2) = 2 /\ OutPin(3) = 0 /\ OutPin(4) = 4
  BY Pinout DEF OutPin
<1> QED
  BY <1>1 DEF Outputs, Pio!Gpio

\* irpio_setvalue writes the level of an output entry and of no other.
LEMMA SetLevelSets ==
  ASSUME NEW p \in 0 .. 4, NEW value, level \in [Pio!Gpio -> BOOLEAN]
  PROVE  Pio!SetLevel(p, value) =
           IF p \in Outputs THEN [level EXCEPT ![OutPin(p)] = value # 0] ELSE level
BY Pinout DEF Pio!SetLevel, Pio!digitalWrite, Outputs, OutPin

\* No PWM operation of irpio.c writes PWM0_DATA.
LEMMA PwmKeepsInv ==
  ASSUME PwmInv, NEW p \in 0 .. 4, NEW value \in Nat, NEW n \in Nat,
         \/ UNCHANGED pwm
         \/ pwm' = Pio!pwmSetMode(pwm)
         \/ pwm' = Pio!pwmSetRange(pwm, n)
         \/ pwm' = Pio!pwmSetRange(Pio!pwmSetMode(pwm), n)
         \/ pwm' = Pio!SetPwm(pwm, p, value)
  PROVE  PwmInv'
<1> USE DEF PwmInv, Pio!PwmReg, Pio!PWM0_DATA, Pio!PWM0_RANGE, Pio!PWM1_RANGE,
            Pio!PWM1_DATA, Pio!PWM_CONTROL, Pio!BothEnabled
<1>1. CASE UNCHANGED pwm
  BY <1>1
<1>2. CASE pwm' = Pio!pwmSetMode(pwm)
  BY <1>2 DEF Pio!pwmSetMode
<1>3. CASE pwm' = Pio!pwmSetRange(pwm, n)
  BY <1>3 DEF Pio!pwmSetRange
<1>4. CASE pwm' = Pio!pwmSetRange(Pio!pwmSetMode(pwm), n)
  BY <1>4 DEF Pio!pwmSetRange, Pio!pwmSetMode
<1>5. CASE pwm' = Pio!SetPwm(pwm, p, value)
  <2>1. CASE p = 0
    <3>1. Pio!gpioToPwmPort(1) = Pio!PWM_CONTROL
      BY DEF Pio!gpioToPwmPort
    <3>2. Pio!Pipi(p).mode = "PWM_OUTPUT" /\ Pio!Pipi(p).pin = 1
      BY <2>1, Pinout
    <3>3. Pio!SetPwm(pwm, p, value) = Pio!pwmWrite(pwm, 1, value)
      BY <3>2 DEF Pio!SetPwm
    <3>4. pwm' = [pwm EXCEPT ![Pio!PWM_CONTROL] = value]
      BY <1>5, <3>1, <3>3 DEF Pio!pwmWrite
    <3> QED
      BY <3>4
  <2>2. CASE p # 0
    <3>1. Pio!Pipi(p).mode # "PWM_OUTPUT"
      BY <2>2, Pinout
    <3>2. pwm' = pwm
      BY <1>5, <3>1 DEF Pio!SetPwm
    <3> QED
      BY <3>2
  <2> QED
    BY <2>1, <2>2
<1> QED
  BY <1>1, <1>2, <1>3, <1>4, <1>5

LEMMA InitPioInv == Pio!Init => PioInv
<1> SUFFICES ASSUME Pio!Init PROVE PioInv
  OBVIOUS
<1>1. LowSoFar = {}
  BY DEF Pio!Init, LowSoFar
<1>2. pwm[Pio!PWM0_DATA] = 0
  BY DEF Pio!Init, Pio!PwmReg
<1> QED
  BY <1>1, <1>2 DEF Pio!Init, PioInv, LevelInv, PwmInv

\* A pass over pipi[] lowers the entry it is at, and keeps what is low.
LEMMA LoweringKeepsInv ==
  ASSUME LevelInv, level' = Pio!SetLevel(i, 0), i' \in 0 .. 4,
         phase' \in {"setpwm", "irled", "exit"} => i' = 0,
         phase' \notin {"open", "fault", "run"},
         LowSoFar' \subseteq LowSoFar \cup ({i} \cap Outputs)
  PROVE  LevelInv'
<1>1. level' = IF i \in Outputs THEN [level EXCEPT ![OutPin(i)] = FALSE] ELSE level
  BY SetLevelSets DEF LevelInv
<1>2. \A p \in Outputs : level'[OutPin(p)] = IF p = i THEN FALSE ELSE level[OutPin(p)]
  BY <1>1, OutPins DEF LevelInv
<1>3. \A g \in Pio!Gpio : level'[g] => level[g]
  BY <1>1 DEF LevelInv
<1>4. level' \in [Pio!Gpio -> BOOLEAN]
  BY <1>1 DEF LevelInv
<1>5. LowSoFar \subseteq Outputs
  BY DEF LowSoFar
<1>6. \A p : OutPin(p)' = OutPin(p)
  BY DEF OutPin
<1>7. \A p \in LowSoFar' : ~level'[OutPin(p)]
  BY <1>2, <1>5 DEF LevelInv
<1>8. \A g \in Pio!Gpio : level'[g] => \E p \in Outputs : g = OutPin(p)
  BY <1>3 DEF LevelInv
<1> QED
  BY <1>4, <1>7, <1>8 DEF LevelInv, OutPin

\* A write of one output that main() does not rely on being low.
LEMMA WritingKeepsInv ==
  ASSUME LevelInv, NEW p, NEW value \in BOOLEAN, i' \in 0 .. 4,
         level' = IF p \in Outputs THEN [level EXCEPT ![OutPin(p)] = value] ELSE level,
         phase' \in {"open", "fault", "setpwm", "irled", "run", "exit"} => i' = 0,
         LowSoFar' \subseteq LowSoFar \ {p}
  PROVE  LevelInv'
<1>1. \A q \in Outputs : q # p => level'[OutPin(q)] = level[OutPin(q)]
  BY OutPins DEF LevelInv
<1>2. \A g \in Pio!Gpio : level'[g] => (level[g] \/ (p \in Outputs /\ g = OutPin(p)))
  BY DEF LevelInv
<1>3. level' \in [Pio!Gpio -> BOOLEAN]
  BY DEF LevelInv
<1>4. LowSoFar \subseteq Outputs
  BY DEF LowSoFar
<1>5. \A q \in LowSoFar' : ~level'[OutPin(q)]
  BY <1>1, <1>4 DEF LevelInv
<1>6. \A g \in Pio!Gpio : level'[g] => \E q \in Outputs : g = OutPin(q)
  BY <1>2 DEF LevelInv
<1> QED
  BY <1>3, <1>5, <1>6 DEF LevelInv, OutPin

\* One step of main() or of a worker on the outputs, and the next process.
OutputStep == PioStep \/ Pio!Terminate \/ Pio!irpio_lowall \/ Pio!Restart

LEMMA LevelStep == LevelInv /\ OutputStep => LevelInv'
<1> SUFFICES ASSUME LevelInv, OutputStep PROVE LevelInv'
  OBVIOUS
<1> USE Pinout DEF Pio!Goto
<1>1. CASE Pio!InitMap
  BY <1>1 DEF Pio!InitMap, LevelInv, LowSoFar, Outputs
<1>2. CASE Pio!InitMode
  BY <1>2 DEF Pio!InitMode, LevelInv, LowSoFar
<1>3. CASE Pio!InitLow
  <2>1. level' = Pio!SetLevel(i, 0) /\ phase = "init_low" /\ i \in 0 .. 4
    BY <1>3 DEF Pio!InitLow, LevelInv
  <2>2. CASE i < 4
    <3>1. phase' = "init" /\ i' = i + 1
      BY <1>3, <2>2 DEF Pio!InitLow
    <3>2. /\ LowSoFar = {p \in Outputs : p < i}
          /\ LowSoFar' = {p \in Outputs : p < i + 1}
      BY <2>1, <3>1 DEF LowSoFar
    <3>3. \A p \in Outputs : p < i + 1 => (p < i \/ p = i)
      BY <2>1 DEF Outputs
    <3>4. LowSoFar' \subseteq LowSoFar \cup ({i} \cap Outputs)
      BY <3>2, <3>3
    <3> QED
      BY <2>1, <2>2, <3>1, <3>4, LoweringKeepsInv
  <2>3. CASE i = 4
    <3>1. phase' = "setpwm" /\ i' = 0
      BY <1>3, <2>3 DEF Pio!InitLow
    <3>2. LowSoFar' \subseteq LowSoFar \cup ({i} \cap Outputs)
      BY <2>1, <2>3, <3>1 DEF LowSoFar, Outputs
    <3> QED
      BY <2>1, <3>1, <3>2, LoweringKeepsInv
  <2> QED
    BY <2>1, <2>2, <2>3
<1>4. CASE Pio!irpio_setpwm
  BY <1>4 DEF Pio!irpio_setpwm, LevelInv, LowSoFar
<1>5. CASE Pio!SelftestHigh
  <2>1. phase = "test_high" /\ phase' = "test_low" /\ i' = i /\ i \in 0 .. 4
    BY <1>5 DEF Pio!SelftestHigh, LevelInv
  <2>2. level' = IF i \in Outputs THEN [level EXCEPT ![OutPin(i)] = (1 # 0)] ELSE level
    BY <1>5, SetLevelSets DEF Pio!SelftestHigh, LevelInv
  <2>3. LowSoFar = Outputs /\ LowSoFar' = Outputs \ {i}
    BY <2>1 DEF LowSoFar
  <2> QED
    BY <2>1, <2>2, <2>3, WritingKeepsInv
<1>6. CASE Pio!SelftestLow
  <2>1. level' = Pio!SetLevel(i, 0) /\ phase = "test_low" /\ i \in 0 .. 4
    BY <1>6 DEF Pio!SelftestLow, LevelInv
  <2>2. CASE i < 4
    <3>1. phase' = "test_high" /\ i' = i + 1
      BY <1>6, <2>2 DEF Pio!SelftestLow
    <3>2. LowSoFar' \subseteq LowSoFar \cup ({i} \cap Outputs)
      BY <2>1, <3>1 DEF LowSoFar, Outputs
    <3> QED
      BY <2>1, <2>2, <3>1, <3>2, LoweringKeepsInv
  <2>3. CASE i = 4
    <3>1. phase' = "irled" /\ i' = 0
      BY <1>6, <2>3 DEF Pio!SelftestLow
    <3>2. LowSoFar' \subseteq LowSoFar \cup ({i} \cap Outputs)
      BY <2>1, <2>3, <3>1 DEF LowSoFar, Outputs
    <3> QED
      BY <2>1, <3>1, <3>2, LoweringKeepsInv
  <2> QED
    BY <2>1, <2>2, <2>3
<1>7. CASE Pio!IrLedOn
  BY <1>7 DEF Pio!IrLedOn, LevelInv, LowSoFar
<1>8. ASSUME NEW p \in {Pio!SPEKR, Pio!ALARM, Pio!STATS}, NEW value \in {0, 1},
             Pio!irpio_digitalWrite(p, value)
      PROVE  LevelInv'
  <2>1. p \in Outputs /\ phase = "run" /\ phase' = "run" /\ i' = i /\ i \in 0 .. 4
    BY <1>8
    DEF Outputs, Pio!SPEKR, Pio!ALARM, Pio!STATS, Pio!irpio_digitalWrite, LevelInv
  <2>2. level' = [level EXCEPT ![OutPin(p)] = value # 0]
    BY <1>8 DEF Pio!irpio_digitalWrite, Pio!digitalWrite, OutPin
  <2>3. i' = 0
    BY <2>1 DEF LevelInv
  <2>4. LowSoFar' = {}
    BY <2>1 DEF LowSoFar
  <2> QED
    BY <2>1, <2>2, <2>3, <2>4, WritingKeepsInv
<1>9. CASE Pio!Terminate
  BY <1>9 DEF Pio!Terminate, LevelInv, LowSoFar, Outputs
<1>10. CASE Pio!irpio_lowall
  <2>1. level' = Pio!SetLevel(i, 0) /\ phase = "lowall" /\ i \in 0 .. 4
    BY <1>10 DEF Pio!irpio_lowall, Pio!Step, LevelInv
  <2>2. CASE i < 4
    <3>1. phase' = "lowall" /\ i' = i + 1
      BY <1>10, <2>2 DEF Pio!irpio_lowall, Pio!Step
    <3>2. /\ LowSoFar = {p \in Outputs : p < i}
          /\ LowSoFar' = {p \in Outputs : p < i + 1}
      BY <2>1, <3>1 DEF LowSoFar
    <3>3. \A p \in Outputs : p < i + 1 => (p < i \/ p = i)
      BY <2>1 DEF Outputs
    <3>4. LowSoFar' \subseteq LowSoFar \cup ({i} \cap Outputs)
      BY <3>2, <3>3
    <3> QED
      BY <2>1, <2>2, <3>1, <3>4, LoweringKeepsInv
  <2>3. CASE i = 4
    <3>1. phase' = "exit" /\ i' = 0
      BY <1>10, <2>3 DEF Pio!irpio_lowall, Pio!Step
    <3>2. LowSoFar' \subseteq LowSoFar \cup ({i} \cap Outputs)
      BY <2>1, <2>3, <3>1 DEF LowSoFar, Outputs
    <3> QED
      BY <2>1, <3>1, <3>2, LoweringKeepsInv
  <2> QED
    BY <2>1, <2>2, <2>3
<1>11. CASE Pio!Restart
  BY <1>11 DEF Pio!Restart, LevelInv, LowSoFar
<1> QED
  BY <1>1, <1>2, <1>3, <1>4, <1>5, <1>6, <1>7, <1>8, <1>9, <1>10, <1>11
  DEF OutputStep, PioStep

LEMMA PwmStep == LevelInv /\ PwmInv /\ OutputStep => PwmInv'
<1> SUFFICES ASSUME LevelInv, PwmInv, OutputStep PROVE PwmInv'
  OBVIOUS
<1>1. i \in 0 .. 4 /\ 0 \in 0 .. 4 /\ {0, 1023, 1024} \subseteq Nat
  BY DEF LevelInv
<1>2. Pio!RANGE = 1024 /\ Pio!RANGE - 1 = 1023 /\ Pio!IRLED = 0
  BY DEF Pio!RANGE, Pio!IRLED
<1>3. CASE UNCHANGED pwm
  BY <1>3 DEF PwmInv
<1>4. CASE Pio!InitMap
  BY <1>1, <1>4, PwmKeepsInv DEF Pio!InitMap
<1>5. CASE Pio!InitMode
  BY <1>1, <1>5, PwmKeepsInv DEF Pio!InitMode, Pio!pinMode
<1>6. CASE Pio!irpio_setpwm
  BY <1>1, <1>2, <1>6, PwmKeepsInv DEF Pio!irpio_setpwm
<1>7. CASE Pio!InitLow \/ Pio!SelftestLow \/ Pio!irpio_lowall
  <2>1. pwm' = Pio!SetPwm(pwm, i, 0)
    BY <1>7 DEF Pio!InitLow, Pio!SelftestLow, Pio!irpio_lowall
  <2> QED
    BY <1>1, <2>1, PwmKeepsInv
<1>8. CASE Pio!SelftestHigh
  <2>1. pwm' = Pio!SetPwm(pwm, i, 1023)
    BY <1>2, <1>8 DEF Pio!SelftestHigh
  <2> QED
    BY <1>1, <2>1, PwmKeepsInv
<1>9. CASE Pio!IrLedOn
  <2>1. pwm' = Pio!SetPwm(pwm, 0, 1023)
    BY <1>2, <1>9 DEF Pio!IrLedOn
  <2> QED
    BY <1>1, <2>1, PwmKeepsInv
<1> QED
  BY <1>3, <1>4, <1>5, <1>6, <1>7, <1>8, <1>9
  DEF OutputStep, PioStep, Pio!irpio_digitalWrite, Pio!Terminate, Pio!Restart

LEMMA SystemPioInv == PioInv /\ [SystemNext]_allVars => PioInv'
<1> SUFFICES ASSUME PioInv, [SystemNext]_allVars PROVE PioInv'
  OBVIOUS
<1>1. CASE OutputStep
  BY <1>1, LevelStep, PwmStep DEF PioInv
<1>2. CASE UNCHANGED pioVars
  BY <1>2 DEF pioVars, PioInv, LevelInv, PwmInv, LowSoFar
<1> QED
  BY <1>1, <1>2
  DEF SystemNext, OutputStep, Terminated, LowAll, Restarted, CallerRuns, HandlerRuns,
      EdgeArrives, allVars

\* The loops of irpio_init, irpio_selftest and irpio_lowall reach every level
\* that any of irpio.c's writers can set, whenever the process before was killed:
\* nothing is driven before and after the self-test and at the end.
THEOREM OutputsAreLowered == SystemSpec => []OutputsOff
<1>1. SystemSpec => []PioInv
  BY InitPioInv, SystemPioInv, PTL DEF SystemSpec, SystemInit
<1>2. PioInv => OutputsOff
  BY DEF PioInv, LevelInv, PwmInv, LowSoFar, OutputsOff, Pio!OutputsOff
<1> QED
  BY <1>1, <1>2, PTL
=============================================================================
