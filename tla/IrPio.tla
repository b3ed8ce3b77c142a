------------------------------- MODULE IrPio --------------------------------
(***************************************************************************)
(* The GPIO layer of iralarmd as it is built without wiringPi              *)
(* (src/iralarm/irpio.c): the pinout of config.h, the tables from          *)
(* wiringPi's pin numbers to the processor's, and what main() does with    *)
(* the outputs from irpio_init to irpio_lowall.  The registers are         *)
(* abstracted to the function and the level of every GPIO and the words of *)
(* the PWM block; GPSET and GPCLR change only the bits that are written.   *)
(***************************************************************************)
EXTENDS Integers, Sequences

CONSTANTS
  Rev,       \* board revisions piBoardRev may report
  InitFails  \* BOOLEAN: may __init_gpio fail to map the registers?

VARIABLES
  boardRev,  \* which table is in use
  phase,     \* what main() does with the outputs
  i,         \* the position in pipi[] of the loop it is in
  fsel,      \* [Gpio -> Function]: the GPFSEL registers
  level,     \* [Gpio -> BOOLEAN]: what was last set or cleared
  pwm        \* [PwmReg -> Nat]: the PWM block

vars == <<boardRev, phase, i, fsel, level, pwm>>

Gpio     == 0 .. 31
Function == {"INPUT", "OUTPUT", "ALT0", "ALT5"}

\* Word offsets into the PWM block.
PWM_CONTROL == 0
PWM0_RANGE  == 4
PWM0_DATA   == 5
PWM1_RANGE  == 8
PWM1_DATA   == 9
PwmReg      == {PWM_CONTROL, PWM0_RANGE, PWM0_DATA, PWM1_RANGE, PWM1_DATA}

\* PWM0_ENABLE | PWM1_ENABLE, what pwmSetMode(PWM_MODE_BAL) writes.
BothEnabled == 257
RANGE       == 1024

\* config.h: the position in pipi[], the wiringPi pin and the mode.
IRLED == 0
SPEKR == 2
ALARM == 3
STATS == 4
pipi  == << [pin |-> 1, mode |-> "PWM_OUTPUT"], [pin |-> 3, mode |-> "INPUT"],
            [pin |-> 2, mode |-> "OUTPUT"],     [pin |-> 0, mode |-> "OUTPUT"],
            [pin |-> 4, mode |-> "OUTPUT"] >>
Last == Len(pipi) - 1
Pipi(p) == pipi[p + 1]

\* The processor's number of wiringPi pin n; the tables go on to n = 63.
pinToGpioR1 == <<17, 18, 21, 22, 23, 24, 25, 4, 0, 1, 8, 7, 10, 9, 11, 14, 15>>
pinToGpioR2 == <<17, 18, 27, 22, 23, 24, 25, 4, 2, 3, 8, 7, 10, 9, 11, 14, 15>>
Table == IF boardRev = 1 THEN pinToGpioR1 ELSE pinToGpioR2

\* The tables are arrays of int, but pinToGpio points to uint8_t: the n-th
\* byte on a little-endian machine, for n < 64.
pinToGpio(n) == IF n % 4 = 0 THEN Table[n \div 4 + 1] ELSE 0

gpioToPwmALT(g) ==
  CASE g \in {12, 13} -> "ALT0" [] g \in {18, 19} -> "ALT5" [] OTHER -> "NONE"
gpioToPwmPort(g) ==
  CASE g \in {12, 18} -> PWM0_DATA [] g \in {13, 19} -> PWM1_DATA
    [] OTHER -> PWM_CONTROL

Init ==
  /\ boardRev \in Rev
  /\ phase = "open" /\ i = 0
  /\ fsel = [g \in Gpio |-> "INPUT"]
  /\ level = [g \in Gpio |-> FALSE]
  /\ pwm = [r \in PwmReg |-> 0]

-----------------------------------------------------------------------------
\* pwmSetMode(PWM_MODE_BAL), pwmSetRange(range) and pwmSetClock (which saves
\* and restores PWM_CONTROL), on the PWM words w.
pwmSetMode(w)     == [w EXCEPT ![PWM_CONTROL] = BothEnabled]
pwmSetRange(w, n) == [w EXCEPT ![PWM0_RANGE] = n, ![PWM1_RANGE] = n]

\* A PWM pin that the hardware cannot drive is left alone.
pinMode(pin, mode) ==
  LET g == pinToGpio(pin) IN
  CASE mode = "PWM_OUTPUT" /\ gpioToPwmALT(g) = "NONE" -> UNCHANGED <<fsel, pwm>>
    [] mode = "PWM_OUTPUT" /\ gpioToPwmALT(g) # "NONE" ->
         /\ fsel' = [fsel EXCEPT ![g] = gpioToPwmALT(g)]
         /\ pwm' = pwmSetRange(pwmSetMode(pwm), 1024)
    [] OTHER -> fsel' = [fsel EXCEPT ![g] = mode] /\ UNCHANGED pwm

\* The pin number is not translated here.
digitalWrite(pin, value) == [level EXCEPT ![pin] = value # 0]
pwmWrite(w, pin, value)  == [w EXCEPT ![gpioToPwmPort(pin)] = value]

\* irpio_setvalue: what it makes of the levels, and of the PWM words w.
SetLevel(p, value) ==
  IF Pipi(p).mode = "OUTPUT" THEN digitalWrite(Pipi(p).pin, value) ELSE level
SetPwm(w, p, value) ==
  IF Pipi(p).mode = "PWM_OUTPUT" THEN pwmWrite(w, Pipi(p).pin, value) ELSE w

Goto(from, to) == phase = from /\ phase' = to

\* The next entry of pipi[], or the next phase after the last one.
Step(from, to) ==
  IF i < Last THEN Goto(from, from) /\ i' = i + 1 ELSE Goto(from, to) /\ i' = 0

\* irpio_init maps the registers; main() goes on without them on an error,
\* and its next access is to an unmapped address.
InitMap ==
  /\ \/ Goto("open", "init") /\ pwm' = pwmSetMode(pwm)
     \/ InitFails /\ Goto("open", "fault") /\ UNCHANGED pwm
  /\ UNCHANGED <<boardRev, i, fsel, level>>

\* irpio_init's loop over the pins.
InitMode ==
  /\ Goto("init", "init_low")
  /\ pinMode(Pipi(i).pin, Pipi(i).mode)
  /\ UNCHANGED <<boardRev, i, level>>

\* Mutant: irpio_init sets the modes only.
InitLowSkips ==
  /\ IF i < Last THEN Goto("init_low", "init") /\ i' = i + 1
                 ELSE Goto("init_low", "setpwm") /\ i' = 0
  /\ UNCHANGED <<boardRev, fsel, level, pwm>>

InitLow ==
  /\ IF i < Last THEN Goto("init_low", "init") /\ i' = i + 1
                 ELSE Goto("init_low", "setpwm") /\ i' = 0
  /\ level' = SetLevel(i, 0)
  /\ pwm' = SetPwm(pwm, i, 0)
  /\ UNCHANGED <<boardRev, fsel>>

irpio_setpwm ==
  /\ Goto("setpwm", "test_high")
  /\ pwm' = pwmSetRange(pwm, RANGE)
  /\ UNCHANGED <<boardRev, i, fsel, level>>

\* irpio_selftest: every output on and off again.
SelftestHigh ==
  /\ Goto("test_high", "test_low")
  /\ level' = SetLevel(i, 1)
  /\ pwm' = SetPwm(pwm, i, RANGE - 1)
  /\ UNCHANGED <<boardRev, i, fsel>>

SelftestLow ==
  /\ IF i < Last THEN Goto("test_low", "test_high") /\ i' = i + 1
                 ELSE Goto("test_low", "irled") /\ i' = 0
  /\ level' = SetLevel(i, 0)
  /\ pwm' = SetPwm(pwm, i, 0)
  /\ UNCHANGED <<boardRev, fsel>>

\* main() switches the IR LED on ...
IrLedOn ==
  /\ Goto("irled", "run")
  /\ pwm' = SetPwm(pwm, IRLED, RANGE - 1)
  /\ UNCHANGED <<boardRev, i, fsel, level>>

\* ... and the worker threads write their outputs (AlarmOutput has the order).
irpio_digitalWrite(p, value) ==
  /\ phase = "run"
  /\ level' = digitalWrite(Pipi(p).pin, value)
  /\ UNCHANGED <<boardRev, phase, i, fsel, pwm>>

\* SIGTERM, after the workers have ended.
Terminate ==
  /\ Goto("run", "lowall")
  /\ UNCHANGED <<boardRev, i, fsel, level, pwm>>

irpio_lowall ==
  /\ Step("lowall", "exit")
  /\ level' = SetLevel(i, 0)
  /\ pwm' = SetPwm(pwm, i, 0)
  /\ UNCHANGED <<boardRev, fsel>>

\* The process ended, was killed at any point or died of the fault, and is
\* started again: the registers keep what was in them.
Restart ==
  /\ phase # "open" /\ phase' = "open" /\ i' = 0
  /\ UNCHANGED <<boardRev, fsel, level, pwm>>

Next ==
  \/ InitMap \/ InitMode \/ InitLow \/ irpio_setpwm \/ SelftestHigh
  \/ SelftestLow \/ IrLedOn \/ Terminate \/ irpio_lowall \/ Restart
  \/ \E p \in {SPEKR, ALARM, STATS}, value \in {0, 1} : irpio_digitalWrite(p, value)

Spec == Init /\ [][Next]_vars

-----------------------------------------------------------------------------
\* Nothing is driven before the self-test, between it and the start of the
\* threads, and at the end, also when the process before was killed with the
\* siren on: every level irpio.c set is cleared again, and the PWM that feeds
\* the IR LED is disabled or at duty 0.
OutputsOff ==
  phase \in {"setpwm", "irled", "exit"} =>
    /\ \A g \in Gpio : ~level[g]
    /\ pwm[PWM_CONTROL] % 2 = 0 \/ pwm[PWM0_DATA] = 0
=============================================================================
