---------------------------- MODULE IrPioDaemon -----------------------------
(***************************************************************************)
(* The two halves of src/iralarm/irpio.c in one process: the outputs,      *)
(* which main() initialises, tests and clears at the end (IrPio), and the  *)
(* interrupt threads, which exist only while the process runs (IrIsr).     *)
(* irpio_isr is called when the outputs have been tested and the IR LED is *)
(* on; when the process ends its interrupt threads are gone, but the       *)
(* registers keep what was written to them.                                *)
(***************************************************************************)
EXTENDS IrIsr, Integers

CONSTANTS
  Rev,       \* board revisions piBoardRev may report
  InitFails  \* BOOLEAN: may __init_gpio fail to map the registers?

ASSUME PioAssumption == Rev \subseteq {1, 2} /\ InitFails \in BOOLEAN

VARIABLES boardRev, phase, i, fsel, level, pwm

Pio == INSTANCE IrPio

pioVars == <<boardRev, phase, i, fsel, level, pwm>>
allVars == <<vars, pioVars>>

SystemInit == Init /\ Pio!Init

\* irpio_isr is called once the outputs are ready; the interrupt threads run
\* until the end of the process.
CallerRuns(p) ==
  phase = "run" /\ (IsrOpen(p) \/ Caller(p)) /\ UNCHANGED pioVars
HandlerRuns(p) == phase \in {"run", "lowall"} /\ Handler(p) /\ UNCHANGED pioVars
EdgeArrives(p) == phase \in {"run", "lowall"} /\ Edge(p) /\ UNCHANGED pioVars

\* The end of the process: no thread, no open file.
IsrEnds ==
  /\ cpc' = [p \in Pin |-> "idle"]
  /\ tpc' = [p \in Pin |-> "none"]
  /\ myPin' = [p \in Pin |-> None]
  /\ pinPass' = None /\ pinMutex' = FALSE
  /\ sysFds' = {} /\ pending' = {} /\ due' = {}

\* The outputs: main() and the worker threads ...
PioStep ==
  /\ \/ Pio!InitMap \/ Pio!InitMode \/ Pio!InitLow \/ Pio!irpio_setpwm
     \/ Pio!SelftestHigh \/ Pio!SelftestLow \/ Pio!IrLedOn
     \/ \E p \in {Pio!SPEKR, Pio!ALARM, Pio!STATS}, value \in {0, 1} :
          Pio!irpio_digitalWrite(p, value)
  /\ UNCHANGED vars

\* ... SIGTERM, which main() has blocked while it is in irpio_isr, ...
Terminated ==
  /\ Pio!Terminate
  /\ \A p \in Pin : cpc[p] \in {"idle", "done", "error"}
  /\ UNCHANGED vars

LowAll ==
  /\ Pio!irpio_lowall
  /\ IF phase' = "exit" THEN IsrEnds ELSE UNCHANGED vars

\* ... and a new process after the end or a SIGKILL of the former one.
Restarted == Pio!Restart /\ IsrEnds

SystemNext ==
  \/ PioStep \/ Terminated \/ LowAll \/ Restarted
  \/ \E p \in Pin : CallerRuns(p) \/ HandlerRuns(p) \/ EdgeArrives(p)

SystemSpec == SystemInit /\ [][SystemNext]_allVars

\* Threads run while the process runs; callers get the mutex in turn.
SystemFairSpec ==
  /\ SystemSpec
  /\ WF_allVars(LowAll)
  /\ \A p \in Pin : SF_allVars(phase = "run" /\ Caller(p) /\ UNCHANGED pioVars)
                   /\ WF_allVars(HandlerRuns(p))

\* OutputsOff (IrPio), for the process with its interrupt threads.
OutputsOff == Pio!OutputsOff
=============================================================================
