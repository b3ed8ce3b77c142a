----------------------------- MODULE AlarmOutput ----------------------------
(***************************************************************************)
(* The outputs of iralarmd: the callbacks alarm_thread and status_led,     *)
(* which drive the GPIO pins from two workers of IrThread's pool, and the  *)
(* main thread, which starts them, hands them the alarm state after every  *)
(* transition and stops them on SIGTERM.  The main thread is the pool's    *)
(* only client; AlarmLoop says when it makes a transition.                 *)
(***************************************************************************)
EXTENDS IrThread, Sequences

CONSTANTS Main   \* the main thread

AlarmState == {"NONE", "PREACTIVE", "ACTIVE"}
Pin == {"SPEKR", "ALARM", "STATS"}

\* Worker slots, in the order main() starts the threads.
StatusSlot == 0
AlarmSlot  == 1

\* How iralarmd uses the pool: one client and these callbacks, of which
\* alarm_thread suspends itself; NULL is ALRM_NONE.
DaemonPool ==
  /\ Client = {Main} /\ MAX_THREADS >= 2
  /\ Data = AlarmState /\ NULL = "NONE"
  /\ Callback = {"status_led", "alarm_thread"}
  /\ SuspendOn = [cb \in Callback |-> IF cb = "alarm_thread" THEN {"NONE"} ELSE {}]
  /\ ~CreateFails

VARIABLES
  astate,  \* the alarm state, as the main loop decides it
  mpc,     \* where main() is
  pin,     \* [Pin -> BOOLEAN]: the level of every output
  cbpos,   \* [Slot -> Nat]: pin writes the running callback has done
  thrd_alarm, \* the variable alarm_thread passes to irthread_suspend
  early    \* history: it did so before main() had set the variable

outVars == <<astate, mpc, pin, cbpos, thrd_alarm, early>>
allVars == <<vars, outVars>>

MainPC == {"start_status", "start_alarm", "set_alarm", "suspend_alarm", "sleep",
           "data_alarm", "data_status", "resume", "stop_alarm", "stop_status",
           "lowall", "exit"}

OutInit ==
  /\ Init
  /\ astate = "NONE"
  /\ mpc = "start_status"
  /\ pin = [p \in Pin |-> FALSE]
  /\ cbpos = [s \in Slot |-> 0]
  /\ thrd_alarm = 0  \* static
  /\ early = FALSE

-----------------------------------------------------------------------------
\* The pin writes of one call of a callback, in order.
alarm_thread(d) ==
  CASE d = "ACTIVE"    -> << <<"SPEKR", TRUE>>, <<"ALARM", FALSE>>,
                             <<"SPEKR", FALSE>>, <<"ALARM", TRUE>> >>
    [] d = "PREACTIVE" -> << <<"ALARM", TRUE>>, <<"ALARM", FALSE>> >>
    [] d = "NONE"      -> << <<"ALARM", FALSE>>, <<"SPEKR", FALSE>> >>

status_led(d) ==
  LET blink == << <<"STATS", TRUE>>, <<"STATS", FALSE>> >>
  IN  IF d = "PREACTIVE" THEN blink \o blink ELSE blink

Writes(s) == IF tcb[s] = "alarm_thread" THEN alarm_thread(data_ptr[s])
                                        ELSE status_led(data_ptr[s])

\* irpio_digitalWrite in a callback.  The speaker is switched on only when
\* s_speaker, which iralarmctl may change at any time, is set.
CallbackWrite(s) ==
  /\ wpc[s] = "call"
  /\ cbpos[s] < Len(Writes(s))
  /\ LET w == Writes(s)[cbpos[s] + 1] IN
       \/ pin' = [pin EXCEPT ![w[1]] = w[2]]
       \/ w = <<"SPEKR", TRUE>> /\ UNCHANGED pin
  /\ cbpos' = [cbpos EXCEPT ![s] = @ + 1]
  /\ UNCHANGED <<vars, astate, mpc, thrd_alarm, early>>

\* alarm_thread suspends thrd_alarm, not the id it is given: until main() has
\* set the variable this is slot 0, the status LED's.  (Nobody else writes that
\* slot's byte as long as the alarm thread lives, so that test, load and store
\* are one step.)
Stray(s) ==
  thrd_alarm # s /\ wpc[s] = "call" /\ data_ptr[s] \in SuspendOn[tcb[s]]

CallbackSuspendsOther(s) ==
  /\ Stray(s) /\ cbpos[s] = Len(Writes(s))
  /\ ~mtx_bsy[thrd_alarm]
  /\ WGoto(s, "call", "loop")
  /\ flags' = [flags EXCEPT ![thrd_alarm].susp = TRUE]
  /\ late' = [late EXCEPT ![thrd_alarm] = IF flags[thrd_alarm].susp THEN @ ELSE 0]
  /\ cbpos' = [cbpos EXCEPT ![s] = 0]
  /\ early' = TRUE
  /\ UNCHANGED <<tcb, data, mtx_bsy, tbusy, canc, wreg, data_ptr, clientVars,
                 astate, mpc, pin, thrd_alarm>>

\* Every other step of a worker; a callback returns after its last write.
\* Bound: only the alarm thread is woken without a signal.
WorkerStep(s) ==
  /\ Worker(s) \/ (s = AlarmSlot /\ WorkerSpuriousWake(s))
  /\ ~Stray(s)
  /\ wpc[s] = "call" => cbpos[s] = Len(Writes(s))
  /\ cbpos' = [cbpos EXCEPT ![s] = 0]
  /\ UNCHANGED <<astate, mpc, pin, thrd_alarm, early>>

-----------------------------------------------------------------------------
\* The main thread is between two calls at "from".
At(from, to) ==
  /\ cpc[Main] = "idle"
  /\ mpc = from /\ mpc' = to
  /\ UNCHANGED <<cbpos, early>>

\* Mutant: the wrong thread is suspended.
MainSuspendStatus ==
  /\ At("suspend_alarm", "sleep")
  /\ irthread_suspend(Main, StatusSlot)
  /\ UNCHANGED <<astate, pin, thrd_alarm>>

MainSuspend ==
  /\ At("suspend_alarm", "sleep")
  /\ irthread_suspend(Main, thrd_alarm)
  /\ UNCHANGED <<astate, pin, thrd_alarm>>

\* Start-up: both threads run before thrd_alarm is set and the alarm thread
\* suspended.
MainStart ==
  \/ /\ At("start_status", "start_alarm")
     /\ irthread_start(Main, "status_led", StatusSlot)
     /\ UNCHANGED <<astate, pin, thrd_alarm>>
  \/ /\ At("start_alarm", "set_alarm")
     /\ irthread_start(Main, "alarm_thread", AlarmSlot)
     /\ UNCHANGED <<astate, pin, thrd_alarm>>
  \/ /\ At("set_alarm", "suspend_alarm")
     /\ thrd_alarm' = AlarmSlot
     /\ UNCHANGED <<vars, astate, pin>>
  \/ MainSuspend

\* The states a cycle may go to.
Successors ==
  [NONE |-> {"PREACTIVE"}, PREACTIVE |-> {"ACTIVE", "NONE"}, ACTIVE |-> {"NONE"}]

\* Mutant: the alarm thread is not told that the alarm is over.
MainTransitionForgets ==
  /\ astate' \in Successors[astate]
  /\ At("sleep", IF astate' = "NONE" THEN "data_status" ELSE "data_alarm")
  /\ UNCHANGED <<vars, pin, thrd_alarm>>

\* A cycle changes the alarm state ...
MainTransition ==
  /\ At("sleep", "data_alarm")
  /\ astate' \in Successors[astate]
  /\ UNCHANGED <<vars, pin, thrd_alarm>>

\* ... and hands it to the workers; only a new alarm resumes the alarm thread.
MainHandOver ==
  \/ /\ At("data_alarm", "data_status")
     /\ irthread_setdata(Main, thrd_alarm, astate)
     /\ UNCHANGED <<astate, pin, thrd_alarm>>
  \/ /\ At("data_status", IF astate = "PREACTIVE" THEN "resume" ELSE "sleep")
     /\ irthread_setdata(Main, StatusSlot, astate)
     /\ UNCHANGED <<astate, pin, thrd_alarm>>
  \/ /\ At("resume", "sleep")
     /\ irthread_resume(Main, thrd_alarm)
     /\ UNCHANGED <<astate, pin, thrd_alarm>>

\* Mutant: irpio_lowall comes before the threads are stopped.
MainTerminateLowFirst ==
  \/ /\ At("sleep", "stop_alarm")
     /\ pin' = [p \in Pin |-> FALSE]
     /\ UNCHANGED <<vars, astate, thrd_alarm>>
  \/ /\ At("stop_alarm", "stop_status")
     /\ irthread_stop(Main, thrd_alarm)
     /\ UNCHANGED <<astate, pin, thrd_alarm>>
  \/ /\ At("stop_status", "exit")
     /\ irthread_stop(Main, StatusSlot)
     /\ UNCHANGED <<astate, pin, thrd_alarm>>

\* SIGTERM, delivered only while main() sleeps: stop both threads, set every
\* pin low, exit.
MainTerminate ==
  \/ /\ At("sleep", "stop_alarm")
     /\ UNCHANGED <<vars, astate, pin, thrd_alarm>>
  \/ /\ At("stop_alarm", "stop_status")
     /\ irthread_stop(Main, thrd_alarm)
     /\ UNCHANGED <<astate, pin, thrd_alarm>>
  \/ /\ At("stop_status", "lowall")
     /\ irthread_stop(Main, StatusSlot)
     /\ UNCHANGED <<astate, pin, thrd_alarm>>
  \/ /\ At("lowall", "exit")
     /\ pin' = [p \in Pin |-> FALSE]
     /\ UNCHANGED <<vars, astate, thrd_alarm>>

\* A call of the pool that has begun goes on.
MainCall == ClientStep(Main) /\ UNCHANGED outVars

\* What main() does without being asked to.
MainRuns == MainStart \/ MainHandOver \/ MainCall
            \/ (mpc # "sleep" /\ MainTerminate)

OutNext ==
  \/ \E s \in Slot : CallbackWrite(s) \/ CallbackSuspendsOther(s) \/ WorkerStep(s)
  \/ MainStart \/ MainTransition \/ MainHandOver \/ MainTerminate \/ MainCall

OutSpec == OutInit /\ [][OutNext]_allVars

\* Threads run, and get a mutex that is free again and again.
FairOutSpec ==
  /\ OutSpec
  /\ \A s \in Slot : SF_allVars(CallbackWrite(s) \/ CallbackSuspendsOther(s) \/ WorkerStep(s))
  /\ SF_allVars(MainRuns)

-----------------------------------------------------------------------------
\* When the process exits every output is low, and nobody is left to raise one.
AllLowAtExit ==
  mpc = "exit" => /\ \A p \in Pin : ~pin[p]
                  /\ \A s \in Slot : wpc[s] = "none"

\* Once the alarm is cleared for good the speaker falls silent for good.
SilentAfterClear == <>[](astate = "NONE") => <>[](~pin["SPEKR"])

\* The status LED goes on blinking until SIGTERM, whatever the alarm does, unless
\* alarm_thread reached its irthread_suspend before main() had set thrd_alarm:
\* then it has suspended the status LED's thread, which nobody resumes.
StatusBlinks ==
  []<>(pin["STATS"] \/ early
         \/ mpc \in {"stop_alarm", "stop_status", "lowall", "exit"})
=============================================================================
