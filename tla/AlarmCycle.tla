----------------------------- MODULE AlarmCycle -----------------------------
(***************************************************************************)
(* The main loop of iralarmd with what runs beside it: the interrupt       *)
(* thread that counts flanks (ir_flank), the SIGHUP handler and the        *)
(* iralarmctl processes that read and write the shared memory.  They       *)
(* synchronise on one System V semaphore; the handler does not take it.    *)
(* The daemon is running and the semaphore was created with value 1        *)
(* (its creation, crash and removal are not part of this module).          *)
(*                                                                         *)
(* The decisions of a cycle are AlarmLoop's; this module says at which     *)
(* points they are made and implements AlarmLoop.                          *)
(***************************************************************************)
EXTENDS AlarmLoop, FiniteSets

CONSTANTS
  Daemon,   \* the process id of iralarmd
  MaxRuns   \* bound: how often iralarmctl is started

\* The iralarmctl processes, numbered in the order of their starts.
Ctl == 1 .. MaxRuns

\* The thresholds among the shared objects.  Of the others only SHM_ALARM,
\* s_astate here, has to do with the decisions of a cycle.
Field == {"minrecvd", "minalarm", "rstalarm"}

\* The thresholds are set one by one: a mixture of two configurations may be
\* published if they may be.
ASSUME CycleAssumption ==
  /\ MaxRuns \in Nat /\ Daemon \notin Nat
  /\ \A old, new \in Conf, f \in Field : [old EXCEPT ![f] = new[f]] \in Conf

VARIABLES
  mpc,      \* where main() is
  ipc,      \* where the interrupt thread is
  ireg,     \* ir_recvd as ir_flank loaded it
  sem,      \* value of the semaphore
  sempid,   \* the process that did the last semop (GETPID)
  hup,      \* a SIGHUP is pending for the daemon
  sh,       \* the thresholds in shared memory
  kpc,      \* [Ctl -> CtlPC]: where an iralarmctl is
  ird_pid   \* [Ctl -> Ctl \cup {Daemon}]: whom it will signal

privVars  == <<ir_alrm_cycls, ir_recvd_cycls, astate, since, shown, quiet,
               beams>>
loopVars  == <<privVars, s_astate>>
ctlVars   == <<kpc, ird_pid, sh>>
cycleVars == <<loopVars, ir_recvd, conf, mpc, ipc, ireg, sem, sempid, hup,
               ctlVars>>

MainPC == {"sleep", "h_minrecvd", "h_minalarm", "h_rstalarm", "wait", "body",
           "reset"}
CtlPC  == {"new", "shell", "shell_unlock", "set", "set_unlock", "hup_lock",
           "kill", "unlock", "gone"}

CycleInit ==
  /\ Init
  /\ mpc = "sleep" /\ ipc = "idle" /\ ireg = 0
  /\ sem = 1 /\ sempid = Daemon
  /\ hup = FALSE
  /\ sh = conf
  /\ kpc = [k \in Ctl |-> "new"]
  /\ ird_pid = [k \in Ctl |-> Daemon]

-----------------------------------------------------------------------------
\* semop(sem_id, &sops[0], 1) and semop(sem_id, &sops[1], 1).
SemWait(p) == sem > 0 /\ sem' = sem - 1 /\ sempid' = p
SemPost(p) == sem' = sem + 1 /\ sempid' = p

(* main().  Signals are unblocked only while it sleeps.                    *)
MGoto(from, to) == mpc = from /\ mpc' = to

\* usleep ends and the signals are blocked again; a signal that is pending
\* while they are not is delivered first.
MainWake ==
  /\ ~hup
  /\ MGoto("sleep", "wait")
  /\ UNCHANGED <<loopVars, ir_recvd, conf, ipc, ireg, sem, sempid, hup, ctlVars>>

MainLock ==
  /\ MGoto("wait", "body")
  /\ SemWait(Daemon)
  /\ UNCHANGED <<loopVars, ir_recvd, conf, ipc, ireg, hup, ctlVars>>

\* The counters, the published state and the switch.
MainBody ==
  /\ MGoto("body", "reset")
  /\ s_astate' = astate /\ shown' = astate
  /\ Raise \/ Escalate \/ Clear \/ Stay
  /\ Record
  /\ UNCHANGED <<ir_recvd, conf, ipc, ireg, sem, sempid, hup, ctlVars>>

MainReset ==
  /\ MGoto("reset", "sleep")
  /\ ir_recvd' = 0
  /\ SemPost(Daemon)
  /\ UNCHANGED <<loopVars, conf, ipc, ireg, hup, ctlVars>>

(* The SIGHUP handler reads the shared memory field by field and does not  *)
(* take the semaphore.                                                     *)
HandlerEnter ==
  /\ hup /\ hup' = FALSE
  /\ MGoto("sleep", "h_minrecvd")
  /\ UNCHANGED <<loopVars, ir_recvd, conf, ipc, ireg, sem, sempid, ctlVars>>

\* Mutant: one of the thresholds is not read again.
ReadFieldForgets(f, from, to) ==
  /\ MGoto(from, to)
  /\ conf' = IF f = "minrecvd" THEN conf ELSE [conf EXCEPT ![f] = sh[f]]
  /\ UNCHANGED <<loopVars, ir_recvd, ipc, ireg, sem, sempid, hup, ctlVars>>

ReadField(f, from, to) ==
  /\ MGoto(from, to)
  /\ conf' = [conf EXCEPT ![f] = sh[f]]
  /\ UNCHANGED <<loopVars, ir_recvd, ipc, ireg, sem, sempid, hup, ctlVars>>

Handler ==
  \/ HandlerEnter
  \/ ReadField("minrecvd", "h_minrecvd", "h_minalarm")
  \/ ReadField("minalarm", "h_minalarm", "h_rstalarm")
  \/ ReadField("rstalarm", "h_rstalarm", "sleep")

(* ir_flank in the interrupt thread: ir_recvd++ under the semaphore.       *)
FlankEdge ==
  /\ ipc = "idle" /\ ipc' = "lock"
  /\ UNCHANGED <<loopVars, ir_recvd, conf, mpc, ireg, sem, sempid, hup, ctlVars>>

\* Mutant: the flank is counted without the semaphore.
FlankLoadUnlocked ==
  /\ ir_recvd < MaxFlanks
  /\ ipc = "lock" /\ ipc' = "store"
  /\ ireg' = ir_recvd
  /\ UNCHANGED <<loopVars, ir_recvd, conf, mpc, sem, sempid, hup, ctlVars>>

FlankLoad ==
  /\ ir_recvd < MaxFlanks
  /\ ipc = "lock" /\ ipc' = "store"
  /\ SemWait(Daemon)
  /\ ireg' = ir_recvd
  /\ UNCHANGED <<loopVars, ir_recvd, conf, mpc, hup, ctlVars>>

FlankStore ==
  /\ ipc = "store" /\ ipc' = "post"
  /\ ir_recvd' = Inc(ireg) /\ ireg' = 0
  /\ UNCHANGED <<loopVars, conf, mpc, sem, sempid, hup, ctlVars>>

FlankPost ==
  /\ ipc = "post" /\ ipc' = "idle"
  /\ SemPost(Daemon)
  /\ UNCHANGED <<loopVars, ir_recvd, conf, mpc, ireg, hup, ctlVars>>

Interrupt == FlankEdge \/ FlankLoad \/ FlankStore \/ FlankPost

\* time() advances, or is set.
ClockTick ==
  /\ Tick \/ ClockStep
  /\ UNCHANGED <<mpc, ipc, ireg, sem, sempid, hup, ctlVars>>

-----------------------------------------------------------------------------
(* iralarmctl.                                                             *)
daemonVars == <<loopVars, ir_recvd, conf, mpc, ipc, ireg>>

KGoto(k, from, to) == kpc[k] = from /\ kpc' = [kpc EXCEPT ![k] = to]

\* The start of a process, for -s or for the shell.  It asks who did the last
\* semop and takes that process for the daemon; only -s uses the answer.
CtlStart(k, what) ==
  /\ \A j \in 1 .. k - 1 : kpc[j] # "new"
  /\ KGoto(k, "new", what)
  /\ ird_pid' = [ird_pid EXCEPT ![k] = IF what = "set" THEN sempid ELSE @]
  /\ UNCHANGED <<daemonVars, sem, sempid, hup, sh>>

\* do_get: GET in the shell, once per object for SHOW.  (-g and -a are shells
\* that end after it.)
CtlGet(k) ==
  /\ KGoto(k, "shell", "shell_unlock")
  /\ SemWait(k)
  /\ UNCHANGED <<daemonVars, hup, sh, ird_pid>>

\* do_set writes one object, a threshold or SHM_ALARM; another object, or the
\* value that is there, changes nothing here.  The shell does not signal the
\* daemon after it.
CtlSet(k, from, to) ==
  /\ KGoto(k, from, to)
  /\ SemWait(k)
  /\ \/ UNCHANGED <<sh, s_astate>>
     \/ /\ \E f \in Field, new \in Conf : sh' = [sh EXCEPT ![f] = new[f]]
        /\ UNCHANGED s_astate
     \/ s_astate' \in Stored /\ UNCHANGED sh
  /\ UNCHANGED <<privVars, ir_recvd, conf, mpc, ipc, ireg, hup, ird_pid>>

CtlShellUnlock(k) ==
  /\ KGoto(k, "shell_unlock", "shell")
  /\ SemPost(k)
  /\ UNCHANGED <<daemonVars, hup, sh, ird_pid>>

CtlShellEnd(k) ==
  /\ KGoto(k, "shell", "gone")
  /\ UNCHANGED <<daemonVars, sem, sempid, hup, sh, ird_pid>>

CtlSetUnlock(k) ==
  /\ KGoto(k, "set_unlock", "hup_lock")
  /\ SemPost(k)
  /\ UNCHANGED <<daemonVars, hup, sh, ird_pid>>

\* Mutant: the signal is sent without the semaphore.
CtlHupUnlocked(k) ==
  /\ KGoto(k, "hup_lock", "kill")
  /\ UNCHANGED <<daemonVars, sem, sempid, hup, sh, ird_pid>>

CtlHupLock(k) ==
  /\ KGoto(k, "hup_lock", "kill")
  /\ SemWait(k)
  /\ UNCHANGED <<daemonVars, hup, sh, ird_pid>>

\* The memory of process j is gone.
Forget(j) == [ird_pid EXCEPT ![j] = Daemon]

\* kill(ird_pid, SIGHUP): the daemon gets a pending signal, another
\* iralarmctl is terminated, nothing happens when it has ended before.
CtlKill(k) ==
  LET j == ird_pid[k] IN
  /\ hup' = (hup \/ j = Daemon)
  /\ kpc[k] = "kill"
  /\ kpc' = [x \in Ctl |-> IF x = k THEN "unlock"
                           ELSE IF x = j THEN "gone" ELSE kpc[x]]
  /\ ird_pid' = IF j \in Ctl THEN Forget(j) ELSE ird_pid
  /\ UNCHANGED <<daemonVars, sem, sempid, sh>>

\* Mutant: iralarmctl ends without its last semop.
CtlUnlockForgets(k) ==
  /\ KGoto(k, "unlock", "gone")
  /\ ird_pid' = Forget(k)
  /\ UNCHANGED <<daemonVars, sem, sempid, hup, sh>>

\* The last semop and the end of the process.
CtlUnlock(k) ==
  /\ KGoto(k, "unlock", "gone")
  /\ SemPost(k)
  /\ ird_pid' = Forget(k)
  /\ UNCHANGED <<daemonVars, hup, sh>>

\* A started -s goes on, and a command of the shell ends.
CtlStep(k) ==
  \/ CtlShellUnlock(k) \/ CtlSetUnlock(k) \/ CtlHupLock(k) \/ CtlKill(k)
  \/ CtlUnlock(k) \/ CtlSet(k, "set", "set_unlock")

\* What users do: start an iralarmctl, give the shell commands, leave it.
CtlUser(k) ==
  \/ CtlStart(k, "set") \/ CtlStart(k, "shell")
  \/ CtlGet(k) \/ CtlShellEnd(k) \/ CtlSet(k, "shell", "shell_unlock")

-----------------------------------------------------------------------------
Main == MainWake \/ MainLock \/ MainBody \/ MainReset \/ Handler

CycleNext ==
  \/ Main \/ Interrupt \/ ClockTick
  \/ \E k \in Ctl : CtlStep(k) \/ CtlUser(k)

CycleSpec == CycleInit /\ [][CycleNext]_cycleVars

\* Threads and processes that can run do run; usleep ends; the daemon gets the
\* semaphore if it is free again and again.  No edge has to arrive and nobody
\* has to start iralarmctl.
CycleFairness ==
  /\ SF_cycleVars(MainLock)
  /\ WF_cycleVars(MainWake \/ MainBody \/ MainReset \/ Handler)
  /\ WF_cycleVars(FlankStore \/ FlankPost)
  /\ \A k \in Ctl : WF_cycleVars(CtlStep(k))

FairCycleSpec == CycleSpec /\ CycleFairness

-----------------------------------------------------------------------------
\* Everybody between a semop of -1 and the semop of +1.
Holders ==
  {p \in Ctl : kpc[p] \in {"shell_unlock", "set_unlock", "kill", "unlock"}}
    \cup (IF mpc \in {"body", "reset"} THEN {Daemon} ELSE {})
    \cup (IF ipc \in {"store", "post"} THEN {"isr"} ELSE {})

\* The semaphore is a mutex and is never lost: an iralarmctl that another one
\* signals by mistake does not die between its semops, because the sender
\* holds the semaphore.
SemIsConserved == sem + Cardinality(Holders) = 1

\* The cycle is atomic and loses no flank: the daemon implements AlarmLoop.
\* Between the decision and ir_recvd = 0 the flanks count as consumed.
Abs == INSTANCE AlarmLoop
         WITH ir_recvd <- IF mpc = "reset" THEN 0 ELSE ir_recvd
ImplementsAlarmLoop == Abs!Spec

\* The thresholds in shared memory while a SIGHUP is on its way to the daemon
\* are in use later, unless somebody sets one of them again.
DeliveredSetTakesEffect ==
  \A new \in Conf : (hup /\ sh = new) ~> (conf = new \/ sh # new)

\* The main loop is never locked out: cycles go on for ever.
CyclesGoOn == []<>(mpc = "reset")
=============================================================================
