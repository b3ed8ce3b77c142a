------------------------------ MODULE SemLife -------------------------------
(***************************************************************************)
(* The life of the semaphore set and of the shared memory segment: they    *)
(* are made and removed by iralarmd, outlive it when it is killed, and are *)
(* looked for by iralarmctl, which probes for the semaphore by trying to   *)
(* create it.  Nobody looks at the result of semop: when the set does not  *)
(* exist (any more) a process goes on without having waited.               *)
(*                                                                         *)
(* Processes are killed at any point (SIGKILL for the daemon, a SIGINT or  *)
(* SIGHUP for iralarmctl) and the daemon is started again.  What happens   *)
(* in a cycle is in AlarmCycle; here it is one critical section.           *)
(* Simplifications: no foreign set has the id 0 that sem_id starts with,   *)
(* process ids are not used again, one daemon runs at a time, and of the   *)
(* sets it may find it is refused only that of a probe.                    *)
(***************************************************************************)
EXTENDS IrShmem

CONSTANTS
  MaxCtl,     \* bound: how many iralarmctl processes there are
  MaxStarts   \* bound: how often the daemon is started

ASSUME LifeAssumption == MaxCtl \in Nat /\ MaxStarts \in Nat

\* Process ids: of iralarmctl, and of the n-th daemon.
Ctl == 1 .. MaxCtl
DaemonPid(n) == MaxCtl + n

\* Who may hold the semaphore: an iralarmctl or one of the daemon's threads.
MainThread == 0
IsrThread  == -1

VARIABLES
  semid,    \* id of the set with key SEM_ID, 0: there is none
  semval,   \* its value
  sempid,   \* GETPID: the process of the last semop, 0: there was none
  probe,    \* was it created by a probe of iralarmctl (mode 0)?
  shm,      \* does the segment with key SHM_SEGID exist?
  dpc,      \* where the daemon's main() is
  starts,   \* how often the daemon was started
  sem_id,   \* its sem_id
  ipc,      \* where its interrupt thread is
  ctl,      \* [Ctl -> [pc, sem_id, ird_pid, moved]]: the iralarmctls; moved is a
            \* history: between its probe and irmem_exists a daemon started or a
            \* probe was removed
  tok,      \* history: who waited with success for the set that exists
  why,      \* history: what has disturbed mutual exclusion on this set
  died,     \* history: an iralarmctl died with the semaphore
  clean     \* history: the last daemon ended by SIGTERM

semVars == <<semid, semval, sempid, probe>>
dVars   == <<dpc, starts, sem_id, ipc>>
vars    == <<semVars, shm, dVars, ctl, tok, why, died, clean>>

DaemonPC == {"off", "semget", "post", "sleep", "wait", "body", "rm_sem"}
CtlPC    == {"new", "probed", "rm", "shm", "ready", "access", "hup", "kill",
             "unlock", "gone"}
Fresh(pc, id) == [pc |-> pc, sem_id |-> id, ird_pid |-> 0, moved |-> FALSE]
Gone     == Fresh("gone", 0)

\* iralarmctl between its semops: do_get, do_set, and around kill().
InCtl == {"access", "kill", "unlock"}

Init ==
  /\ semid = 0 /\ semval = 0 /\ sempid = 0 /\ probe = FALSE
  /\ shm = FALSE
  /\ dpc = "off" /\ starts = 0 /\ sem_id = 0 /\ ipc = "none"
  /\ ctl = [k \in Ctl |-> Fresh("new", 0)]
  /\ tok = {} /\ why = {} /\ died = FALSE /\ clean = TRUE

\* The processes iralarmctl are numbered in the order they are started.
At(k, pc) == ctl[k].pc = pc
Goto(k, to) == ctl' = [ctl EXCEPT ![k] = IF to = "gone" THEN Gone ELSE [@ EXCEPT !.pc = to]]
Started(k) == ctl[k].pc # "new"
Disturb(c) == IF c.pc \in {"probed", "shm"} THEN [c EXCEPT !.moved = TRUE] ELSE c
Starts(k) == ~Started(k) /\ \A j \in 1 .. k - 1 : Started(j)

-----------------------------------------------------------------------------
(* The semaphore.                                                          *)
Exists(id) == id = semid /\ semid # 0

\* The ids that processes remember.
Known == {sem_id} \cup {ctl[k].sem_id : k \in Ctl}

\* semget with IPC_CREAT when there is no set: the new one has an id of its own.
Create(byProbe) ==
  /\ semid' = CHOOSE id \in 1 .. MaxCtl + 2 : id \notin Known
  /\ semval' = 0 /\ sempid' = 0 /\ probe' = byProbe

\* semctl(id, IPC_RMID); processes that wait get EIDRM.
Remove(id) ==
  IF Exists(id)
    THEN /\ semid' = 0 /\ semval' = 0 /\ sempid' = 0 /\ probe' = FALSE
         /\ tok' = {}
    ELSE UNCHANGED <<semVars, tok>>

\* semop(id, &sops[0], 1): p waits until it can decrement, or gets an error.
SemWait(id, p, pid) ==
  IF Exists(id)
    THEN /\ semval > 0 /\ semval' = semval - 1 /\ sempid' = pid
         /\ tok' = tok \cup {p}
         /\ UNCHANGED <<semid, probe>>
    ELSE UNCHANGED <<semVars, tok>>

\* semop(id, &sops[1], 1).
SemPost(id, p, pid) ==
  /\ IF Exists(id)
       THEN /\ semval' = semval + 1 /\ sempid' = pid
            /\ UNCHANGED <<semid, probe>>
       ELSE UNCHANGED semVars
  /\ tok' = tok \ {p}

-----------------------------------------------------------------------------
(* iralarmd.                                                               *)
Pid == DaemonPid(starts)
DGoto(from, to) == dpc = from /\ dpc' = to

\* main() up to irpio_isr: irmem_init(1) makes the segment or takes the one
\* that is there, the objects get their defaults, the interrupt is armed.
DaemonStart ==
  /\ starts < MaxStarts /\ starts' = starts + 1
  /\ DGoto("off", "semget")
  /\ shm' = TRUE /\ ipc' = "idle"
  /\ ctl' = [k \in Ctl |-> Disturb(ctl[k])]
  /\ UNCHANGED <<semVars, sem_id, tok, why, died, clean>>

\* semget(SEM_ID, 1, IPC_CREAT | 0660): make the set, or take the one that is
\* there.
DaemonSemget ==
  /\ DGoto("semget", "post")
  /\ IF semid = 0 THEN Create(FALSE) ELSE UNCHANGED semVars
  /\ sem_id' = semid'
  /\ why' = IF ipc = "flank" THEN why \cup {"early"} ELSE why
  /\ UNCHANGED <<shm, starts, ipc, ctl, tok, died, clean>>

\* A set that a probe has made has no mode bits: a daemon that is not root any
\* more (-u) is refused and raises SIGTERM; it has no set to remove.
DaemonSemgetFails ==
  /\ DGoto("semget", "off")
  /\ semid # 0 /\ probe
  /\ shm' = FALSE /\ clean' = TRUE
  /\ ipc' = "none" /\ tok' = tok \ {IsrThread}
  /\ UNCHANGED <<semVars, starts, sem_id, ctl, why, died>>

\* Mutant: only a set that nobody has used is posted.
DaemonPostNew ==
  /\ DGoto("post", "sleep")
  /\ IF sempid = 0 THEN SemPost(sem_id, MainThread, Pid) ELSE UNCHANGED <<semVars, tok>>
  /\ UNCHANGED <<shm, starts, sem_id, ipc, ctl, why, died, clean>>

\* Nobody asks whether the set is a new one.
DaemonPost ==
  /\ DGoto("post", "sleep")
  /\ SemPost(sem_id, MainThread, Pid)
  /\ why' = IF sempid # 0 THEN why \cup {"leftover"} ELSE why
  /\ UNCHANGED <<shm, starts, sem_id, ipc, ctl, died, clean>>

MainWake ==
  /\ DGoto("sleep", "wait")
  /\ UNCHANGED <<semVars, shm, starts, sem_id, ipc, ctl, tok, why, died, clean>>

MainLock ==
  /\ DGoto("wait", "body")
  /\ SemWait(sem_id, MainThread, Pid)
  /\ UNCHANGED <<shm, starts, sem_id, ipc, ctl, why, died, clean>>

MainUnlock ==
  /\ DGoto("body", "sleep")
  /\ SemPost(sem_id, MainThread, Pid)
  /\ UNCHANGED <<shm, starts, sem_id, ipc, ctl, why, died, clean>>

\* Mutants: the semaphore is removed before the segment; it is not removed.
MainTermSemFirst ==
  /\ DGoto("sleep", "rm_sem")
  /\ Remove(sem_id)
  /\ UNCHANGED <<shm, starts, sem_id, ipc, ctl, why, died, clean>>

\* SIGTERM while main() sleeps: irmem_free(1), ...
MainTerm ==
  /\ DGoto("sleep", "rm_sem")
  /\ shm' = FALSE
  /\ UNCHANGED <<semVars, starts, sem_id, ipc, ctl, tok, why, died, clean>>

MainExitKeeps ==
  /\ DGoto("rm_sem", "off")
  /\ shm' = FALSE /\ clean' = TRUE /\ ipc' = "none" /\ sem_id' = 0
  /\ UNCHANGED <<semVars, starts, ctl, tok, why, died>>

\* ... semctl(IPC_RMID) and exit.
MainExit ==
  /\ DGoto("rm_sem", "off")
  /\ Remove(sem_id)
  /\ shm' = FALSE /\ clean' = TRUE /\ ipc' = "none" /\ sem_id' = 0
  /\ why' = {}
  /\ UNCHANGED <<starts, ctl, died>>

\* SIGKILL: set and segment stay.
DaemonKilled ==
  /\ dpc # "off" /\ dpc' = "off"
  /\ ipc' = "none" /\ sem_id' = 0 /\ tok' = tok \ {MainThread, IsrThread}
  /\ clean' = FALSE
  /\ UNCHANGED <<semVars, shm, starts, ctl, why, died>>

\* ir_flank, which reads sem_id before each of its semops.
FlankWait ==
  /\ ipc = "idle" /\ ipc' = "flank"
  /\ SemWait(sem_id, IsrThread, Pid)
  /\ UNCHANGED <<shm, dpc, starts, sem_id, ctl, why, died, clean>>

FlankPost ==
  /\ ipc = "flank" /\ ipc' = "idle"
  /\ SemPost(sem_id, IsrThread, Pid)
  /\ UNCHANGED <<shm, dpc, starts, sem_id, ctl, why, died, clean>>

-----------------------------------------------------------------------------
(* iralarmctl.                                                             *)
\* semget(SEM_ID, 1, IPC_CREAT | IPC_EXCL): EEXIST means that a daemon runs.
CtlProbe(k) ==
  /\ Starts(k)
  /\ IF semid = 0
       THEN /\ Create(TRUE)
            /\ ctl' = [ctl EXCEPT ![k] = Fresh("rm", semid')]
       ELSE Goto(k, "probed") /\ UNCHANGED semVars
  /\ UNCHANGED <<shm, dVars, tok, why, died, clean>>

\* "does not exist, iralarmd started?": the probe removes what it made.
CtlProbeRemove(k) ==
  /\ At(k, "rm")
  /\ ctl' = [j \in Ctl |-> IF j = k THEN Gone ELSE Disturb(ctl[j])]
  /\ Remove(ctl[k].sem_id)
  /\ why' = IF Exists(ctl[k].sem_id) /\ sem_id = semid THEN why \cup {"probe"} ELSE why
  /\ UNCHANGED <<shm, dVars, died, clean>>

\* semget(SEM_ID, 1, 0) and semctl(GETPID), both -1 if the set is gone.
CtlOpen(k) ==
  /\ At(k, "probed")
  /\ ctl' = [ctl EXCEPT ![k].pc = "shm",
                         ![k].sem_id = IF semid = 0 THEN -1 ELSE semid,
                         ![k].ird_pid = IF semid = 0 THEN -1 ELSE sempid]
  /\ UNCHANGED <<semVars, shm, dVars, tok, why, died, clean>>

\* irmem_init(0) and irmem_exists; the process ends without a segment.
CtlAttach(k) ==
  /\ At(k, "shm") /\ Goto(k, IF shm THEN "ready" ELSE "gone")
  /\ UNCHANGED <<semVars, shm, dVars, tok, why, died, clean>>

\* Mutant: an access without the semaphore.
CtlWaitSkipped(k, from, to) ==
  /\ At(k, from) /\ Goto(k, to)
  /\ UNCHANGED <<semVars, tok, shm, dVars, why, died, clean>>

\* The first semop of do_get and do_set, and the one before kill() ...
CtlWait(k, from, to) ==
  /\ At(k, from) /\ Goto(k, to)
  /\ SemWait(ctl[k].sem_id, k, k)
  /\ UNCHANGED <<shm, dVars, why, died, clean>>

\* ... and the second one.
CtlPost(k, from, to) ==
  /\ At(k, from) /\ Goto(k, to)
  /\ SemPost(ctl[k].sem_id, k, k)
  /\ UNCHANGED <<shm, dVars, why, died, clean>>

\* These iralarmctls die, with what they hold.
Die(dead) ==
  /\ tok' = tok \ dead
  /\ died' = (died \/ tok \cap dead # {})

\* kill(ird_pid, SIGHUP): 0 is the own process group, -1 is everybody else.
\* iralarmctl dies of it; the daemon reloads.
CtlKill(k) ==
  LET pid  == ctl[k].ird_pid
      dead == {j \in Ctl : Started(j) /\ (pid = j \/ (pid = 0 /\ j = k) \/ (pid = -1 /\ j # k))}
  IN
  /\ At(k, "kill")
  /\ ctl' = [j \in Ctl |-> CASE j \in dead -> Gone
                              [] j = k /\ j \notin dead -> [ctl[k] EXCEPT !.pc = "unlock"]
                              [] OTHER -> ctl[j]]
  /\ Die(dead)
  /\ UNCHANGED <<semVars, shm, dVars, why, clean>>

\* Somebody interrupts iralarmctl.
CtlKilled(k) ==
  /\ ctl[k].pc \notin {"new", "gone"} /\ Goto(k, "gone")
  /\ Die({k})
  /\ UNCHANGED <<semVars, shm, dVars, why, clean>>

CtlStep(k) ==
  \/ CtlProbeRemove(k) \/ CtlOpen(k) \/ CtlAttach(k)
  \/ CtlWait(k, "ready", "access")
  \/ CtlPost(k, "access", "gone") \/ CtlPost(k, "access", "hup")
  \/ CtlWait(k, "hup", "kill") \/ CtlKill(k) \/ CtlPost(k, "unlock", "gone")

-----------------------------------------------------------------------------
Main == DaemonSemget \/ DaemonSemgetFails \/ DaemonPost \/ MainWake \/ MainUnlock
        \/ MainExit

Next ==
  \/ DaemonStart \/ Main \/ MainLock \/ MainTerm \/ DaemonKilled
  \/ FlankWait \/ FlankPost
  \/ \E k \in Ctl : CtlProbe(k) \/ CtlStep(k) \/ CtlKilled(k)

Spec == Init /\ [][Next]_vars

\* Processes run; the daemon gets the semaphore if it is free again and again.
\* Nobody has to start, stop or kill anything, and no flank has to arrive.
FairSpec ==
  /\ Spec
  /\ WF_vars(Main) /\ SF_vars(MainLock) /\ WF_vars(FlankPost)
  /\ \A k \in Ctl : WF_vars(CtlStep(k))

-----------------------------------------------------------------------------
\* A cycle has the flank counter and the shared memory for itself: no flank is
\* counted and no iralarmctl that uses the same set is between its semops.  The
\* exceptions are what the code does not guard against: a flank that straddles
\* the semget, a set left by a killed daemon (its successor posts once more),
\* and a set that is removed by a probe.  A clean stop puts an end to them all.
CycleIsExclusive ==
  dpc = "body" /\ why = {} =>
    /\ ipc # "flank"
    /\ \A k \in Ctl : ctl[k].pc \in InCtl => ctl[k].sem_id # sem_id

\* A daemon that ended by SIGTERM leaves neither segment nor semaphore, whatever
\* was killed before, so that the next one begins afresh; what may be there is
\* the set of a probe.
CleanStopLeavesNothing == dpc = "off" /\ clean => ~shm /\ (semid = 0 \/ probe)

\* "SIGHUP": kill(-1) would reach every process of the user.  GETPID fails when
\* the semaphore is gone; since the daemon removes the segment first, iralarmctl
\* then finds no segment and ends, unless a daemon started or another probe
\* ended after its own probe.
NoBroadcast ==
  \A k \in Ctl : At(k, "kill") /\ ctl[k].ird_pid = -1 => ctl[k].moved

\* The main loop is locked out for ever only if an iralarmctl died between its
\* two semops (nothing uses SEM_UNDO); a daemon killed in its cycle does not
\* lock out the next one.
LoopGoesOn == (dpc = "wait") ~> (dpc # "wait" \/ died)

\* The daemon and iralarmctl mean the same bytes by an object, no store reaches
\* another object, and every object lies in the memory that is attached,
\* although the segment was asked for without the factor of irmem_getptr.
LayoutOK ==
  LET mem == [a \in 0 .. 127 |-> 85] IN
  /\ \A id \in Object : Cells(id, irmem_type(id)) \subseteq Attached
  /\ \A id, other \in Object, v \in {0, 1, 256, 1000000} :
       Load(Store(mem, id, irmem_type(id), v), other, DaemonWidth(other)) =
         IF id = other THEN Truncated(v, irmem_type(id))
                       ELSE Load(mem, other, DaemonWidth(other))

\* LayoutOK of the segment, once it exists.
ObjectsAreSeparate == shm => LayoutOK

\* "Could not SIGHUP iralarmd": the process iralarmctl signals is the daemon.
SighupIsForDaemon ==
  \A k \in Ctl : At(k, "kill") => ctl[k].ird_pid \in {DaemonPid(n) : n \in 1 .. starts}
=============================================================================
