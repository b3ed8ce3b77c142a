--------------------------- MODULE SemLifeProofs ----------------------------
(* What a clean stop leaves behind, whom iralarmctl signals, and that a      *)
(* cycle of the daemon excludes everybody else, for any number of processes  *)
(* and starts of the daemon; and the layout of the segment.                  *)
EXTENDS SemLife, FiniteSetTheorems, TLAPS

\* S: the ids of semaphore sets, of which nothing need be known here.
CtlRec(S) == [pc : CtlPC, sem_id : S, ird_pid : Int, moved : BOOLEAN]

\* GETPID of a set that exists is never negative.
LifeTypes ==
  /\ \E S : 0 \in S /\ ctl \in [Ctl -> CtlRec(S)]
  /\ starts \in Nat /\ sempid \in Nat

\* A probe that has seen the semaphore and does not see it any more finds no
\* segment either: SIGTERM removes the segment first, and whatever else removes
\* the semaphore or makes the segment is recorded in moved.
Unmoved(k) ==
  /\ At(k, "probed") /\ ~ctl[k].moved /\ semid = 0 => ~shm
  /\ At(k, "shm") /\ ~ctl[k].moved /\ ctl[k].ird_pid = -1 => ~shm
  /\ ctl[k].pc \in {"ready", "access", "hup", "kill"} /\ ctl[k].ird_pid = -1 => ctl[k].moved

SignalInv == LifeTypes /\ \A k \in Ctl : Unmoved(k)

\* A set of a daemon is that of the daemon that runs.
OwnInv ==
  /\ dpc \notin {"off", "semget"} => semid = 0 \/ probe \/ sem_id = semid
  /\ CleanStopLeavesNothing

-----------------------------------------------------------------------------
LEMMA InitLife == Init => SignalInv /\ OwnInv
<1> SUFFICES ASSUME Init PROVE SignalInv /\ OwnInv
  OBVIOUS
<1>1. ctl = [k \in Ctl |-> Fresh("new", 0)] /\ Fresh("new", 0) \in CtlRec({0})
  BY DEF Init, Fresh, CtlRec, CtlPC
<1>2. SignalInv
  <2>1. LifeTypes
    BY <1>1 DEF Init, LifeTypes
  <2>2. \A k \in Ctl : Unmoved(k)
    BY <1>1 DEF Init, Unmoved, At, Fresh
  <2> QED
    BY <2>1, <2>2 DEF SignalInv
<1>3. OwnInv
  BY DEF Init, OwnInv, CleanStopLeavesNothing
<1> QED
  BY <1>2, <1>3

\* The semaphore's operations and the process id.
LEMMA PidIsNat == LifeTypes => Pid \in Nat /\ Ctl \subseteq Nat
  BY LifeAssumption DEF LifeTypes, Pid, DaemonPid, Ctl

LEMMA WaitKeeps ==
  ASSUME NEW id, NEW p, NEW pid \in Nat, sempid \in Nat, SemWait(id, p, pid)
  PROVE  sempid' \in Nat /\ semid' = semid /\ probe' = probe
  BY DEF SemWait, semVars

LEMMA PostKeeps ==
  ASSUME NEW id, NEW p, NEW pid \in Nat, sempid \in Nat, SemPost(id, p, pid)
  PROVE  sempid' \in Nat /\ semid' = semid /\ probe' = probe
  BY DEF SemPost, semVars

LEMMA RemoveClears ==
  ASSUME NEW id, sempid \in Nat, Remove(id)
  PROVE  sempid' \in Nat /\ (semid' = 0 \/ (semid' = semid /\ probe' = probe))
  BY DEF Remove, semVars

-----------------------------------------------------------------------------
\* Steps of the daemon.
Daemon == DaemonStart \/ Main \/ MainLock \/ MainTerm \/ DaemonKilled \/ FlankWait \/ FlankPost

LEMMA DisturbTypes ==
  ASSUME NEW S, NEW c \in CtlRec(S)
  PROVE  Disturb(c) \in CtlRec(S) /\ Disturb(c).pc = c.pc /\ Disturb(c).ird_pid = c.ird_pid
         /\ Disturb(c).sem_id = c.sem_id /\ (c.moved => Disturb(c).moved)
         /\ (c.pc \in {"probed", "shm"} => Disturb(c).moved)
  BY DEF Disturb, CtlRec

LEMMA DaemonSignal ==
  ASSUME SignalInv, Daemon PROVE SignalInv'
<1> USE DEF SignalInv
<1>0. LifeTypes /\ Pid \in Nat
  BY PidIsNat
<1>1. CASE DaemonStart
  <2>0. PICK S : 0 \in S /\ ctl \in [Ctl -> CtlRec(S)]
    BY DEF LifeTypes
  <2>1. \A k \in Ctl : ctl[k] \in CtlRec(S) /\ ctl'[k] = Disturb(ctl[k])
    BY <1>1, <2>0 DEF DaemonStart
  <2>2. LifeTypes'
    <3>1. ctl' \in [Ctl -> CtlRec(S)]
      BY <1>1, <2>1, DisturbTypes DEF DaemonStart
    <3> QED
      BY <1>1, <2>0, <3>1 DEF DaemonStart, LifeTypes, semVars
  <2>3. \A k \in Ctl : Unmoved(k)'
    BY <2>1, DisturbTypes DEF Unmoved, At
  <2> QED
    BY <2>2, <2>3
<1>2. CASE ctl' = ctl /\ starts' = starts /\ sempid' \in Nat /\ (semid' = 0 => semid = 0 \/ ~shm') /\ (shm' => shm)
  BY <1>2 DEF LifeTypes, Unmoved, At
<1>3. CASE DaemonSemget
  <2>1. sempid' \in Nat /\ (semid' = 0 => semid = 0)
    <3>1. CASE semid = 0
      BY <1>3, <3>1 DEF DaemonSemget, Create
    <3>2. CASE semid # 0
      BY <1>3, <3>2 DEF DaemonSemget, semVars, LifeTypes
    <3> QED
      BY <3>1, <3>2
  <2> QED
    BY <1>2, <1>3, <2>1 DEF DaemonSemget
<1>4. CASE DaemonSemgetFails \/ MainWake \/ MainTerm \/ DaemonKilled
  BY <1>2, <1>4 DEF DaemonSemgetFails, MainWake, MainTerm, DaemonKilled, semVars, LifeTypes
<1>5. CASE DaemonPost \/ MainUnlock \/ FlankPost
  <2>1. PICK p : SemPost(sem_id, p, Pid)
    BY <1>5 DEF DaemonPost, MainUnlock, FlankPost
  <2> QED
    BY <1>0, <1>2, <1>5, <2>1, PostKeeps DEF DaemonPost, MainUnlock, FlankPost, LifeTypes
<1>6. CASE MainLock \/ FlankWait
  <2>1. PICK p : SemWait(sem_id, p, Pid)
    BY <1>6 DEF MainLock, FlankWait
  <2>2. sempid' \in Nat /\ semid' = semid
    BY <1>0, <2>1, WaitKeeps DEF LifeTypes
  <2> QED
    BY <1>2, <1>6, <2>2 DEF MainLock, FlankWait
<1>7. CASE MainExit
  BY <1>2, <1>7, RemoveClears DEF MainExit, LifeTypes
<1> QED
  BY <1>1, <1>3, <1>4, <1>5, <1>6, <1>7 DEF Daemon, Main

\* Steps of an iralarmctl.  k changes, the others keep their records or get moved.
CtlNext(k) == CtlProbe(k) \/ CtlStep(k) \/ CtlKilled(k)

\* c becomes the record of k, and what c says of k's later signal is right.
LEMMA OneCtl ==
  ASSUME SignalInv, NEW k \in Ctl, NEW c, NEW T, c \in CtlRec(T),
         ctl' = [ctl EXCEPT ![k] = c],
         semid' = 0 => semid = 0, shm' = shm, starts' = starts, sempid' \in Nat,
         Unmoved(k)'
  PROVE  SignalInv'
<1>1. LifeTypes'
  <2>1. PICK S : 0 \in S /\ ctl \in [Ctl -> CtlRec(S)]
    BY DEF SignalInv, LifeTypes
  <2>2. ctl' \in [Ctl -> CtlRec(S \cup T)]
    BY <2>1 DEF CtlRec
  <2> QED
    BY <2>1, <2>2 DEF SignalInv, LifeTypes
<1>2. ASSUME NEW j \in Ctl, j # k PROVE Unmoved(j)'
  <2>1. ctl'[j] = ctl[j]
    BY <1>2 DEF SignalInv, LifeTypes
  <2> QED
    BY <2>1 DEF SignalInv, Unmoved, At
<1> QED
  BY <1>1, <1>2 DEF SignalInv

\* Goto is such a step when it leads where signals are no worse than before.
LEMMA GotoKeeps ==
  ASSUME SignalInv, NEW k \in Ctl, NEW to \in {"probed", "ready", "access", "hup", "kill", "unlock", "gone"},
         Goto(k, to), semid' = semid, shm' = shm, starts' = starts, sempid' \in Nat,
         to = "probed" => semid # 0,
         to = "ready" => At(k, "shm") /\ shm,
         to \in {"access", "hup", "kill"} => ctl[k].pc \in {"ready", "access", "hup"}
  PROVE  SignalInv'
<1>1. PICK S : 0 \in S /\ ctl \in [Ctl -> CtlRec(S)]
  BY DEF SignalInv, LifeTypes
<1> DEFINE c == IF to = "gone" THEN Gone ELSE [ctl[k] EXCEPT !.pc = to]
<1>2. c \in CtlRec(S) /\ c.pc = to
  BY <1>1 DEF CtlRec, CtlPC, Gone, Fresh
<1>3. ctl' = [ctl EXCEPT ![k] = c] /\ ctl'[k] = c
  BY <1>1 DEF Goto
<1>4. to # "gone" => c.ird_pid = ctl[k].ird_pid /\ c.moved = ctl[k].moved
  BY <1>1 DEF CtlRec
<1> HIDE DEF c
<1>5. Unmoved(k)'
  BY <1>2, <1>3, <1>4 DEF SignalInv, Unmoved, At
<1> QED
  BY <1>2, <1>3, <1>5, OneCtl

LEMMA CtlSignal ==
  ASSUME SignalInv, NEW k \in Ctl, CtlNext(k) PROVE SignalInv'
<1>1. PICK S : 0 \in S /\ ctl \in [Ctl -> CtlRec(S)]
  BY DEF SignalInv, LifeTypes
<1>2. sempid \in Nat /\ starts \in Nat /\ k \in Nat
  BY PidIsNat DEF SignalInv, LifeTypes
<1>3. CASE CtlProbe(k)
  <2>1. CASE semid = 0
    <3> DEFINE c == Fresh("rm", semid')
    <3>1. c \in CtlRec({semid'}) /\ c.pc = "rm" /\ ctl' = [ctl EXCEPT ![k] = c]
      BY <1>3, <2>1 DEF CtlProbe, Fresh, CtlRec, CtlPC
    <3>2. Unmoved(k)'
      BY <1>1, <3>1 DEF Unmoved, At
    <3> HIDE DEF c
    <3>3. shm' = shm /\ starts' = starts /\ sempid' \in Nat
      BY <1>3, <2>1 DEF CtlProbe, Create, dVars
    <3> QED
      BY <2>1, <3>1, <3>2, <3>3, OneCtl
  <2>2. CASE semid # 0
    BY <1>2, <1>3, <2>2, GotoKeeps DEF CtlProbe, semVars, dVars
  <2> QED
    BY <2>1, <2>2
<1>4. CASE CtlProbeRemove(k)
  <2>1. \A j \in Ctl : ctl'[j] = IF j = k THEN Gone ELSE Disturb(ctl[j])
    BY <1>4 DEF CtlProbeRemove
  <2>2. \A j \in Ctl : ctl[j] \in CtlRec(S)
    BY <1>1
  <2>3. Gone \in CtlRec(S) /\ Gone.pc = "gone"
    BY <1>1 DEF Gone, Fresh, CtlRec, CtlPC
  <2>4. \A j \in Ctl : ctl'[j] \in CtlRec(S)
    BY <2>1, <2>2, <2>3, DisturbTypes
  <2>5. LifeTypes'
    <3>1. ctl' \in [Ctl -> CtlRec(S)]
      BY <1>4, <2>4 DEF CtlProbeRemove
    <3>2. sempid' \in Nat /\ starts' = starts
      BY <1>2, <1>4, RemoveClears DEF CtlProbeRemove, dVars
    <3> QED
      BY <1>1, <1>2, <3>1, <3>2 DEF LifeTypes
  <2>6. ASSUME NEW j \in Ctl PROVE Unmoved(j)'
    <3>1. CASE j = k
      BY <2>1, <2>3, <3>1 DEF Unmoved, At
    <3>2. CASE j # k
      <4>1. ctl'[j] = Disturb(ctl[j])
        BY <2>1, <3>2
      <4> QED
        BY <2>2, <4>1, DisturbTypes DEF SignalInv, Unmoved, At
    <3> QED
      BY <3>1, <3>2
  <2> QED
    BY <2>5, <2>6 DEF SignalInv
<1>5. CASE CtlOpen(k)
  <2> DEFINE c == [ctl[k] EXCEPT !.pc = "shm",
                                 !.sem_id = IF semid = 0 THEN -1 ELSE semid,
                                 !.ird_pid = IF semid = 0 THEN -1 ELSE sempid]
  <2>1. ctl' = [ctl EXCEPT ![k] = c] /\ ctl'[k] = c
    BY <1>1, <1>5 DEF CtlOpen
  <2>2. ctl[k] \in CtlRec(S)
    BY <1>1
  <2>3. c \in CtlRec(S \cup {-1, semid})
    <3>1. (IF semid = 0 THEN -1 ELSE semid) \in S \cup {-1, semid}
      OBVIOUS
    <3>2. (IF semid = 0 THEN -1 ELSE sempid) \in Int
      BY <1>2
    <3> QED
      BY <2>2, <3>1, <3>2, Zenon DEF CtlRec, CtlPC
  <2>4. c.pc = "shm" /\ c.moved = ctl[k].moved /\ (c.ird_pid = -1 => semid = 0)
    BY <1>2, <2>2 DEF CtlRec
  <2> HIDE DEF c
  <2>5. Unmoved(k)'
    BY <1>5, <2>1, <2>4 DEF CtlOpen, SignalInv, Unmoved, At
  <2> QED
    BY <1>2, <1>5, <2>1, <2>3, <2>5, OneCtl DEF CtlOpen, semVars, dVars
<1>6. CASE CtlAttach(k)
  BY <1>2, <1>6, GotoKeeps DEF CtlAttach, semVars, dVars
<1>7. CASE CtlWait(k, "ready", "access") \/ CtlWait(k, "hup", "kill")
  <2>1. sempid' \in Nat /\ semid' = semid
    BY <1>2, <1>7, WaitKeeps DEF CtlWait
  <2> QED
    BY <1>7, <2>1, GotoKeeps DEF CtlWait, At, dVars
<1>8. CASE \/ CtlPost(k, "access", "gone") \/ CtlPost(k, "access", "hup")
           \/ CtlPost(k, "unlock", "gone")
  <2>1. sempid' \in Nat /\ semid' = semid
    BY <1>2, <1>8, PostKeeps DEF CtlPost
  <2> QED
    BY <1>8, <2>1, GotoKeeps DEF CtlPost, At, dVars
<1>9. CASE CtlKill(k)
  <2>1. UNCHANGED <<semid, sempid, shm, starts>>
    BY <1>9 DEF CtlKill, semVars, dVars
  <2>2. ASSUME NEW j \in Ctl
        PROVE  \/ ctl'[j] = Gone \/ ctl'[j] = ctl[j]
               \/ ctl'[j] = [ctl[j] EXCEPT !.pc = "unlock"]
    BY <1>9 DEF CtlKill
  <2>3. ASSUME NEW j \in Ctl PROVE ctl'[j] \in CtlRec(S) /\ Unmoved(j)'
    <3>1. CASE ctl'[j] = Gone
      BY <1>1, <3>1 DEF Gone, Fresh, CtlRec, CtlPC, Unmoved, At
    <3>2. CASE ctl'[j] = ctl[j]
      BY <1>1, <2>1, <3>2 DEF SignalInv, Unmoved, At
    <3>3. CASE ctl'[j] = [ctl[j] EXCEPT !.pc = "unlock"]
      BY <1>1, <3>3 DEF CtlRec, CtlPC, Unmoved, At
    <3> QED
      BY <2>2, <3>1, <3>2, <3>3
  <2>4. ctl' \in [Ctl -> CtlRec(S)]
    BY <1>9, <2>3 DEF CtlKill
  <2> QED
    BY <1>1, <1>2, <2>1, <2>3, <2>4 DEF SignalInv, LifeTypes
<1>10. CASE CtlKilled(k)
  BY <1>2, <1>10, GotoKeeps DEF CtlKilled, semVars, dVars
<1> QED
  BY <1>3, <1>4, <1>5, <1>6, <1>7, <1>8, <1>9, <1>10 DEF CtlNext, CtlStep

-----------------------------------------------------------------------------
(* Whose set and segment there are.                                        *)
LEMMA DaemonOwn ==
  ASSUME SignalInv, OwnInv, Daemon PROVE OwnInv'
<1> USE DEF OwnInv, CleanStopLeavesNothing, DGoto
<1>0. Pid \in Nat /\ sempid \in Nat
  BY PidIsNat DEF SignalInv, LifeTypes
<1>1. CASE DaemonStart
  BY <1>1 DEF DaemonStart
<1>2. CASE DaemonSemget
  BY <1>2 DEF DaemonSemget
<1>3. CASE DaemonSemgetFails \/ MainTerm \/ DaemonKilled \/ MainWake
  BY <1>3 DEF DaemonSemgetFails, MainTerm, DaemonKilled, MainWake, semVars
<1>4. CASE DaemonPost \/ MainUnlock \/ FlankPost
  <2>1. PICK p : SemPost(sem_id, p, Pid)
    BY <1>4 DEF DaemonPost, MainUnlock, FlankPost
  <2>2. semid' = semid /\ probe' = probe
    BY <1>0, <2>1, PostKeeps
  <2> QED
    BY <1>4, <2>2 DEF DaemonPost, MainUnlock, FlankPost
<1>5. CASE MainLock \/ FlankWait
  <2>1. PICK p : SemWait(sem_id, p, Pid)
    BY <1>5 DEF MainLock, FlankWait
  <2>2. semid' = semid /\ probe' = probe
    BY <1>0, <2>1, WaitKeeps
  <2> QED
    BY <1>5, <2>2 DEF MainLock, FlankWait
<1>6. CASE MainExit
  BY <1>6 DEF MainExit, Remove, Exists, semVars
<1> QED
  BY <1>1, <1>2, <1>3, <1>4, <1>5, <1>6 DEF Daemon, Main

\* iralarmctl makes only the set of a probe, and makes no segment.
LEMMA CtlOwn ==
  ASSUME SignalInv, OwnInv, NEW k \in Ctl, CtlNext(k) PROVE OwnInv'
<1>0. sempid \in Nat /\ k \in Nat
  BY PidIsNat DEF SignalInv, LifeTypes
<1>1. UNCHANGED <<shm, dpc, sem_id>> /\ (clean' = clean)
  BY DEF CtlNext, CtlStep, CtlProbe, CtlProbeRemove, CtlOpen, CtlAttach, CtlWait,
         CtlPost, CtlKill, CtlKilled, dVars
<1>2. \/ semid' = 0 \/ probe' \/ (semid' = semid /\ probe' = probe)
  <2>1. CASE CtlProbe(k)
    BY <2>1 DEF CtlProbe, Create, semVars
  <2>2. CASE CtlProbeRemove(k)
    BY <1>0, <2>2, RemoveClears DEF CtlProbeRemove
  <2>3. CASE CtlOpen(k) \/ CtlAttach(k) \/ CtlKill(k) \/ CtlKilled(k)
    BY <2>3 DEF CtlOpen, CtlAttach, CtlKill, CtlKilled, semVars
  <2>4. CASE CtlWait(k, "ready", "access") \/ CtlWait(k, "hup", "kill")
    BY <1>0, <2>4, WaitKeeps DEF CtlWait
  <2>5. CASE \/ CtlPost(k, "access", "gone") \/ CtlPost(k, "access", "hup")
             \/ CtlPost(k, "unlock", "gone")
    BY <1>0, <2>5, PostKeeps DEF CtlPost
  <2> QED
    BY <2>1, <2>2, <2>3, <2>4, <2>5 DEF CtlNext, CtlStep
<1> QED
  BY <1>1, <1>2 DEF OwnInv, CleanStopLeavesNothing

LEMMA LifeNext ==
  ASSUME SignalInv /\ OwnInv, [Next]_vars PROVE (SignalInv /\ OwnInv)'
<1>1. CASE Next
  <2>1. Daemon \/ \E k \in Ctl : CtlNext(k)
    BY <1>1 DEF Next, Daemon, CtlNext
  <2> QED
    BY <2>1, DaemonSignal, DaemonOwn, CtlSignal, CtlOwn
<1>2. CASE UNCHANGED vars
  BY <1>2 DEF vars, semVars, dVars, SignalInv, LifeTypes, Unmoved, At, OwnInv,
              CleanStopLeavesNothing
<1> QED
  BY <1>1, <1>2

\* The invariants hold in every state.
LEMMA LifeSafety == Spec => [](SignalInv /\ OwnInv)
  BY InitLife, LifeNext, PTL DEF Spec

\* main() at SIGTERM: a daemon that ended by it leaves neither segment nor
\* semaphore (but that of a probe), however often it was killed before.
THEOREM StopLeavesNothing == Spec => []CleanStopLeavesNothing
<1>1. SignalInv /\ OwnInv => CleanStopLeavesNothing
  BY DEF OwnInv
<1> QED
  BY <1>1, LifeSafety, PTL

\* kill(ird_pid, SIGHUP) of iralarmctl: its pid is -1 only if between its probe
\* and irmem_exists a daemon started or another probe was removed.
THEOREM SignalsOneProcess == Spec => []NoBroadcast
<1>1. SignalInv /\ OwnInv => NoBroadcast
  BY DEF SignalInv, Unmoved, NoBroadcast, At
<1> QED
  BY <1>1, LifeSafety, PTL

-----------------------------------------------------------------------------
(* Mutual exclusion.                                                       *)

Waiters == {MainThread, IsrThread} \cup Ctl

SemTypes ==
  /\ semid \in Nat /\ semval \in Nat /\ sempid \in Nat /\ sem_id \in Nat
  /\ starts \in Nat
  /\ tok \subseteq Waiters
  /\ ctl \in [Ctl -> CtlRec(Int)]

\* Whoever has used a set that exists has left its process id there; without a
\* set there is nothing to hold.
Untouched == semval = 0 /\ tok = {}
UsedInv ==
  /\ semid = 0 => sempid = 0
  /\ sempid = 0 => Untouched

\* The daemon has a set from semget on.  If it is not the one that exists, that
\* one was made by a probe, and nobody has got past its value 0.
DaemonSet == dpc \notin {"off", "semget"}
SetInv ==
  /\ dpc = "off" => ipc = "none"
  /\ dpc # "off" => starts # 0
  /\ DaemonSet <=> sem_id # 0
  /\ DaemonSet /\ semid # sem_id => sempid = 0
  /\ DaemonSet /\ why = {} => semid = sem_id

\* Who is inside has the token of the set it waited for, unless that set was
\* removed meanwhile or, for the interrupt thread, was not there yet.
TokenInv ==
  /\ dpc = "body" /\ semid = sem_id => MainThread \in tok
  /\ ipc = "flank" /\ semid = sem_id /\ semid # 0 => IsrThread \in tok \/ "early" \in why
  /\ \A k \in Ctl :
       ctl[k].pc \in InCtl /\ semid = ctl[k].sem_id /\ semid # 0 => k \in tok

\* At most one of the value and the tokens.
OneToken ==
  /\ semval <= 1
  /\ tok # {} => semval = 0
  /\ \A p, q \in tok : p = q
Undisturbed == why = {} => OneToken

ExclInv == SemTypes /\ UsedInv /\ SetInv /\ TokenInv /\ Undisturbed

\* There are more ids than processes that remember one.
LEMMA CreateIsNew ==
  ASSUME NEW b, Create(b)
  PROVE  /\ semid' \in Nat \ {0} /\ semid' \notin Known
         /\ semval' = 0 /\ sempid' = 0
<1> DEFINE f == [k \in Ctl |-> ctl[k].sem_id]
           T == {ctl[k].sem_id : k \in Ctl}
           Ids == 1 .. MaxCtl + 2
<1>1. IsFiniteSet(Ctl) /\ Cardinality(Ctl) = MaxCtl
  BY LifeAssumption, FS_Interval DEF Ctl
<1>2. IsFiniteSet(Ids) /\ Cardinality(Ids) = MaxCtl + 2
  BY LifeAssumption, FS_Interval
<1>3. f \in Surjection(Ctl, T)
  BY DEF Surjection
<1>4. IsFiniteSet(T) /\ Cardinality(T) <= MaxCtl
  BY <1>1, <1>3, FS_Surjection
<1>5. Known = T \cup {sem_id}
  BY DEF Known
<1>6. IsFiniteSet(Known) /\ Cardinality(Known) <= MaxCtl + 1
  <2>1. Cardinality(T) \in Nat
    BY <1>4, FS_CardinalityType
  <2> QED
    BY <1>4, <1>5, <2>1, LifeAssumption, FS_AddElement
<1>7. ~(Ids \subseteq Known)
  <2> SUFFICES ASSUME Ids \subseteq Known PROVE FALSE
    OBVIOUS
  <2>1. Cardinality(Ids) <= Cardinality(Known) /\ Cardinality(Known) \in Nat
    BY <1>6, FS_Subset, FS_CardinalityType
  <2> QED
    BY <1>2, <1>6, <2>1, LifeAssumption
<1>8. \E id \in Ids : id \notin Known
  BY <1>7
<1>9. semid' \in Ids /\ semid' \notin Known
  BY <1>8 DEF Create
<1> QED
  BY <1>9, LifeAssumption DEF Create

\* The semaphore's operations.
LEMMA WaitExcl ==
  ASSUME SemTypes, UsedInv, NEW id, NEW p \in Waiters, NEW pid \in Nat \ {0},
         SemWait(id, p, pid)
  PROVE  /\ semval' \in Nat /\ sempid' \in Nat /\ tok' \subseteq Waiters
         /\ semid' = semid /\ UsedInv' /\ tok \subseteq tok'
         /\ semid # 0 /\ id = semid => p \in tok'
         /\ sempid = 0 => sempid' = 0
         /\ OneToken => OneToken'
BY DEF SemTypes, UsedInv, Untouched, SemWait, Exists, OneToken, semVars

LEMMA PostExcl ==
  ASSUME SemTypes, UsedInv, NEW id, NEW p \in Waiters, NEW pid \in Nat \ {0},
         SemPost(id, p, pid)
  PROVE  /\ semval' \in Nat /\ sempid' \in Nat /\ tok' = tok \ {p}
         /\ semid' = semid /\ UsedInv'
         /\ sempid = 0 /\ ~Exists(id) => sempid' = 0
         /\ OneToken /\ (Exists(id) => p \in tok \/ Untouched) => OneToken'
BY DEF SemTypes, UsedInv, Untouched, SemPost, Exists, OneToken, semVars

LEMMA RemoveExcl ==
  ASSUME SemTypes, UsedInv, NEW id, Remove(id)
  PROVE  /\ semid' \in Nat /\ semval' \in Nat /\ sempid' \in Nat /\ tok' \subseteq Waiters
         /\ UsedInv'
         /\ IF Exists(id) THEN semid' = 0 /\ OneToken'
                          ELSE UNCHANGED <<semid, semval, sempid, tok>>
BY DEF SemTypes, UsedInv, Untouched, Remove, Exists, OneToken, semVars

LEMMA Pids ==
  ASSUME SemTypes, SetInv
  PROVE  /\ dpc # "off" => Pid \in Nat \ {0}
         /\ Ctl \subseteq Nat \ {0} /\ MainThread \notin Ctl /\ IsrThread \notin Ctl
         /\ MainThread # IsrThread
BY LifeAssumption
DEF SemTypes, SetInv, Pid, DaemonPid, Ctl, MainThread, IsrThread

\* Steps of the daemon.
LEMMA DaemonExcl ==
  ASSUME ExclInv, Daemon PROVE ExclInv'
<1> USE DEF ExclInv, DGoto
<1>1. CASE DaemonStart
  <2>1. UNCHANGED <<semVars, sem_id, tok, why>>
    BY <1>1 DEF DaemonStart
  <2>2. UNCHANGED <<semid, semval, sempid>>
    BY <2>1 DEF semVars
  <2>3. \A k \in Ctl : ctl[k] \in CtlRec(Int) /\ ctl'[k] = Disturb(ctl[k])
    BY <1>1 DEF DaemonStart, SemTypes
  <2>4. \A k \in Ctl : /\ ctl'[k] \in CtlRec(Int)
                       /\ ctl'[k].pc = ctl[k].pc /\ ctl'[k].sem_id = ctl[k].sem_id
    BY <2>3, DisturbTypes
  <2>5. SemTypes'
    BY <1>1, <2>1, <2>2, <2>4 DEF DaemonStart, SemTypes, Waiters
  <2>6. SetInv' /\ UsedInv' /\ Undisturbed'
    BY <1>1, <2>1, <2>2
    DEF DaemonStart, SemTypes, SetInv, DaemonSet, UsedInv, Untouched, Undisturbed, OneToken
  <2>7. TokenInv'
    BY <1>1, <2>1, <2>2, <2>4 DEF DaemonStart, TokenInv
  <2> QED
    BY <2>5, <2>6, <2>7
<1>2. CASE DaemonSemget
  <2>1. /\ dpc = "semget" /\ dpc' = "post" /\ sem_id' = semid'
        /\ UNCHANGED <<starts, ipc, ctl, tok>> /\ why \subseteq why'
        /\ (ipc = "flank" => "early" \in why')
    BY <1>2 DEF DaemonSemget
  <2>2. /\ semid' \in Nat \ {0} /\ semval' \in Nat /\ sempid' \in Nat
        /\ UsedInv' /\ (OneToken => OneToken')
        /\ \A k \in Ctl : semid' = ctl[k].sem_id => semid' = semid
    <3>1. CASE semid = 0
      <4>1. /\ semid' \in Nat \ {0} /\ semid' \notin Known
            /\ semval' = 0 /\ sempid' = 0
        BY <1>2, <3>1, CreateIsNew DEF DaemonSemget
      <4>2. tok = {}
        BY <3>1 DEF UsedInv, Untouched
      <4> QED
        BY <2>1, <4>1, <4>2 DEF UsedInv, Untouched, OneToken, Known
    <3>2. CASE semid # 0
      <4>1. UNCHANGED <<semid, semval, sempid>>
        BY <1>2, <3>2 DEF DaemonSemget, semVars
      <4> QED
        BY <2>1, <3>2, <4>1 DEF SemTypes, UsedInv, Untouched, OneToken
    <3> QED
      BY <3>1, <3>2
  <2>3. SemTypes' /\ SetInv' /\ Undisturbed'
    BY <2>1, <2>2 DEF SemTypes, Waiters, SetInv, DaemonSet, Undisturbed
  <2>4. TokenInv'
    BY <2>1, <2>2 DEF TokenInv, SemTypes
  <2> QED
    BY <2>2, <2>3, <2>4
<1>3. CASE DaemonSemgetFails \/ DaemonKilled
  <2>1. /\ dpc' = "off" /\ ipc' = "none" /\ sem_id' = 0 /\ tok' \subseteq tok
        /\ UNCHANGED <<semVars, starts, ctl, why>>
        /\ \A k \in Ctl : k \in tok => k \in tok'
    BY <1>3, Pids
    DEF DaemonSemgetFails, DaemonKilled, SetInv, DaemonSet
  <2>2. UNCHANGED <<semid, semval, sempid>>
    BY <2>1 DEF semVars
  <2>3. SemTypes' /\ SetInv' /\ UsedInv'
    BY <2>1, <2>2
    DEF SemTypes, Waiters, SetInv, DaemonSet, UsedInv, Untouched
  <2>4. TokenInv'
    BY <2>1, <2>2 DEF TokenInv
  <2>5. Undisturbed'
    BY <2>1, <2>2 DEF Undisturbed, OneToken
  <2> QED
    BY <2>3, <2>4, <2>5
<1>4. CASE DaemonPost
  <2>1. /\ dpc = "post" /\ dpc' = "sleep" /\ SemPost(sem_id, MainThread, Pid)
        /\ UNCHANGED <<starts, sem_id, ipc, ctl>>
        /\ why \subseteq why' /\ (why' = {} => sempid = 0)
    BY <1>4 DEF DaemonPost
  <2>2. /\ semval' \in Nat /\ sempid' \in Nat /\ tok' = tok \ {MainThread}
        /\ semid' = semid /\ UsedInv'
        /\ (sempid = 0 /\ ~Exists(sem_id) => sempid' = 0)
        /\ (OneToken /\ (Exists(sem_id) => MainThread \in tok \/ Untouched) => OneToken')
    BY <2>1, Pids, PostExcl DEF Waiters
  <2>3. SemTypes' /\ SetInv'
    BY <2>1, <2>2 DEF SemTypes, Waiters, SetInv, DaemonSet, Exists
  <2>4. TokenInv'
    BY <2>1, <2>2, Pids DEF TokenInv
  <2>5. Undisturbed'
    BY <2>1, <2>2 DEF Undisturbed, UsedInv
  <2> QED
    BY <2>2, <2>3, <2>4, <2>5
<1>5. CASE MainWake \/ MainTerm
  <2>1. UNCHANGED <<semVars, starts, sem_id, ipc, ctl, tok, why>>
    BY <1>5 DEF MainWake, MainTerm
  <2>2. UNCHANGED <<semid, semval, sempid>>
    BY <2>1 DEF semVars
  <2>3. dpc \in {"sleep"} /\ dpc' \in {"wait", "rm_sem"}
    BY <1>5 DEF MainWake, MainTerm
  <2> QED
    BY <2>1, <2>2, <2>3
    DEF SemTypes, Waiters, SetInv, DaemonSet, UsedInv, Untouched, TokenInv, Undisturbed,
        OneToken
<1>6. CASE MainLock
  <2>1. /\ dpc = "wait" /\ dpc' = "body" /\ SemWait(sem_id, MainThread, Pid)
        /\ UNCHANGED <<starts, sem_id, ipc, ctl, why>>
    BY <1>6 DEF MainLock
  <2>2. /\ semval' \in Nat /\ sempid' \in Nat /\ tok' \subseteq Waiters
        /\ semid' = semid /\ UsedInv' /\ tok \subseteq tok'
        /\ (semid # 0 /\ sem_id = semid => MainThread \in tok')
        /\ (sempid = 0 => sempid' = 0)
        /\ (OneToken => OneToken')
    BY <2>1, Pids, WaitExcl DEF Waiters
  <2>3. SemTypes' /\ SetInv'
    BY <2>1, <2>2 DEF SemTypes, Waiters, SetInv, DaemonSet
  <2>4. TokenInv'
    BY <2>1, <2>2 DEF TokenInv, SetInv, DaemonSet
  <2>5. Undisturbed'
    BY <2>1, <2>2 DEF Undisturbed
  <2> QED
    BY <2>2, <2>3, <2>4, <2>5
<1>7. CASE MainUnlock
  <2>1. /\ dpc = "body" /\ dpc' = "sleep" /\ SemPost(sem_id, MainThread, Pid)
        /\ UNCHANGED <<starts, sem_id, ipc, ctl, why>>
    BY <1>7 DEF MainUnlock
  <2>2. /\ semval' \in Nat /\ sempid' \in Nat /\ tok' = tok \ {MainThread}
        /\ semid' = semid /\ UsedInv'
        /\ (sempid = 0 /\ ~Exists(sem_id) => sempid' = 0)
        /\ (OneToken /\ (Exists(sem_id) => MainThread \in tok \/ Untouched) => OneToken')
    BY <2>1, Pids, PostExcl DEF Waiters
  <2>3. SemTypes' /\ SetInv'
    BY <2>1, <2>2 DEF SemTypes, Waiters, SetInv, DaemonSet, Exists
  <2>4. TokenInv'
    BY <2>1, <2>2, Pids DEF TokenInv
  <2>5. Undisturbed'
    BY <2>1, <2>2 DEF Undisturbed, TokenInv, Exists
  <2> QED
    BY <2>2, <2>3, <2>4, <2>5
\* The trouble ends with the set, or with what its remover had to do with it.
<1>8. CASE MainExit
  <2>1. /\ dpc = "rm_sem" /\ dpc' = "off" /\ Remove(sem_id) /\ ipc' = "none"
        /\ sem_id' = 0 /\ why' = {} /\ UNCHANGED <<starts, ctl>>
    BY <1>8 DEF MainExit
  <2>2. /\ semid' \in Nat /\ semval' \in Nat /\ sempid' \in Nat /\ tok' \subseteq Waiters
        /\ UsedInv'
        /\ IF Exists(sem_id) THEN semid' = 0 /\ OneToken'
                             ELSE UNCHANGED <<semid, semval, sempid, tok>>
    BY <2>1, RemoveExcl
  <2>3. SemTypes' /\ SetInv'
    BY <2>1, <2>2 DEF SemTypes, Waiters, SetInv, DaemonSet
  <2>4. TokenInv'
    BY <2>1, <2>2 DEF TokenInv
  <2>5. Undisturbed'
    <3>1. CASE Exists(sem_id)
      BY <2>2, <3>1 DEF Undisturbed
    <3>2. CASE ~Exists(sem_id)
      <4>1. Untouched
        BY <2>1, <3>2 DEF Exists, SetInv, DaemonSet, UsedInv
      <4> QED
        BY <2>2, <3>2, <4>1 DEF Untouched, Undisturbed, OneToken
    <3> QED
      BY <3>1, <3>2
  <2> QED
    BY <2>2, <2>3, <2>4, <2>5
<1>9. CASE FlankWait
  <2>1. /\ ipc = "idle" /\ ipc' = "flank" /\ SemWait(sem_id, IsrThread, Pid)
        /\ UNCHANGED <<dpc, starts, sem_id, ctl, why>>
    BY <1>9 DEF FlankWait
  <2>2. dpc # "off"
    BY <2>1 DEF SetInv
  <2>3. /\ semval' \in Nat /\ sempid' \in Nat /\ tok' \subseteq Waiters
        /\ semid' = semid /\ UsedInv' /\ tok \subseteq tok'
        /\ (semid # 0 /\ sem_id = semid => IsrThread \in tok')
        /\ (sempid = 0 => sempid' = 0)
        /\ (OneToken => OneToken')
    BY <2>1, <2>2, Pids, WaitExcl DEF Waiters
  <2>4. SemTypes' /\ SetInv'
    BY <2>1, <2>2, <2>3 DEF SemTypes, Waiters, SetInv, DaemonSet
  <2>5. TokenInv'
    BY <2>1, <2>3 DEF TokenInv
  <2>6. Undisturbed'
    BY <2>1, <2>3 DEF Undisturbed
  <2> QED
    BY <2>3, <2>4, <2>5, <2>6
<1>10. CASE FlankPost
  <2>1. /\ ipc = "flank" /\ ipc' = "idle" /\ SemPost(sem_id, IsrThread, Pid)
        /\ UNCHANGED <<dpc, starts, sem_id, ctl, why>>
    BY <1>10 DEF FlankPost
  <2>2. dpc # "off"
    BY <2>1 DEF SetInv
  <2>3. /\ semval' \in Nat /\ sempid' \in Nat /\ tok' = tok \ {IsrThread}
        /\ semid' = semid /\ UsedInv'
        /\ (sempid = 0 /\ ~Exists(sem_id) => sempid' = 0)
        /\ (OneToken /\ (Exists(sem_id) => IsrThread \in tok \/ Untouched) => OneToken')
    BY <2>1, <2>2, Pids, PostExcl DEF Waiters
  <2>4. SemTypes' /\ SetInv'
    BY <2>1, <2>2, <2>3 DEF SemTypes, Waiters, SetInv, DaemonSet, Exists
  <2>5. TokenInv'
    BY <2>1, <2>3, Pids DEF TokenInv
  <2>6. Undisturbed'
    BY <2>1, <2>3 DEF Undisturbed, TokenInv, Exists
  <2> QED
    BY <2>3, <2>4, <2>5, <2>6
<1> QED
  BY <1>1, <1>2, <1>3, <1>4, <1>5, <1>6, <1>7, <1>8, <1>9, <1>10 DEF Daemon, Main

\* Steps of an iralarmctl.  Those that do not use the semaphore change records
\* and take what the dead held.
LEMMA CtlQuiet ==
  ASSUME ExclInv, NEW D \in SUBSET Ctl, tok' = tok \ D,
         UNCHANGED <<semid, semval, sempid, dVars, why>>,
         ctl' \in [Ctl -> CtlRec(Int)],
         \A j \in Ctl : ctl'[j].pc \in InCtl =>
            ctl[j].pc \in InCtl /\ ctl'[j].sem_id = ctl[j].sem_id /\ j \notin D
  PROVE  ExclInv'
<1> USE DEF ExclInv, dVars
<1>1. SemTypes' /\ UsedInv' /\ SetInv' /\ Undisturbed'
  BY DEF SemTypes, Waiters, UsedInv, Untouched, SetInv, DaemonSet, Undisturbed, OneToken
<1>2. MainThread \notin D /\ IsrThread \notin D
  BY Pids
<1>3. TokenInv'
  BY <1>2 DEF TokenInv
<1> QED
  BY <1>1, <1>3

\* The record that Goto leaves.
LEMMA GotoTypes ==
  ASSUME SemTypes, NEW k \in Ctl, NEW to \in CtlPC, Goto(k, to)
  PROVE  /\ ctl' \in [Ctl -> CtlRec(Int)] /\ ctl'[k].pc = to
         /\ to # "gone" => ctl'[k].sem_id = ctl[k].sem_id
         /\ \A j \in Ctl : j # k => ctl'[j] = ctl[j]
<1>1. ctl \in [Ctl -> CtlRec(Int)] /\ Gone \in CtlRec(Int) /\ Gone.pc = "gone"
  BY DEF SemTypes, Gone, Fresh, CtlRec, CtlPC
<1> DEFINE c == IF to = "gone" THEN Gone ELSE [ctl[k] EXCEPT !.pc = to]
<1>2. c \in CtlRec(Int) /\ c.pc = to /\ (to # "gone" => c.sem_id = ctl[k].sem_id)
  BY <1>1 DEF CtlRec
<1>3. ctl' = [ctl EXCEPT ![k] = c]
  BY DEF Goto
<1> HIDE DEF c
<1> QED
  BY <1>1, <1>2, <1>3

LEMMA CtlExcl ==
  ASSUME ExclInv, NEW k \in Ctl, CtlNext(k) PROVE ExclInv'
<1> USE DEF ExclInv
<1>0. ctl \in [Ctl -> CtlRec(Int)] /\ k \in Nat \ {0} /\ k \in Waiters
  BY Pids DEF SemTypes, Waiters
<1>1. CASE CtlProbe(k) /\ semid = 0
  <2>1. UNCHANGED <<dVars, tok, why>> /\ ctl' = [ctl EXCEPT ![k] = Fresh("rm", semid')]
        /\ Create(TRUE)
    BY <1>1 DEF CtlProbe
  <2>2. /\ semid' \in Nat \ {0} /\ semid' \notin Known
        /\ semval' = 0 /\ sempid' = 0
    BY <2>1, CreateIsNew
  <2>3. tok = {}
    BY <1>1 DEF UsedInv, Untouched
  <2>4. Fresh("rm", semid') \in CtlRec(Int) /\ Fresh("rm", semid').pc = "rm"
    BY <2>2 DEF Fresh, CtlRec, CtlPC
  <2>5. SemTypes' /\ UsedInv' /\ Undisturbed'
    BY <1>0, <2>1, <2>2, <2>3, <2>4
    DEF SemTypes, UsedInv, Untouched, Undisturbed, OneToken, dVars
  <2>6. SetInv'
    BY <1>1, <2>1, <2>2 DEF SetInv, DaemonSet, dVars
  <2>7. ASSUME NEW j \in Ctl, ctl'[j].pc \in InCtl PROVE semid' # ctl'[j].sem_id
    <3>1. ctl'[j] = ctl[j]
      BY <1>0, <2>1, <2>4, <2>7 DEF InCtl
    <3> QED
      BY <2>2, <3>1 DEF Known
  <2>8. TokenInv'
    BY <2>1, <2>2, <2>7 DEF TokenInv, Known, dVars
  <2> QED
    BY <2>5, <2>6, <2>8
<1>2. CASE CtlProbe(k) /\ semid # 0
  <2>1. Goto(k, "probed") /\ UNCHANGED <<semid, semval, sempid, dVars, tok, why>>
    BY <1>2 DEF CtlProbe, semVars
  <2>2. PICK D \in SUBSET Ctl : D = {} /\ tok' = tok \ D
    BY <2>1
  <2>3. \A j \in Ctl : ctl'[j].pc \in InCtl => ctl'[j] = ctl[j]
    BY <2>1, GotoTypes DEF InCtl, CtlPC
  <2>4. ctl' \in [Ctl -> CtlRec(Int)]
    BY <2>1, GotoTypes DEF CtlPC
  <2> QED
    BY <2>1, <2>2, <2>3, <2>4, CtlQuiet
<1>3. CASE CtlProbeRemove(k)
  <2>1. /\ ctl' = [j \in Ctl |-> IF j = k THEN Gone ELSE Disturb(ctl[j])]
        /\ Remove(ctl[k].sem_id) /\ UNCHANGED dVars
        /\ why' = IF Exists(ctl[k].sem_id) /\ sem_id = semid THEN why \cup {"probe"} ELSE why
    BY <1>3 DEF CtlProbeRemove
  <2>2. /\ semid' \in Nat /\ semval' \in Nat /\ sempid' \in Nat /\ tok' \subseteq Waiters
        /\ UsedInv'
        /\ IF Exists(ctl[k].sem_id)
             THEN semid' = 0 /\ OneToken'
             ELSE UNCHANGED <<semid, semval, sempid, tok>>
    BY <2>1, RemoveExcl
  <2>3. Gone \in CtlRec(Int) /\ Gone.pc = "gone"
    BY DEF Gone, Fresh, CtlRec, CtlPC
  <2>4. \A j \in Ctl : /\ ctl'[j] \in CtlRec(Int)
                       /\ ctl'[j].pc \in InCtl =>
                            ctl'[j].pc = ctl[j].pc /\ ctl'[j].sem_id = ctl[j].sem_id
    <3> SUFFICES ASSUME NEW j \in Ctl
                 PROVE  /\ ctl'[j] \in CtlRec(Int)
                        /\ ctl'[j].pc \in InCtl =>
                             ctl'[j].pc = ctl[j].pc /\ ctl'[j].sem_id = ctl[j].sem_id
      OBVIOUS
    <3>1. CASE j = k
      BY <2>1, <2>3, <3>1 DEF InCtl
    <3>2. CASE j # k
      <4>1. ctl'[j] = Disturb(ctl[j]) /\ ctl[j] \in CtlRec(Int)
        BY <1>0, <2>1, <3>2
      <4> QED
        BY <4>1, DisturbTypes
    <3> QED
      BY <3>1, <3>2
  <2>5. SemTypes'
    BY <2>1, <2>2, <2>4 DEF SemTypes, Waiters, dVars
  <2>6. SetInv'
    BY <2>1, <2>2 DEF SetInv, DaemonSet, UsedInv, Exists, dVars
  <2>7. TokenInv'
    BY <2>1, <2>2, <2>4 DEF TokenInv, SetInv, DaemonSet, dVars
  <2>8. Undisturbed'
    BY <2>1, <2>2 DEF Undisturbed, OneToken
  <2> QED
    BY <2>2, <2>5, <2>6, <2>7, <2>8
<1>4. CASE CtlOpen(k)
  <2> DEFINE c == [ctl[k] EXCEPT !.pc = "shm",
                                 !.sem_id = IF semid = 0 THEN -1 ELSE semid,
                                 !.ird_pid = IF semid = 0 THEN -1 ELSE sempid]
  <2>1. ctl' = [ctl EXCEPT ![k] = c]
    BY <1>0, <1>4 DEF CtlOpen
  <2>2. c \in CtlRec(Int) /\ c.pc = "shm"
    <3>1. (IF semid = 0 THEN -1 ELSE semid) \in Int /\ (IF semid = 0 THEN -1 ELSE sempid) \in Int
      BY DEF SemTypes
    <3>2. ctl[k] \in CtlRec(Int)
      BY <1>0
    <3> QED
      BY <3>1, <3>2, Zenon DEF CtlRec, CtlPC
  <2> HIDE DEF c
  <2>3. ctl' \in [Ctl -> CtlRec(Int)] /\ \A j \in Ctl : ctl'[j].pc \in InCtl => ctl'[j] = ctl[j]
    BY <1>0, <2>1, <2>2 DEF InCtl
  <2>4. UNCHANGED <<semid, semval, sempid, dVars, why>>
    BY <1>4 DEF CtlOpen, semVars
  <2>5. PICK D \in SUBSET Ctl : D = {} /\ tok' = tok \ D
    BY <1>4 DEF CtlOpen
  <2> QED
    BY <2>3, <2>4, <2>5, CtlQuiet
<1>5. CASE CtlAttach(k)
  <2>1. PICK to \in {"ready", "gone"} : Goto(k, to)
    BY <1>5 DEF CtlAttach
  <2>2. ctl' \in [Ctl -> CtlRec(Int)] /\ \A j \in Ctl : ctl'[j].pc \in InCtl => ctl'[j] = ctl[j]
    BY <2>1, GotoTypes DEF InCtl, CtlPC
  <2>3. UNCHANGED <<semid, semval, sempid, dVars, why>>
    BY <1>5 DEF CtlAttach, semVars
  <2>4. PICK D \in SUBSET Ctl : D = {} /\ tok' = tok \ D
    BY <1>5 DEF CtlAttach
  <2> QED
    BY <2>2, <2>3, <2>4, CtlQuiet
<1>6. CASE CtlWait(k, "ready", "access") \/ CtlWait(k, "hup", "kill")
  <2>1. PICK to \in {"access", "kill"} :
          Goto(k, to) /\ SemWait(ctl[k].sem_id, k, k) /\ UNCHANGED <<dVars, why>>
    BY <1>6 DEF CtlWait
  <2>2. /\ ctl' \in [Ctl -> CtlRec(Int)] /\ ctl'[k].sem_id = ctl[k].sem_id
        /\ \A j \in Ctl : j # k => ctl'[j] = ctl[j]
    BY <2>1, GotoTypes DEF CtlPC
  <2>3. /\ semval' \in Nat /\ sempid' \in Nat /\ tok' \subseteq Waiters
        /\ semid' = semid /\ UsedInv' /\ tok \subseteq tok'
        /\ (semid # 0 /\ ctl[k].sem_id = semid => k \in tok')
        /\ (sempid = 0 => sempid' = 0)
        /\ (OneToken => OneToken')
    BY <1>0, <2>1, WaitExcl
  <2>4. SemTypes' /\ SetInv' /\ Undisturbed'
    BY <2>1, <2>2, <2>3 DEF SemTypes, Waiters, SetInv, DaemonSet, Undisturbed, dVars
  <2>5. TokenInv'
    BY <2>1, <2>2, <2>3 DEF TokenInv, dVars
  <2> QED
    BY <2>3, <2>4, <2>5
<1>7. CASE \/ CtlPost(k, "access", "gone") \/ CtlPost(k, "access", "hup")
           \/ CtlPost(k, "unlock", "gone")
  <2>1. PICK to \in {"gone", "hup"} :
          Goto(k, to) /\ SemPost(ctl[k].sem_id, k, k) /\ UNCHANGED <<dVars, why>>
    BY <1>7 DEF CtlPost
  <2>2. Exists(ctl[k].sem_id) => k \in tok
    BY <1>7 DEF CtlPost, At, InCtl, TokenInv, Exists
  <2>3. /\ ctl' \in [Ctl -> CtlRec(Int)] /\ ctl'[k].pc \notin InCtl
        /\ \A j \in Ctl : j # k => ctl'[j] = ctl[j]
    BY <2>1, GotoTypes DEF CtlPC, InCtl
  <2>4. /\ semval' \in Nat /\ sempid' \in Nat /\ tok' = tok \ {k}
        /\ semid' = semid /\ UsedInv'
        /\ (sempid = 0 /\ ~Exists(ctl[k].sem_id) => sempid' = 0)
        /\ (OneToken /\ (Exists(ctl[k].sem_id) => k \in tok \/ Untouched) => OneToken')
    BY <1>0, <2>1, PostExcl
  <2>5. Exists(ctl[k].sem_id) => sempid # 0
    BY <2>2 DEF UsedInv, Untouched
  <2>6. SemTypes' /\ SetInv' /\ Undisturbed'
    BY <2>1, <2>2, <2>3, <2>4, <2>5
    DEF SemTypes, Waiters, SetInv, DaemonSet, Undisturbed, dVars
  <2>7. TokenInv'
    BY <2>1, <2>3, <2>4, Pids DEF TokenInv, dVars
  <2> QED
    BY <2>4, <2>6, <2>7
<1>8. CASE CtlKill(k)
  <2> DEFINE pid  == ctl[k].ird_pid
             dead == {j \in Ctl : Started(j) /\ (pid = j \/ (pid = 0 /\ j = k) \/ (pid = -1 /\ j # k))}
  <2>1. PICK D \in SUBSET Ctl : D = dead
    OBVIOUS
  <2> HIDE DEF dead
  <2>2. /\ ctl[k].pc = "kill" /\ tok' = tok \ D /\ UNCHANGED <<semid, semval, sempid, dVars, why>>
        /\ ctl' = [j \in Ctl |-> CASE j \in D -> Gone
                                   [] j = k /\ j \notin D -> [ctl[k] EXCEPT !.pc = "unlock"]
                                   [] OTHER -> ctl[j]]
    BY <1>8, <2>1 DEF CtlKill, dead, Die, At, semVars
  <2>3. Gone \in CtlRec(Int) /\ Gone.pc = "gone"
    BY DEF Gone, Fresh, CtlRec, CtlPC
  <2>4. /\ [ctl[k] EXCEPT !.pc = "unlock"] \in CtlRec(Int)
        /\ [ctl[k] EXCEPT !.pc = "unlock"].sem_id = ctl[k].sem_id
    BY <1>0 DEF CtlRec, CtlPC
  <2>5. ASSUME NEW j \in Ctl
        PROVE  /\ ctl'[j] \in CtlRec(Int)
               /\ ctl'[j].pc \in InCtl =>
                    ctl[j].pc \in InCtl /\ ctl'[j].sem_id = ctl[j].sem_id /\ j \notin D
    BY <1>0, <2>2, <2>3, <2>4 DEF InCtl
  <2>6. ctl' \in [Ctl -> CtlRec(Int)]
    BY <2>2, <2>5
  <2> QED
    BY <2>2, <2>5, <2>6, CtlQuiet
<1>9. CASE CtlKilled(k)
  <2>1. Goto(k, "gone") /\ tok' = tok \ {k} /\ UNCHANGED <<semid, semval, sempid, dVars, why>>
    BY <1>9 DEF CtlKilled, Die, semVars
  <2>2. ctl' \in [Ctl -> CtlRec(Int)] /\ ctl'[k].pc = "gone"
        /\ \A j \in Ctl : j # k => ctl'[j] = ctl[j]
    BY <2>1, GotoTypes DEF CtlPC
  <2>3. \A j \in Ctl : ctl'[j].pc \in InCtl => ctl'[j] = ctl[j] /\ j \notin {k}
    BY <2>2 DEF InCtl
  <2> QED
    BY <2>1, <2>2, <2>3, CtlQuiet
<1> QED
  BY <1>1, <1>2, <1>3, <1>4, <1>5, <1>6, <1>7, <1>8, <1>9 DEF CtlNext, CtlStep

LEMMA ExclNext ==
  ASSUME ExclInv, [Next]_vars PROVE ExclInv'
<1>1. CASE Next
  <2>1. Daemon \/ \E k \in Ctl : CtlNext(k)
    BY <1>1 DEF Next, Daemon, CtlNext
  <2> QED
    BY <2>1, DaemonExcl, CtlExcl
<1>2. CASE UNCHANGED vars
  BY <1>2 DEF vars, semVars, dVars, ExclInv, SemTypes, Waiters, UsedInv, Untouched, SetInv,
              DaemonSet, TokenInv, Undisturbed, OneToken
<1> QED
  BY <1>1, <1>2

LEMMA InitExcl == Init => ExclInv
<1> SUFFICES ASSUME Init PROVE ExclInv
  OBVIOUS
<1>1. ctl = [k \in Ctl |-> Fresh("new", 0)] /\ Fresh("new", 0) \in CtlRec(Int)
      /\ Fresh("new", 0).pc = "new"
  BY DEF Init, Fresh, CtlRec, CtlPC
<1>2. SemTypes
  BY <1>1 DEF Init, SemTypes
<1>3. UsedInv /\ SetInv /\ Undisturbed
  BY DEF Init, UsedInv, Untouched, SetInv, DaemonSet, Undisturbed, OneToken
<1>4. TokenInv
  BY <1>1 DEF Init, TokenInv, InCtl
<1> QED
  BY <1>2, <1>3, <1>4 DEF ExclInv

\* semop around the cycle of main(): with the set of a clean start nobody else,
\* flank handler or iralarmctl, is between its semops meanwhile, whoever was
\* killed before.
THEOREM CycleExcludes == Spec => []CycleIsExclusive
<1>1. ASSUME ExclInv PROVE CycleIsExclusive
  <2> SUFFICES ASSUME dpc = "body", why = {}
               PROVE  /\ ipc # "flank"
                      /\ \A k \in Ctl : ctl[k].pc \in InCtl => ctl[k].sem_id # sem_id
    BY DEF CycleIsExclusive
  <2>1. semid = sem_id /\ semid # 0
    BY <1>1 DEF ExclInv, SetInv, DaemonSet
  <2>2. MainThread \in tok /\ \A p \in tok : p = MainThread
    BY <1>1, <2>1 DEF ExclInv, TokenInv, Undisturbed, OneToken
  <2>3. MainThread # IsrThread /\ MainThread \notin Ctl
    BY <1>1, Pids DEF ExclInv
  <2> QED
    BY <1>1, <2>1, <2>2, <2>3 DEF ExclInv, TokenInv
<1> QED
  BY <1>1, InitExcl, ExclNext, PTL DEF Spec

-----------------------------------------------------------------------------
(* The segment.                                                            *)

\* The sum of the widths in irmem_getptr, as a table.
Offset(id) == CASE id = 0 -> 0 [] id \in 1 .. 4 -> id + 3 [] id \in 5 .. 10 -> 4 * id - 12
                [] OTHER -> 29

LEMMA Widths ==
  /\ shmsiz = 11 /\ Object = 0 .. 10
  /\ \A id \in Object : irmem_type(id) = IF id \in {1, 2, 3, 4, 10} THEN 1 ELSE 4
  /\ \A id \in Object : DaemonWidth(id) = irmem_type(id)
BY SMT DEF shmsiz, Object, initial, irmem_type, DaemonWidth, ucptr, BYTE, INT32, SHM_ACTIVE,
   SHM_SPKR, SHM_XMPP, SHM_VIDEO, SHM_ALARM

LEMMA Offsets == \A id \in 0 .. shmsiz : p_off[id] = Offset(id)
<1> DEFINE f == [id \in 0 .. shmsiz |-> Offset(id)]
<1>1. shmsiz = 11 /\ \A id \in 1 .. 11 : initial[id] = IF id \in {2, 3, 4, 5, 11} THEN 1 ELSE 4
  BY SMT DEF initial, INT32, BYTE, shmsiz
<1>2. f = [id \in 0 .. shmsiz |-> IF id = 0 THEN 0 ELSE f[id - 1] + initial[id]]
  BY <1>1, SMTT(20) DEF Offset
<1> HIDE DEF f
<1>3. p_off = [id \in 0 .. shmsiz |-> IF id = 0 THEN 0 ELSE p_off[id - 1] + initial[id]]
  BY <1>2 DEF p_off
<1>4. \A id \in 1 .. 11 : p_off[id] = p_off[id - 1] + initial[id]
  BY <1>1, <1>3, SMT
<1>5. p_off[0] = 0
  BY <1>1, <1>3, SMT
<1>6. p_off[1] = 4 /\ p_off[2] = 5 /\ p_off[3] = 6 /\ p_off[4] = 7
  BY <1>1, <1>4, <1>5, SMT
<1>7. p_off[5] = 8 /\ p_off[6] = 12 /\ p_off[7] = 16 /\ p_off[8] = 20
  BY <1>1, <1>4, <1>6, SMT
<1>8. p_off[9] = 24 /\ p_off[10] = 28 /\ p_off[11] = 29
  BY <1>1, <1>4, <1>7, SMT
<1> QED
  BY <1>1, <1>5, <1>6, <1>7, <1>8, SMT DEF Offset

\* No two objects share a byte, and all lie in the attached page.
LEMMA CellsSeparate ==
  ASSUME NEW id \in Object
  PROVE  /\ irmem_getptr(id) \in 0 .. 127 /\ irmem_getptr(id) + irmem_type(id) - 1 \in 0 .. 127
         /\ Cells(id, irmem_type(id)) \subseteq Attached
         /\ \A other \in Object : other # id =>
              Cells(id, irmem_type(id)) \cap Cells(other, irmem_type(other)) = {}
<1>1. \A j \in Object : irmem_getptr(j) = 4 * Offset(j)
  BY Widths, Offsets, SMT DEF irmem_getptr, INT
<1>2. irmem_getptr(id) \in 0 .. 127 /\ irmem_getptr(id) + irmem_type(id) - 1 \in 0 .. 127
  BY <1>1, Widths, SMT DEF Offset
<1>3. p_off[shmsiz] = 29
  BY Widths, Offsets, SMT DEF Offset
<1>4. Attached = 0 .. 4095
  BY <1>3, SMT DEF Attached, SegmentSize, PAGE
<1>5. ASSUME NEW other \in Object, other # id
      PROVE  Cells(id, irmem_type(id)) \cap Cells(other, irmem_type(other)) = {}
  BY <1>1, <1>5, Widths, SMT DEF Offset, Cells
<1> QED
  BY <1>2, <1>4, <1>5, SMT DEF Cells

\* A 32-bit value is the sum of its bytes.
LEMMA DivMod ==
  ASSUME NEW v \in Nat
  PROVE  v = 256 * (v \div 256) + (v % 256) /\ v \div 256 \in Nat /\ v % 256 \in 0 .. 255
BY SMT
LEMMA DivDiv == \A v \in Nat : v \div 65536 = (v \div 256) \div 256
BY SMT
LEMMA DivDivDiv == \A v \in Nat : v \div 16777216 = (v \div 65536) \div 256
BY SMT
LEMMA Digits ==
  ASSUME NEW v \in Nat, NEW q1 \in Nat, NEW q2 \in Nat, NEW q3 \in Nat,
         NEW r0 \in Nat, NEW r1 \in Nat, NEW r2 \in Nat,
         v = 256 * q1 + r0, q1 = 256 * q2 + r1, q2 = 256 * q3 + r2
  PROVE  r0 + (256 * r1) + (65536 * r2) + (16777216 * q3) = v
BY SMT

\* The unsigned values of 32 bits, of which an object holds one, and their bytes.
Int32 == {v \in Nat : v \div 16777216 \in 0 .. 255}
Bytes(v, b0, b1, b2, b3) ==
  /\ Byte(v, 0) = b0 /\ Byte(v, 1) = b1 /\ Byte(v, 2) = b2 /\ Byte(v, 3) = b3
  /\ b0 = v % 256 /\ b0 + (256 * b1) + (65536 * b2) + (16777216 * b3) = v

LEMMA BytesOfValue ==
  ASSUME NEW v \in Int32
  PROVE  \E b0, b1, b2, b3 \in 0 .. 255 : Bytes(v, b0, b1, b2, b3)
<1>0. v \in Nat /\ v \div 16777216 \in 0 .. 255
  BY SMT DEF Int32
<1>1. /\ Byte(v, 0) = (v \div 1) % 256 /\ Byte(v, 1) = (v \div 256) % 256
      /\ Byte(v, 2) = (v \div 65536) % 256 /\ Byte(v, 3) = (v \div 16777216) % 256
  BY <1>0, SMT DEF Byte
<1>2. PICK q1 \in Nat : q1 = v \div 256
  BY <1>0, SMT
<1>3. PICK q2 \in Nat : q2 = v \div 65536
  BY <1>0, SMT
<1>4. PICK q3 \in 0 .. 255 : q3 = v \div 16777216
  BY <1>0, SMT
<1>5. PICK r0 \in 0 .. 255 : r0 = v % 256
  BY <1>0, DivMod, SMT
<1>6. PICK r1 \in 0 .. 255 : r1 = q1 % 256
  BY <1>0, DivMod, SMT
<1>7. PICK r2 \in 0 .. 255 : r2 = q2 % 256
  BY <1>0, DivMod, SMT
<1>8. v = 256 * q1 + r0
  BY <1>2, <1>5, <1>0, DivMod, SMT
<1>9. q2 = q1 \div 256
  BY <1>2, <1>3, <1>0, DivDiv, SMT
<1>10. q1 = 256 * q2 + r1
  BY <1>6, <1>9, <1>0, DivMod, SMT
<1>11. q3 = q2 \div 256
  BY <1>0, <1>3, <1>4, DivDivDiv, SMT
<1>12. q2 = 256 * q3 + r2
  BY <1>7, <1>11, <1>0, DivMod, SMT
<1>13. q3 % 256 = q3 /\ v \div 1 = v
  BY <1>0, SMT
<1>14. r0 + (256 * r1) + (65536 * r2) + (16777216 * q3) = v
  BY <1>8, <1>10, <1>12, <1>0, Digits, SMT
<1>15. Byte(v, 0) = r0 /\ Byte(v, 1) = r1 /\ Byte(v, 2) = r2 /\ Byte(v, 3) = q3
  BY <1>1, <1>2, <1>3, <1>4, <1>5, <1>6, <1>7, <1>13, SMT
<1>16. Bytes(v, r0, r1, r2, q3)
  BY <1>5, <1>14, <1>15, SMT DEF Bytes
<1> QED
  BY <1>16, Zenon

\* After iralarmctl has stored v the daemon reads it, cut to the width of the
\* object, and from every other object what it read before.
ReadsBack(mem, id, other, v) ==
  Load(Store(mem, id, irmem_type(id), v), other, DaemonWidth(other)) =
    IF id = other THEN Truncated(v, irmem_type(id)) ELSE Load(mem, other, DaemonWidth(other))

\* do_set of iralarmctl and the pointers of iralarmd: a store reaches the object
\* it is for and no other, for every content of the memory and every 32-bit value.
THEOREM StoresAreSeparate ==
  ASSUME NEW D, 0 .. 127 \subseteq D, NEW mem \in [D -> 0 .. 255],
         NEW id \in Object, NEW other \in Object,
         NEW v \in Int32
  PROVE  ReadsBack(mem, id, other, v)
<1> DEFINE new == Store(mem, id, irmem_type(id), v)
           w   == irmem_type(other)
           at(n) == irmem_getptr(other) + n
<1>1. w \in {1, 4} /\ DaemonWidth(other) = w /\ irmem_type(id) \in {1, 4}
  BY Widths, SMT
<1>2. \A n \in 0 .. w - 1 : at(n) \in D /\ at(n) \in Cells(other, w)
  <2>1. PICK g \in 0 .. 127, k \in {1, 4} : g = irmem_getptr(other) /\ k = w /\ g + k - 1 \in 0 .. 127
    BY <1>1, CellsSeparate, Zenon
  <2>2. Cells(other, w) = g .. g + k - 1
    BY <2>1 DEF Cells
  <2>3. ASSUME NEW n \in 0 .. k - 1 PROVE g + n \in 0 .. 127 /\ g + n \in g .. g + k - 1
    <3>1. g + k - 1 \in 0 .. 127
      BY <2>1
    <3>2. g + n \in 0 .. 127
      BY <3>1, SMT
    <3>3. g + n \in g .. g + k - 1
      BY SMT
    <3> QED
      BY <3>2, <3>3
  <2>4. \A n : at(n) = g + n
    BY <2>1
  <2> HIDE DEF at, w
  <2> QED
    BY <2>1, <2>2, <2>3, <2>4
<1>3. CASE id # other
  <2>1. \A n \in 0 .. w - 1 : new[at(n)] = mem[at(n)]
    BY <1>2, <1>3, CellsSeparate, SMT DEF Store
  <2> QED
    BY <1>1, <1>3, <2>1, SMT DEF ReadsBack, Load
<1>4. CASE id = other
  <2>1. \A n \in 0 .. w - 1 : new[at(n)] = Byte(v, n)
    <3>1. irmem_getptr(id) \in Int
      BY CellsSeparate, SMT
    <3> QED
      BY <1>1, <1>2, <1>4, <3>1, SMT DEF Store
  <2>2. PICK b0, b1, b2, b3 \in 0 .. 255 : Bytes(v, b0, b1, b2, b3)
    BY BytesOfValue, Zenon
  <2>3. CASE w = 1
    <3>1. new[at(0)] = b0
      BY <2>1, <2>2, <2>3, SMT DEF Bytes
    <3> QED
      BY <1>1, <1>4, <2>2, <2>3, <3>1, SMT DEF ReadsBack, Bytes, Load, Truncated, BYTE
  <2>4. CASE w = 4
    <3>1. new[at(0)] = b0 /\ new[at(1)] = b1 /\ new[at(2)] = b2 /\ new[at(3)] = b3
      BY <2>1, <2>2, <2>4, SMT DEF Bytes
    <3> QED
      BY <1>1, <1>4, <2>2, <2>4, <3>1, SMT DEF ReadsBack, Bytes, Load, Truncated, BYTE
  <2> QED
    BY <1>1, <2>3, <2>4
<1> QED
  BY <1>3, <1>4

\* The layout of the segment that there is.
THEOREM LayoutIsSound == Spec => []ObjectsAreSeparate
<1>1. LayoutOK
  <2> DEFINE mem == [a \in 0 .. 127 |-> 85]
  <2>0. PICK D : D = 0 .. 127
    OBVIOUS
  <2>1. mem \in [D -> 0 .. 255] /\ 0 .. 127 \subseteq D
    BY <2>0, SMT
  <2>2. \A v \in {0, 1, 256, 1000000} : v \in Int32
    BY SMT DEF Int32
  <2> HIDE DEF mem
  <2>3. \A id \in Object : Cells(id, irmem_type(id)) \subseteq Attached
    BY CellsSeparate, SMT
  <2>4. ASSUME NEW id \in Object, NEW other \in Object, NEW v \in Int32
        PROVE  ReadsBack(mem, id, other, v)
    BY <2>1, StoresAreSeparate, Zenon
  <2> QED
    BY <2>2, <2>3, <2>4, SMT DEF LayoutOK, ReadsBack, mem
<1>2. ObjectsAreSeparate
  BY <1>1 DEF ObjectsAreSeparate
<1> QED
  BY <1>2, PTL
=============================================================================
