-------------------------- MODULE AlarmCycleProofs --------------------------
(* The semaphore keeps main(), the interrupt thread and every iralarmctl out *)
(* of each other's way, and what they do together is the main loop of        *)
(* AlarmLoop: for all thresholds, counter widths and numbers of iralarmctls. *)
EXTENDS AlarmCycle, FiniteSetTheorems, TLAPS

\* Who is between a semop of -1 and the semop of +1.
MainIn   == mpc \in {"body", "reset"}
IsrIn    == ipc \in {"store", "post"}
CtlIn(k) == kpc[k] \in {"shell_unlock", "set_unlock", "kill", "unlock"}

CycleTypes ==
  /\ mpc \in MainPC
  /\ ipc \in {"idle", "lock", "store", "post"}
  /\ kpc \in [Ctl -> CtlPC]
  /\ conf \in Conf /\ sh \in Conf

\* The semaphore is 1 when nobody is in, and 0 when exactly one is.
MutexInv ==
  /\ sem \in {0, 1}
  /\ sem = 1 <=> ~MainIn /\ ~IsrIn /\ \A k \in Ctl : ~CtlIn(k)
  /\ ~(MainIn /\ IsrIn)
  /\ \A k \in Ctl : CtlIn(k) => ~MainIn /\ ~IsrIn /\ \A j \in Ctl : CtlIn(j) => j = k

\* What the interrupt thread has loaded is still the counter's value.
FlankInv == ipc = "store" => ireg = ir_recvd /\ ir_recvd < MaxFlanks

CycleInv == CycleTypes /\ MutexInv /\ FlankInv

-----------------------------------------------------------------------------
LEMMA InitCycleInv == CycleInit => CycleInv
<1> SUFFICES ASSUME CycleInit PROVE CycleInv
  OBVIOUS
<1>1. CycleTypes
  BY LoopAssumption DEF CycleInit, Init, CycleTypes, MainPC, CtlPC
<1>2. MutexInv /\ FlankInv
  BY DEF CycleInit, MutexInv, FlankInv, MainIn, IsrIn, CtlIn
<1> QED
  BY <1>1, <1>2 DEF CycleInv

(* main().                                                                 *)
LEMMA MainCycleInv ==
  ASSUME CycleInv, Main PROVE CycleInv'
<1> USE DEF CycleInv, CycleTypes, MutexInv, FlankInv, MainIn, IsrIn, CtlIn,
            MainPC, MGoto, ctlVars
<1>1. CASE MainWake
  BY <1>1 DEF MainWake
<1>2. CASE MainLock
  BY <1>2 DEF MainLock, SemWait
<1>3. CASE MainBody
  BY <1>3 DEF MainBody
<1>4. CASE MainReset
  BY <1>4 DEF MainReset, SemPost
<1>5. CASE HandlerEnter
  BY <1>5 DEF HandlerEnter
<1>6. ASSUME NEW f \in Field, NEW from, NEW to \in {"h_minalarm", "h_rstalarm", "sleep"},
             ReadField(f, from, to), from \in {"h_minrecvd", "h_minalarm", "h_rstalarm"}
      PROVE  CycleInv'
  <2>1. conf' \in Conf
    BY <1>6, CycleAssumption DEF ReadField
  <2> QED
    BY <1>6, <2>1 DEF ReadField
<1>7. CASE Handler
  BY <1>5, <1>6, <1>7 DEF Handler, Field
<1> QED
  BY <1>1, <1>2, <1>3, <1>4, <1>7 DEF Main

(* The interrupt thread and the clock.                                     *)
LEMMA InterruptCycleInv ==
  ASSUME CycleInv, Interrupt \/ ClockTick PROVE CycleInv'
<1> USE DEF CycleInv, CycleTypes, MutexInv, FlankInv, MainIn, IsrIn, CtlIn, ctlVars
<1>1. CASE FlankEdge
  BY <1>1 DEF FlankEdge
<1>2. CASE FlankLoad
  BY <1>2 DEF FlankLoad, SemWait
<1>3. CASE FlankStore
  BY <1>3 DEF FlankStore
<1>4. CASE FlankPost
  BY <1>4 DEF FlankPost, SemPost
<1>5. CASE ClockTick
  BY <1>5 DEF ClockTick, Tick, ClockStep, clockVars
<1> QED
  BY <1>1, <1>2, <1>3, <1>4, <1>5 DEF Interrupt

(* iralarmctl.                                                             *)
LEMMA CtlCycleInv ==
  ASSUME CycleInv, NEW k \in Ctl, CtlStep(k) \/ CtlUser(k) PROVE CycleInv'
<1> USE DEF CycleInv, CycleTypes, MutexInv, FlankInv, MainIn, IsrIn, CtlIn,
            CtlPC, KGoto, daemonVars
<1>1. CASE CtlStart(k, "set") \/ CtlStart(k, "shell") \/ CtlShellEnd(k)
  BY <1>1 DEF CtlStart, CtlShellEnd
<1>2. CASE CtlGet(k) \/ CtlHupLock(k)
  BY <1>2 DEF CtlGet, CtlHupLock, SemWait
<1>3. CASE CtlSet(k, "set", "set_unlock") \/ CtlSet(k, "shell", "shell_unlock")
  <2>1. sh' \in Conf
    BY <1>3, CycleAssumption DEF CtlSet
  <2> QED
    BY <1>3, <2>1 DEF CtlSet, SemWait
<1>4. CASE CtlShellUnlock(k) \/ CtlSetUnlock(k) \/ CtlUnlock(k)
  BY <1>4 DEF CtlShellUnlock, CtlSetUnlock, CtlUnlock, SemPost
\* The process that is signalled is not in, because the sender is.
<1>5. CASE CtlKill(k)
  BY <1>5 DEF CtlKill
<1> QED
  BY <1>1, <1>2, <1>3, <1>4, <1>5 DEF CtlStep, CtlUser

LEMMA NextCycleInv == CycleInv /\ [CycleNext]_cycleVars => CycleInv'
<1> SUFFICES ASSUME CycleInv, [CycleNext]_cycleVars PROVE CycleInv'
  OBVIOUS
<1>1. CASE UNCHANGED cycleVars
  BY <1>1 DEF cycleVars, ctlVars, CycleInv, CycleTypes, MutexInv, FlankInv,
              MainIn, IsrIn, CtlIn
<1> QED
  BY <1>1, MainCycleInv, InterruptCycleInv, CtlCycleInv DEF CycleNext

LEMMA CycleSafety == CycleSpec => []CycleInv
  BY InitCycleInv, NextCycleInv, PTL DEF CycleSpec

-----------------------------------------------------------------------------
LEMMA MutexCounts == MutexInv => SemIsConserved
<1> SUFFICES ASSUME MutexInv PROVE SemIsConserved
  OBVIOUS
<1>1. CASE sem = 1
  <2>1. Holders = {}
    BY <1>1 DEF MutexInv, Holders, MainIn, IsrIn, CtlIn
  <2> QED
    BY <1>1, <2>1, FS_EmptySet DEF SemIsConserved
<1>2. CASE sem = 0
  <2>1. \E p : Holders = {p}
    <3>1. CASE MainIn
      <4>1. Holders = {Daemon}
        BY <3>1 DEF MutexInv, Holders, MainIn, IsrIn, CtlIn
      <4> QED
        BY <4>1
    <3>2. CASE IsrIn
      <4>1. Holders = {"isr"}
        BY <3>2 DEF MutexInv, Holders, MainIn, IsrIn, CtlIn
      <4> QED
        BY <4>1
    <3>3. ASSUME NEW k \in Ctl, CtlIn(k) PROVE \E p : Holders = {p}
      <4>1. Holders = {k}
        BY <3>3 DEF MutexInv, Holders, MainIn, IsrIn, CtlIn
      <4> QED
        BY <4>1
    <3>4. MainIn \/ IsrIn \/ \E k \in Ctl : CtlIn(k)
      <4>1. sem # 1
        BY <1>2
      <4> QED
        BY <4>1, Zenon DEF MutexInv
    <3> QED
      BY <3>1, <3>2, <3>3, <3>4, Zenon
  <2> QED
    BY <1>2, <2>1, FS_Singleton DEF SemIsConserved
<1> QED
  BY <1>1, <1>2 DEF MutexInv

\* semop in main(), ir_flank and iralarmctl: one of them at a time is between
\* its two semops, and no token is lost when iralarmctl signals another one.
THEOREM SemaphoreIsMutex == CycleSpec => []SemIsConserved
<1>1. CycleInv => SemIsConserved
  BY MutexCounts DEF CycleInv
<1> QED
  BY <1>1, CycleSafety, PTL

-----------------------------------------------------------------------------
(* The daemon implements AlarmLoop.                                        *)
LEMMA AbsInit == CycleInit => Abs!Init
  BY DEF CycleInit, Init, Abs!Init

\* Outside of the end of a cycle the mapped state is the state itself.
LEMMA AbsBody ==
  ASSUME MainBody PROVE Abs!Cycle
<1>1. mpc = "body" /\ mpc' = "reset"
  BY DEF MainBody, MGoto
<1>2. /\ Abs!Quiet = Quiet
      /\ Abs!AlrmCycls = AlrmCycls
      /\ Abs!RecvdCycls = RecvdCycls
  BY <1>1 DEF Abs!Quiet, Quiet, Abs!AlrmCycls, AlrmCycls, Abs!RecvdCycls, RecvdCycls,
              Abs!Inc, Inc
<1>3. Abs!Raise \/ Abs!Escalate \/ Abs!Clear \/ Abs!Stay
  BY <1>2 DEF MainBody, Raise, Abs!Raise, Escalate, Abs!Escalate, Clear, Abs!Clear,
              Stay, Abs!Stay, NoCase, Abs!NoCase
<1>4. Abs!Record
  BY <1>2 DEF MainBody, Record, Abs!Record, Upto, Abs!Upto
<1> QED
  BY <1>1, <1>3, <1>4 DEF MainBody, Abs!Cycle

LEMMA AbsNext == CycleInv /\ [CycleNext]_cycleVars => [Abs!Next]_(Abs!vars)
<1> SUFFICES ASSUME CycleInv, [CycleNext]_cycleVars
             PROVE  Abs!Next \/ UNCHANGED Abs!vars
  OBVIOUS
<1> USE DEF Abs!vars, loopVars, privVars
<1>1. CASE MainWake \/ MainLock \/ HandlerEnter
  BY <1>1 DEF MainWake, MainLock, HandlerEnter, MGoto
<1>2. CASE MainBody
  BY <1>2, AbsBody DEF Abs!Next
<1>3. CASE MainReset
  BY <1>3 DEF MainReset, MGoto
<1>4. ASSUME NEW f \in Field, NEW from, NEW to, ReadField(f, from, to),
             from # "reset", to # "reset"
      PROVE  Abs!Reload
  BY <1>4, CycleAssumption DEF ReadField, MGoto, CycleInv, CycleTypes, Abs!Reload
<1>5. CASE Handler
  BY <1>1, <1>4, <1>5 DEF Handler, Field, Abs!Next
<1>6. CASE FlankEdge \/ FlankLoad \/ FlankPost
  BY <1>6 DEF FlankEdge, FlankLoad, FlankPost
<1>7. CASE FlankStore
  <2>1. mpc # "reset" /\ mpc' = mpc
    BY <1>7 DEF FlankStore, CycleInv, MutexInv, MainIn, IsrIn
  <2>2. Abs!Flank
    BY <1>7, <2>1 DEF FlankStore, CycleInv, FlankInv, Abs!Flank, Abs!Inc, Inc
  <2> QED
    BY <2>2 DEF Abs!Next
<1>8. CASE ClockTick
  BY <1>8 DEF ClockTick, Tick, ClockStep, clockVars, Abs!Tick, Abs!ClockStep,
              Abs!clockVars, Abs!Next
\* do_set on SHM_ALARM is the step of AlarmLoop that overwrites s_astate.
<1>9. ASSUME NEW k \in Ctl, CtlStep(k) \/ CtlUser(k)
      PROVE  Abs!Next \/ UNCHANGED Abs!vars
  <2>1. ASSUME NEW from, NEW to, CtlSet(k, from, to)
        PROVE  Abs!Overwrite \/ UNCHANGED Abs!vars
    BY <2>1 DEF CtlSet, Abs!Overwrite
  <2>2. CASE ~ \E from, to : CtlSet(k, from, to)
    BY <1>9, <2>2 DEF CtlStep, CtlUser, CtlStart, CtlGet, CtlShellUnlock, CtlShellEnd,
                      CtlSetUnlock, CtlHupLock, CtlKill, CtlUnlock, daemonVars
  <2> QED
    BY <2>1, <2>2 DEF Abs!Next
<1>10. CASE UNCHANGED cycleVars
  BY <1>10 DEF cycleVars
<1> QED
  BY <1>1, <1>2, <1>3, <1>5, <1>6, <1>7, <1>8, <1>9, <1>10
  DEF CycleNext, Main, Interrupt

\* The daemon with its interrupt thread, its SIGHUP handler and any number of
\* iralarmctls does what AlarmLoop says: no flank is lost, and every cycle
\* decides by the thresholds it finds.
THEOREM CycleImplementsLoop == CycleSpec => ImplementsAlarmLoop
  BY AbsInit, AbsNext, CycleSafety, PTL DEF CycleSpec, ImplementsAlarmLoop, Abs!Spec

-----------------------------------------------------------------------------
(* What is proved of AlarmLoop therefore holds of the daemon.              *)
Loop == INSTANCE AlarmLoopProofs
          WITH ir_recvd <- IF mpc = "reset" THEN 0 ELSE ir_recvd

LEMMA SameLoop ==
  /\ Abs!Init <=> Loop!Init
  /\ Abs!Cycle <=> Loop!Cycle
  /\ [Abs!Next]_(Abs!vars) <=> [Loop!Next]_(Loop!vars)
<1>1. Abs!Init <=> Loop!Init
  BY DEF Abs!Init, Loop!Init
<1>2. Abs!vars = Loop!vars /\ (UNCHANGED Abs!vars <=> UNCHANGED Loop!vars)
  BY DEF Abs!vars, Loop!vars
<1>3. Abs!Cycle <=> Loop!Cycle
  BY DEF Abs!Cycle, Abs!Raise, Abs!Escalate, Abs!Clear, Abs!Stay, Abs!Record,
         Abs!Quiet, Abs!AlrmCycls, Abs!RecvdCycls, Abs!Inc, Abs!Upto,
         Abs!NoCase, Loop!NoCase, Loop!Cycle, Loop!Raise, Loop!Escalate, Loop!Clear, Loop!Stay, Loop!Record,
         Loop!Quiet, Loop!AlrmCycls, Loop!RecvdCycls, Loop!Inc, Loop!Upto
<1>4. Abs!Next <=> Loop!Next
  <2>1. /\ Abs!Flank <=> Loop!Flank
        /\ Abs!Reload <=> Loop!Reload
        /\ Abs!Overwrite <=> Loop!Overwrite
    BY DEF Abs!Flank, Abs!Reload, Abs!Overwrite, Abs!Inc, Loop!Flank, Loop!Reload,
           Loop!Overwrite, Loop!Inc
  <2>2. (Abs!Tick <=> Loop!Tick) /\ (Abs!ClockStep <=> Loop!ClockStep)
    BY DEF Abs!Tick, Abs!ClockStep, Abs!clockVars, Loop!Tick, Loop!ClockStep,
           Loop!clockVars
  <2> QED
    BY <1>3, <2>1, <2>2 DEF Abs!Next, Loop!Next
<1> QED
  BY <1>1, <1>2, <1>3, <1>4

\* The switch of main(), with flanks, reloads and iralarmctl in between: an alarm
\* is raised only after more than ir_minalarm quiet cycles, cleared only after more
\* than ir_rstalarm good ones, and never published as ACTIVE where the publication
\* before was NONE.
THEOREM DaemonDecidesRight ==
  CycleSpec => Abs!NoFalseAlarm /\ Abs!NoEarlyClear /\ Abs!NoSkippedWarning
<1>1. Loop!Spec => Loop!NoFalseAlarm /\ Loop!NoEarlyClear /\ Loop!NoSkippedWarning
  BY Loop!AlarmIsJustified, Loop!ClearIsJustified, Loop!WarningIsPublished,
     LoopAssumption, PTL
<1>2. Abs!Spec => Loop!Spec
  BY SameLoop, PTL DEF Abs!Spec, Loop!Spec
<1> USE DEF Abs!vars, Loop!vars
<1>3. Loop!NoFalseAlarm => Abs!NoFalseAlarm
  <2>1. [astate = "NONE" /\ astate' # "NONE" => quiet' > conf.minalarm]_(Loop!vars)
          => [astate = "NONE" /\ astate' # "NONE" => quiet' > conf.minalarm]_(Abs!vars)
    OBVIOUS
  <2> QED
    BY <2>1, PTL DEF Abs!NoFalseAlarm, Loop!NoFalseAlarm
<1>4. Loop!NoEarlyClear => Abs!NoEarlyClear
  <2>1. [astate # "NONE" /\ astate' = "NONE"
           => beams + (IF Loop!Quiet THEN 0 ELSE 1) > conf.rstalarm]_(Loop!vars)
          => [astate # "NONE" /\ astate' = "NONE"
                => beams + (IF Abs!Quiet THEN 0 ELSE 1) > conf.rstalarm]_(Abs!vars)
    BY DEF Abs!Quiet, Loop!Quiet
  <2> QED
    BY <2>1, PTL DEF Abs!NoEarlyClear, Loop!NoEarlyClear
<1>5. Loop!NoSkippedWarning => Abs!NoSkippedWarning
  <2>1. [Loop!Cycle /\ s_astate' = "ACTIVE" => shown # "NONE"]_(Loop!vars)
          => [Abs!Cycle /\ s_astate' = "ACTIVE" => shown # "NONE"]_(Abs!vars)
    BY SameLoop
  <2> QED
    BY <2>1, PTL DEF Abs!NoSkippedWarning, Loop!NoSkippedWarning
<1> QED
  BY <1>1, <1>2, <1>3, <1>4, <1>5, CycleImplementsLoop, PTL DEF ImplementsAlarmLoop
=============================================================================
