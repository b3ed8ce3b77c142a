-------------------------- MODULE AlarmOutputProofs --------------------------
(* The thread pool, for any number of slots, clients, callbacks and data     *)
(* values, with failing pthread_create and spurious wake-ups: it never       *)
(* re-initialises a slot whose worker still lives, and suspends promptly.    *)
(* And the output threads of iralarmd, one way to use the pool (DaemonPool): *)
(* nothing is driven any more when the process exits.                        *)
EXTENDS AlarmOutput, TLAPS

\* tbusy is held exactly by the client that is inside irthread_stop.
StopHoldsPool ==
  \A c \in Client : (cpc[c] \in StopEarly \cup StopLate) <=> (tbusy = c)

\* A running call is about a slot its client owns.
CallOwnsSlot == \A c \in Client : cpc[c] # "idle" => cid[c] \in own[c]

\* Two clients never own the same slot.
IdsAreExclusive == \A c, e \in Client : c # e => own[c] \cap own[e] = {}

\* Whoever has a worker is owned by a client.
LiveIsOwned == \A s \in Slot : wpc[s] # "none" => \E c \in Client : s \in own[c]

\* The client c has already cleared used for s but has not joined it.
Stopping(c, s) == cpc[c] \in StopLate /\ cid[c] = s

\* An owned slot has used set, in the byte and in every copy of the byte that
\* is still going to be stored.
OwnedIsUsed ==
  \A c \in Client : \A s \in own[c] : Stopping(c, s) \/ flags[s].used = TRUE

WorkerCopyIsUsed ==
  \A c \in Client : \A s \in own[c] :
    wpc[s] = "susp_store" => Stopping(c, s) \/ wreg[s].used = TRUE

ClientCopyIsUsed ==
  \A c \in Client :
    cpc[c] \in {"susp_store", "res_store", "stop_susp_store"}
      => creg[c].used = TRUE

PoolInv ==
  /\ TypeOK
  /\ StopHoldsPool
  /\ CallOwnsSlot
  /\ IdsAreExclusive
  /\ LiveIsOwned
  /\ OwnedIsUsed
  /\ WorkerCopyIsUsed
  /\ ClientCopyIsUsed

-----------------------------------------------------------------------------
(* Type correctness.                                                       *)

\* Changing one field of a flag byte yields a flag byte.
LEMMA FlagsUpdate ==
  ASSUME NEW b \in Flags, NEW v \in BOOLEAN
  PROVE  /\ [b EXCEPT !.susp = v] \in Flags
         /\ [b EXCEPT !.used = v] \in Flags
         /\ [b EXCEPT !.actv = v] \in Flags
BY DEF Flags

\* One step of a worker keeps every variable in its type.
LEMMA WorkerTypeOK ==
  ASSUME TypeOK, NEW s \in Slot, Worker(s) \/ WorkerSpuriousWake(s)
  PROVE  TypeOK'
<1> USE DEF TypeOK, WGoto, WorkerPC, clientVars, workerVars
<1>1. CASE WorkerLoop(s)
  BY <1>1 DEF WorkerLoop
<1>2. CASE WorkerTestCancel(s)
  BY <1>2 DEF WorkerTestCancel
<1>3. CASE WorkerLock(s)
  BY <1>3 DEF WorkerLock
<1>4. CASE WorkerWait(s)
  BY <1>4 DEF WorkerWait
<1>5. CASE WorkerSpuriousWake(s)
  BY <1>5 DEF WorkerSpuriousWake
<1>6. CASE WorkerWake(s)
  BY <1>6 DEF WorkerWake
<1>7. CASE WorkerRun(s)
  BY <1>7 DEF WorkerRun
<1>8. CASE WorkerCall(s)
  BY <1>8 DEF WorkerCall
<1>9. CASE WorkerSuspendLoad(s)
  BY <1>9 DEF WorkerSuspendLoad
<1>10. CASE WorkerSuspendStore(s)
  <2>1. [wreg[s] EXCEPT !.susp = TRUE] \in Flags
    BY FlagsUpdate
  <2>2. flags' \in [Slot -> Flags]
    BY <1>10, <2>1 DEF WorkerSuspendStore
  <2>3. mtx_bsy' \in [Slot -> BOOLEAN] /\ late' \in [Slot -> -1 .. 2]
    BY <1>10 DEF WorkerSuspendStore
  <2> QED
    BY <1>10, <2>2, <2>3 DEF WorkerSuspendStore
<1> QED
  BY <1>1, <1>2, <1>3, <1>4, <1>5, <1>6, <1>7, <1>8, <1>9, <1>10 DEF Worker

\* One step of a call in progress keeps every variable in its type.
LEMMA ClientStepTypeOK ==
  ASSUME TypeOK, NEW c \in Client, ClientStep(c)
  PROVE  TypeOK'
<1> USE DEF TypeOK, CGoto, ClientPC, StopEarly, StopLate, clientVars, workerVars
<1>1. ASSUME NEW from, NEW to \in ClientPC, SuspendLoad(c, from, to)
      PROVE  TypeOK'
  BY <1>1 DEF SuspendLoad
<1>2. ASSUME NEW from, NEW to \in ClientPC, SuspendStore(c, from, to)
      PROVE  TypeOK'
  <2>1. [creg[c] EXCEPT !.susp = TRUE] \in Flags
    BY FlagsUpdate
  <2>2. flags' \in [Slot -> Flags]
    BY <1>2, <2>1 DEF SuspendStore
  <2>3. mtx_bsy' \in [Slot -> BOOLEAN] /\ late' \in [Slot -> -1 .. 2]
    BY <1>2 DEF SuspendStore
  <2> QED
    BY <1>2, <2>2, <2>3 DEF SuspendStore
<1>3. ASSUME NEW from, NEW to \in ClientPC, LoadByte(c, from, to)
      PROVE  TypeOK'
  BY <1>3 DEF LoadByte
<1>4. ASSUME NEW from, NEW to \in ClientPC, NEW byte \in Flags,
             StoreByte(c, from, to, byte)
      PROVE  TypeOK'
  BY <1>4 DEF StoreByte
<1>5. ASSUME NEW from, NEW to \in ClientPC, Signal(c, from, to)
      PROVE  TypeOK'
  BY <1>5 DEF Signal, WorkerPC
<1>6. CASE StopCancel(c)
  BY <1>6 DEF StopCancel
<1>7. CASE StopJoin(c)
  BY <1>7 DEF StopJoin, WorkerPC
<1>8. /\ [creg[c] EXCEPT !.susp = FALSE] \in Flags
      /\ [creg[c] EXCEPT !.used = FALSE] \in Flags
      /\ [creg[c] EXCEPT !.actv = FALSE] \in Flags
  BY FlagsUpdate
<1>9. CASE Suspend(c)
  BY <1>9, <1>1, <1>2 DEF Suspend
<1>10. CASE Resume(c)
  BY <1>10, <1>3, <1>4, <1>5, <1>8 DEF Resume
<1>11. CASE StopClear(c)
  BY <1>11, <1>3, <1>4, <1>8 DEF StopClear
<1>12. CASE Stop(c)
  BY <1>12, <1>1, <1>2, <1>5, <1>6, <1>7, <1>11 DEF Stop
<1> QED
  BY <1>9, <1>10, <1>12 DEF ClientStep

\* The first step of a call keeps every variable in its type.
LEMMA ClientCallTypeOK ==
  ASSUME TypeOK, NEW c \in Client, ClientCall(c)
  PROVE  TypeOK'
<1> USE PoolAssumption
    DEF TypeOK, CGoto, ClientPC, StopEarly, StopLate, clientVars, workerVars
<1>1. CASE irthread_start_full(c)
  BY <1>1 DEF irthread_start_full, vars
<1>2. ASSUME NEW s \in Slot, NEW cb \in Callback, irthread_start(c, cb, s)
      PROVE  TypeOK'
  <2>1. [actv |-> TRUE, used |-> TRUE, susp |-> FALSE] \in Flags
    BY DEF Flags
  <2>2. flags' \in [Slot -> Flags]
    BY <1>2, <2>1 DEF irthread_start
  <2>3. mtx_bsy' \in [Slot -> BOOLEAN] /\ late' \in [Slot -> -1 .. 2]
    BY <1>2 DEF irthread_start
  <2>4. canc' \in [Slot -> BOOLEAN]
    BY <1>2, Zenon DEF irthread_start
  <2>5. wpc' \in [Slot -> WorkerPC]
    BY <1>2 DEF irthread_start, WorkerPC
  <2>6. own' = [own EXCEPT ![c] = own[c] \cup {s}] \/ own' = own
    BY <1>2, Zenon DEF irthread_start
  <2>7. own' \in [Client -> SUBSET Slot]
    <3>1. own[c] \cup {s} \in SUBSET Slot
      BY Zenon
    <3> QED
      BY <2>6, <3>1, Zenon
  <2> QED
    BY <1>2, <2>2, <2>3, <2>4, <2>5, <2>7 DEF irthread_start
<1>3. ASSUME NEW s \in Slot, NEW d \in Data, irthread_setdata(c, s, d)
      PROVE  TypeOK'
  BY <1>3 DEF irthread_setdata
<1>4. ASSUME NEW s \in Slot, irthread_suspend(c, s)
      PROVE  TypeOK'
  BY <1>4 DEF irthread_suspend
<1>5. ASSUME NEW s \in Slot, irthread_resume(c, s)
      PROVE  TypeOK'
  BY <1>5 DEF irthread_resume
<1>6. ASSUME NEW s \in Slot, irthread_stop(c, s)
      PROVE  TypeOK'
  BY <1>6 DEF irthread_stop
<1> QED
  BY <1>1, <1>2, <1>3, <1>4, <1>5, <1>6 DEF ClientCall

\* Every step keeps every variable in its type.
LEMMA NextTypeOK == TypeOK /\ [Next]_vars => TypeOK'
<1> SUFFICES ASSUME TypeOK, [Next]_vars PROVE TypeOK'
  OBVIOUS
<1>1. CASE UNCHANGED vars
  BY <1>1 DEF vars, workerVars, clientVars, TypeOK
<1> QED
  BY <1>1, WorkerTypeOK, ClientStepTypeOK, ClientCallTypeOK DEF Next

\* The initial state has the right types.
LEMMA InitTypeOK == Init => TypeOK
<1> SUFFICES ASSUME Init PROVE TypeOK
  OBVIOUS
<1>1. Free \in Flags
  BY DEF Free, Flags
<1>2. 0 \in Slot
  BY PoolAssumption DEF Slot
<1> QED
  BY <1>1, <1>2, PoolAssumption
  DEF Init, TypeOK, WorkerPC, ClientPC

\* Every variable of the pool keeps its type.
THEOREM PoolTypeCorrect == Spec => []TypeOK
BY InitTypeOK, NextTypeOK, PTL DEF Spec

-----------------------------------------------------------------------------
(* The invariant of the pool.                                              *)

\* A worker step that only moves the worker, not to the store of a copy.
LEMMA QuietWorkerStep ==
  ASSUME PoolInv, TypeOK', NEW s \in Slot, NEW pc,
         wpc[s] # "none", pc # "susp_store",
         wpc' = [wpc EXCEPT ![s] = pc],
         UNCHANGED <<flags, tbusy, wreg, clientVars>>
  PROVE  PoolInv'
<1> USE DEF PoolInv, TypeOK, clientVars
<1>1. StopHoldsPool' /\ CallOwnsSlot' /\ IdsAreExclusive'
  BY DEF StopHoldsPool, CallOwnsSlot, IdsAreExclusive
<1>2. LiveIsOwned'
  BY DEF LiveIsOwned
<1>3. OwnedIsUsed' /\ WorkerCopyIsUsed' /\ ClientCopyIsUsed'
  BY DEF OwnedIsUsed, WorkerCopyIsUsed, ClientCopyIsUsed, Stopping
<1> QED
  BY <1>1, <1>2, <1>3

\* Every worker step keeps the invariant.
LEMMA WorkerPoolInv ==
  ASSUME PoolInv, NEW s \in Slot, Worker(s) \/ WorkerSpuriousWake(s)
  PROVE  PoolInv'
<1>1. TypeOK'
  BY WorkerTypeOK DEF PoolInv
<1>2. CASE WorkerLoop(s)
  BY <1>1, <1>2, QuietWorkerStep DEF WorkerLoop, WGoto
<1>3. CASE WorkerTestCancel(s)
  BY <1>1, <1>3, QuietWorkerStep DEF WorkerTestCancel, WGoto
<1>4. CASE WorkerLock(s)
  BY <1>1, <1>4, QuietWorkerStep DEF WorkerLock, WGoto
<1>5. CASE WorkerWait(s)
  BY <1>1, <1>5, QuietWorkerStep DEF WorkerWait, WGoto
<1>6. CASE WorkerSpuriousWake(s)
  BY <1>1, <1>6, QuietWorkerStep DEF WorkerSpuriousWake, WGoto
<1>7. CASE WorkerWake(s)
  BY <1>1, <1>7, QuietWorkerStep DEF WorkerWake, WGoto
<1>8. CASE WorkerRun(s)
  BY <1>1, <1>8, QuietWorkerStep DEF WorkerRun, WGoto
<1>9. CASE WorkerCall(s)
  BY <1>1, <1>9, QuietWorkerStep DEF WorkerCall, WGoto
<1>10. CASE WorkerSuspendLoad(s)
  <2> USE <1>1, <1>10 DEF WorkerSuspendLoad, WGoto, clientVars, PoolInv, TypeOK
  <2>1. StopHoldsPool' /\ CallOwnsSlot' /\ IdsAreExclusive'
    BY DEF StopHoldsPool, CallOwnsSlot, IdsAreExclusive
  <2>2. LiveIsOwned'
    BY DEF LiveIsOwned
  <2>3. OwnedIsUsed' /\ ClientCopyIsUsed'
    BY DEF OwnedIsUsed, ClientCopyIsUsed, Stopping
  <2>4. WorkerCopyIsUsed'
    BY DEF WorkerCopyIsUsed, OwnedIsUsed, Stopping
  <2> QED
    BY <2>1, <2>2, <2>3, <2>4
<1>11. CASE WorkerSuspendStore(s)
  <2> USE <1>1, <1>11 DEF WorkerSuspendStore, WGoto, clientVars, PoolInv, TypeOK
  <2>1. StopHoldsPool' /\ CallOwnsSlot' /\ IdsAreExclusive'
    BY DEF StopHoldsPool, CallOwnsSlot, IdsAreExclusive
  <2>2. LiveIsOwned'
    BY DEF LiveIsOwned
  <2>3. [wreg[s] EXCEPT !.susp = TRUE].used = wreg[s].used
    BY DEF Flags
  <2>4. OwnedIsUsed'
    BY <2>3 DEF OwnedIsUsed, WorkerCopyIsUsed, Stopping
  <2>5. WorkerCopyIsUsed' /\ ClientCopyIsUsed'
    BY DEF WorkerCopyIsUsed, ClientCopyIsUsed, Stopping
  <2> QED
    BY <2>1, <2>2, <2>4, <2>5
<1> QED
  BY <1>2, <1>3, <1>4, <1>5, <1>6, <1>7, <1>8, <1>9, <1>10, <1>11 DEF Worker

\* Every step of a call in progress keeps the invariant.
LEMMA ClientStepPoolInv ==
  ASSUME PoolInv, NEW c \in Client, ClientStep(c)
  PROVE  PoolInv'
<1>1. TypeOK'
  BY ClientStepTypeOK DEF PoolInv
<1>2. NoOne \notin Client
  BY PoolAssumption
<1> USE <1>1, <1>2
    DEF PoolInv, TypeOK, CGoto, StopEarly, StopLate, workerVars
\* A move inside one part of a call, with nothing else but creg changed.
<1>3. ASSUME NEW from, NEW to, SuspendLoad(c, from, to),
             \/ from = "susp_load" /\ to = "susp_store"
             \/ from = "stop_susp_load" /\ to = "stop_susp_store"
      PROVE  PoolInv'
  <2> USE <1>3 DEF SuspendLoad
  <2>1. StopHoldsPool' /\ CallOwnsSlot' /\ IdsAreExclusive' /\ LiveIsOwned'
    BY DEF StopHoldsPool, CallOwnsSlot, IdsAreExclusive, LiveIsOwned
  <2>2. OwnedIsUsed' /\ WorkerCopyIsUsed'
    BY DEF OwnedIsUsed, WorkerCopyIsUsed, Stopping
  <2>3. ClientCopyIsUsed'
    BY DEF ClientCopyIsUsed, OwnedIsUsed, CallOwnsSlot, Stopping
  <2> QED
    BY <2>1, <2>2, <2>3
<1>4. ASSUME NEW from, NEW to, SuspendStore(c, from, to),
             \/ from = "susp_store" /\ to = "idle"
             \/ from = "stop_susp_store" /\ to = "stop_used_load"
      PROVE  PoolInv'
  <2> USE <1>4 DEF SuspendStore
  <2>1. StopHoldsPool' /\ CallOwnsSlot' /\ IdsAreExclusive' /\ LiveIsOwned'
    BY DEF StopHoldsPool, CallOwnsSlot, IdsAreExclusive, LiveIsOwned
  <2>2. [creg[c] EXCEPT !.susp = TRUE].used = TRUE
    BY DEF Flags, ClientCopyIsUsed
  <2>3. OwnedIsUsed'
    BY <2>2 DEF OwnedIsUsed, Stopping
  <2>4. WorkerCopyIsUsed' /\ ClientCopyIsUsed'
    BY DEF WorkerCopyIsUsed, ClientCopyIsUsed, Stopping
  <2> QED
    BY <2>1, <2>3, <2>4
<1>5. ASSUME NEW from, NEW to, LoadByte(c, from, to),
             \/ from = "res_load" /\ to = "res_store"
             \/ from = "stop_used_load" /\ to = "stop_used_store"
             \/ from = "stop_actv_load" /\ to = "stop_actv_store"
      PROVE  PoolInv'
  <2> USE <1>5 DEF LoadByte
  <2>1. StopHoldsPool' /\ CallOwnsSlot' /\ IdsAreExclusive' /\ LiveIsOwned'
    BY DEF StopHoldsPool, CallOwnsSlot, IdsAreExclusive, LiveIsOwned
  <2>2. OwnedIsUsed' /\ WorkerCopyIsUsed'
    BY DEF OwnedIsUsed, WorkerCopyIsUsed, Stopping
  <2>3. ClientCopyIsUsed'
    BY DEF ClientCopyIsUsed, OwnedIsUsed, CallOwnsSlot, Stopping
  <2> QED
    BY <2>1, <2>2, <2>3
<1>6. CASE StoreByte(c, "res_store", "res_signal",
                     [creg[c] EXCEPT !.susp = FALSE])
  <2> USE <1>6 DEF StoreByte
  <2>1. StopHoldsPool' /\ CallOwnsSlot' /\ IdsAreExclusive' /\ LiveIsOwned'
    BY DEF StopHoldsPool, CallOwnsSlot, IdsAreExclusive, LiveIsOwned
  <2>2. [creg[c] EXCEPT !.susp = FALSE].used = TRUE
    BY DEF Flags, ClientCopyIsUsed
  <2>3. OwnedIsUsed'
    BY <2>2 DEF OwnedIsUsed, Stopping
  <2>4. WorkerCopyIsUsed' /\ ClientCopyIsUsed'
    BY DEF WorkerCopyIsUsed, ClientCopyIsUsed, Stopping
  <2> QED
    BY <2>1, <2>3, <2>4
\* irthread_stop clears used and actv: from now on the slot is Stopping.
<1>7. ASSUME NEW from, NEW to, NEW byte, StoreByte(c, from, to, byte),
             \/ from = "stop_used_store" /\ to = "stop_actv_load"
             \/ from = "stop_actv_store" /\ to = "stop_signal"
      PROVE  PoolInv'
  <2> USE <1>7 DEF StoreByte
  <2>1. StopHoldsPool' /\ CallOwnsSlot' /\ IdsAreExclusive' /\ LiveIsOwned'
    BY DEF StopHoldsPool, CallOwnsSlot, IdsAreExclusive, LiveIsOwned
  <2>2. OwnedIsUsed'
    BY DEF OwnedIsUsed, Stopping, IdsAreExclusive, CallOwnsSlot
  <2>3. WorkerCopyIsUsed' /\ ClientCopyIsUsed'
    BY DEF WorkerCopyIsUsed, ClientCopyIsUsed, Stopping
  <2> QED
    BY <2>1, <2>2, <2>3
<1>8. ASSUME NEW from, NEW to, Signal(c, from, to),
             \/ from = "res_signal" /\ to = "idle"
             \/ from = "stop_signal" /\ to = "stop_cancel"
      PROVE  PoolInv'
  <2> USE <1>8 DEF Signal
  <2>1. StopHoldsPool' /\ CallOwnsSlot' /\ IdsAreExclusive'
    BY DEF StopHoldsPool, CallOwnsSlot, IdsAreExclusive
  <2>2. LiveIsOwned'
    BY DEF LiveIsOwned
  <2>3. OwnedIsUsed' /\ WorkerCopyIsUsed' /\ ClientCopyIsUsed'
    BY DEF OwnedIsUsed, WorkerCopyIsUsed, ClientCopyIsUsed, Stopping
  <2> QED
    BY <2>1, <2>2, <2>3
<1>9. CASE StopCancel(c)
  <2> USE <1>9 DEF StopCancel
  <2>1. StopHoldsPool' /\ CallOwnsSlot' /\ IdsAreExclusive' /\ LiveIsOwned'
    BY DEF StopHoldsPool, CallOwnsSlot, IdsAreExclusive, LiveIsOwned
  <2>2. OwnedIsUsed' /\ WorkerCopyIsUsed' /\ ClientCopyIsUsed'
    BY DEF OwnedIsUsed, WorkerCopyIsUsed, ClientCopyIsUsed, Stopping
  <2> QED
    BY <2>1, <2>2
\* The worker is joined and its slot leaves own in the same step.
<1>10. CASE StopJoin(c)
  <2> USE <1>10 DEF StopJoin
  <2>1. StopHoldsPool' /\ CallOwnsSlot' /\ IdsAreExclusive'
    BY DEF StopHoldsPool, CallOwnsSlot, IdsAreExclusive
  <2>2. LiveIsOwned'
    BY DEF LiveIsOwned
  <2>3. OwnedIsUsed' /\ WorkerCopyIsUsed' /\ ClientCopyIsUsed'
    BY DEF OwnedIsUsed, WorkerCopyIsUsed, ClientCopyIsUsed, Stopping
  <2> QED
    BY <2>1, <2>2, <2>3
<1>11. CASE Suspend(c)
  BY <1>11, <1>3, <1>4 DEF Suspend
<1>12. CASE Resume(c)
  BY <1>12, <1>5, <1>6, <1>8 DEF Resume
<1>13. CASE StopClear(c)
  BY <1>13, <1>5, <1>7 DEF StopClear
<1>14. CASE Stop(c)
  BY <1>14, <1>3, <1>4, <1>8, <1>9, <1>10, <1>13 DEF Stop
<1> QED
  BY <1>11, <1>12, <1>14 DEF ClientStep

\* irthread_start takes a slot that nobody owns.
LEMMA FreeIsUnowned ==
  ASSUME PoolInv, tbusy = NoOne, NEW s \in Slot, ~flags[s].used,
         NEW c \in Client
  PROVE  s \notin own[c]
<1>1. cpc[c] \notin StopLate
  BY PoolAssumption DEF PoolInv, StopHoldsPool
<1> QED
  BY <1>1 DEF PoolInv, OwnedIsUsed, Stopping

\* The first step of a call keeps the invariant.
LEMMA ClientCallPoolInv ==
  ASSUME PoolInv, NEW c \in Client, ClientCall(c)
  PROVE  PoolInv'
<1>1. TypeOK'
  BY ClientCallTypeOK DEF PoolInv
<1>2. NoOne \notin Client
  BY PoolAssumption
<1> USE <1>1, <1>2
    DEF PoolInv, TypeOK, CGoto, StopEarly, StopLate, workerVars, clientVars
<1>3. CASE irthread_start_full(c)
  BY <1>3 DEF irthread_start_full, vars, StopHoldsPool, CallOwnsSlot,
     IdsAreExclusive, LiveIsOwned, OwnedIsUsed, WorkerCopyIsUsed,
     ClientCopyIsUsed, Stopping
<1>4. ASSUME NEW s \in Slot, NEW cb \in Callback, irthread_start(c, cb, s)
      PROVE  PoolInv'
  <2>1. \A e \in Client : s \notin own[e]
    BY <1>4, FreeIsUnowned DEF irthread_start, IsFirstFree, FreeSlots
  <2>2. flags' = [flags EXCEPT ![s] = flags'[s]] /\ flags'[s].used = TRUE
    BY <1>4 DEF irthread_start
  <2>3. UNCHANGED <<tbusy, wreg, cpc, cid, creg>>
    BY <1>4 DEF irthread_start
  <2>4. \/ /\ wpc' = [wpc EXCEPT ![s] = "loop"]
           /\ own' = [own EXCEPT ![c] = own[c] \cup {s}]
        \/ wpc' = wpc /\ own' = own
    BY <1>4, Zenon DEF irthread_start
  <2> HIDE <1>4
  <2> USE <2>1, <2>2, <2>3, <2>4
  <2>5. StopHoldsPool' /\ CallOwnsSlot'
    BY DEF StopHoldsPool, CallOwnsSlot
  <2>6. IdsAreExclusive'
    BY DEF IdsAreExclusive
  <2>7. LiveIsOwned'
    BY DEF LiveIsOwned
  <2>8. OwnedIsUsed'
    <3>1. SUFFICES ASSUME NEW e \in Client, NEW t \in own'[e]
                   PROVE  Stopping(e, t)' \/ flags'[t].used = TRUE
      BY DEF OwnedIsUsed
    <3>2. CASE t = s
      BY <3>2
    <3>3. CASE t # s
      <4>1. t \in own[e] /\ t \in Slot
        BY <3>3
      <4>2. flags'[t] = flags[t]
        BY <3>3, <4>1
      <4>3. Stopping(e, t) \/ flags[t].used = TRUE
        BY <4>1 DEF OwnedIsUsed
      <4> QED
        BY <4>2, <4>3 DEF Stopping
    <3> QED
      BY <3>2, <3>3
  <2>9. WorkerCopyIsUsed' /\ ClientCopyIsUsed'
    BY DEF WorkerCopyIsUsed, ClientCopyIsUsed, Stopping
  <2> QED
    BY <2>5, <2>6, <2>7, <2>8, <2>9
<1>5. ASSUME NEW s \in Slot, NEW d \in Data, irthread_setdata(c, s, d)
      PROVE  PoolInv'
  BY <1>5 DEF irthread_setdata, StopHoldsPool, CallOwnsSlot,
     IdsAreExclusive, LiveIsOwned, OwnedIsUsed, WorkerCopyIsUsed,
     ClientCopyIsUsed, Stopping
\* irthread_suspend and irthread_resume only move the client.
<1>6. ASSUME NEW s \in Slot, irthread_suspend(c, s) \/ irthread_resume(c, s)
      PROVE  PoolInv'
  <2> USE <1>6 DEF irthread_suspend, irthread_resume
  <2>1. StopHoldsPool' /\ CallOwnsSlot'
    BY DEF StopHoldsPool, CallOwnsSlot
  <2>2. IdsAreExclusive' /\ LiveIsOwned'
    BY DEF IdsAreExclusive, LiveIsOwned
  <2>3. OwnedIsUsed' /\ WorkerCopyIsUsed' /\ ClientCopyIsUsed'
    BY DEF OwnedIsUsed, WorkerCopyIsUsed, ClientCopyIsUsed, Stopping
  <2> QED
    BY <2>1, <2>2, <2>3
\* irthread_stop also takes tbusy.
<1>7. ASSUME NEW s \in Slot, irthread_stop(c, s)
      PROVE  PoolInv'
  <2> USE <1>7 DEF irthread_stop
  <2>1. StopHoldsPool' /\ CallOwnsSlot'
    BY DEF StopHoldsPool, CallOwnsSlot
  <2>2. IdsAreExclusive' /\ LiveIsOwned'
    BY DEF IdsAreExclusive, LiveIsOwned
  <2>3. OwnedIsUsed' /\ WorkerCopyIsUsed' /\ ClientCopyIsUsed'
    BY DEF OwnedIsUsed, WorkerCopyIsUsed, ClientCopyIsUsed, Stopping
  <2> QED
    BY <2>1, <2>2, <2>3
<1> QED
  BY <1>3, <1>4, <1>5, <1>6, <1>7 DEF ClientCall

\* The invariant holds initially.
LEMMA InitPoolInv == Init => PoolInv
<1> SUFFICES ASSUME Init PROVE PoolInv
  OBVIOUS
<1>1. TypeOK
  BY InitTypeOK
<1> QED
  BY <1>1, PoolAssumption
  DEF Init, PoolInv, StopHoldsPool, CallOwnsSlot, IdsAreExclusive,
      LiveIsOwned, OwnedIsUsed, WorkerCopyIsUsed, ClientCopyIsUsed,
      Stopping, StopEarly, StopLate

\* Every step keeps the invariant.
LEMMA NextPoolInv == PoolInv /\ [Next]_vars => PoolInv'
<1> SUFFICES ASSUME PoolInv, [Next]_vars PROVE PoolInv'
  OBVIOUS
<1>1. CASE UNCHANGED vars
  BY <1>1 DEF vars, workerVars, clientVars, PoolInv, TypeOK, StopHoldsPool,
     CallOwnsSlot, IdsAreExclusive, LiveIsOwned, OwnedIsUsed,
     WorkerCopyIsUsed, ClientCopyIsUsed, Stopping
<1> QED
  BY <1>1, WorkerPoolInv, ClientStepPoolInv, ClientCallPoolInv DEF Next

\* The invariant gives what irthread_start relies on.
LEMMA PoolInvImplies == PoolInv => FreeSlotHasNoWorker
<1> SUFFICES ASSUME PoolInv, tbusy = NoOne, NEW s \in Slot, ~flags[s].used
             PROVE  wpc[s] = "none"
  BY DEF FreeSlotHasNoWorker
<1> QED
  BY FreeIsUnowned DEF PoolInv, LiveIsOwned

\* Whenever irthread_start may take a slot, the worker that used it before has
\* been joined, although used is cleared long before pthread_join.
THEOREM FreeSlotSafe == Spec => []FreeSlotHasNoWorker
BY InitPoolInv, NextPoolInv, PoolInvImplies, PTL DEF Spec

\* The structure of a living worker is never re-initialised.
THEOREM LiveSlotSafe == Spec => LiveSlotIsNotReused
<1> DEFINE A == \A s \in Slot : wpc[s] # "none" => tcb'[s] = tcb[s]
<1>1. PoolInv /\ [Next]_vars => [A]_vars
  <2> SUFFICES ASSUME PoolInv, Next, NEW s \in Slot, wpc[s] # "none"
               PROVE  tcb'[s] = tcb[s]
    OBVIOUS
  <2>1. CASE \E t \in Slot : Worker(t) \/ WorkerSpuriousWake(t)
    BY <2>1 DEF Worker, WorkerLoop, WorkerTestCancel, WorkerLock, WorkerWait,
       WorkerSpuriousWake, WorkerWake, WorkerRun, WorkerCall,
       WorkerSuspendLoad, WorkerSuspendStore
  <2>2. CASE \E c \in Client : ClientStep(c)
    BY <2>2 DEF ClientStep, Suspend, Resume, Stop, StopClear, SuspendLoad,
       SuspendStore, LoadByte, StoreByte, Signal, StopCancel, StopJoin
  <2>3. ASSUME NEW c \in Client, ClientCall(c) PROVE tcb'[s] = tcb[s]
    <3>1. CASE \E t \in Slot, cb \in Callback : irthread_start(c, cb, t)
      <4>1. PICK t \in Slot, cb \in Callback : irthread_start(c, cb, t)
        BY <3>1
      <4>2. wpc[t] = "none"
        BY <4>1, PoolInvImplies
        DEF irthread_start, IsFirstFree, FreeSlots, FreeSlotHasNoWorker
      <4> QED
        BY <4>1, <4>2 DEF irthread_start, PoolInv, TypeOK
    <3>2. CASE ~ \E t \in Slot, cb \in Callback : irthread_start(c, cb, t)
      BY <2>3, <3>2 DEF ClientCall, irthread_start_full, irthread_setdata,
         irthread_suspend, irthread_resume, irthread_stop, vars
    <3> QED
      BY <3>1, <3>2
  <2> QED
    BY <2>1, <2>2, <2>3 DEF Next
<1> QED
  BY <1>1, InitPoolInv, NextPoolInv, PTL DEF Spec, LiveSlotIsNotReused

-----------------------------------------------------------------------------
(* How often a callback may still begin after susp was set.                *)

Due(p) == IF p THEN 1 ELSE 0

\* The worker is past the test of susp and will begin its callback next.
WorkerDue(s) == wpc[s] \in {"wake", "run"}

\* A call has cleared susp or actv and will signal the worker's condition.
SignalDue(s) ==
  \E c \in Client : cid[c] = s /\ cpc[c] \in {"res_signal", "stop_signal"}

\* The worker may run: actv is set, or about to be set back by the store of
\* used = 0, which carries the bit from its load.
MayRun(s) ==
  \/ flags[s].actv
  \/ \E c \in Client : cid[c] = s /\ cpc[c] = "stop_used_store" /\ creg[c].actv

\* irthread_stop has susp set until it has cleared actv, and stores it back
\* with used = 0.
StopSuspends ==
  \A c \in Client :
    /\ cpc[c] \in {"stop_used_load", "stop_used_store", "stop_actv_load",
                  "stop_actv_store"} => flags[cid[c]].susp
    /\ cpc[c] = "stop_used_store" => creg[c].susp

\* While susp is set, the callbacks begun and those that the worker's position
\* and a signal on its way still allow are at most one together.
Budget(s) ==
  flags[s].susp /\ MayRun(s)
    => late[s] + Due(WorkerDue(s)) + Due(SignalDue(s)) <= 1
LateBudget == \A s \in Slot : Budget(s)

LateInv == StopSuspends /\ SuspendQuiesces /\ (KeepLate => LateBudget)

\* A step that makes nothing due and sets neither flag of the slot.
LEMMA BudgetFrame ==
  ASSUME TypeOK, NEW s \in Slot, Budget(s), late'[s] = late[s],
         flags'[s].susp => flags[s].susp, MayRun(s)' => MayRun(s),
         WorkerDue(s)' => WorkerDue(s), SignalDue(s)' => SignalDue(s)
  PROVE  Budget(s)'
<1>1. late[s] \in Int
  BY DEF TypeOK
<1> QED
  BY <1>1 DEF Budget, Due

\* A step that sets susp, at a moment when at most one callback is due.
LEMMA BudgetReset ==
  ASSUME NEW s \in Slot, late'[s] = 0, ~(WorkerDue(s)' /\ SignalDue(s)')
  PROVE  Budget(s)'
BY DEF Budget, Due

\* Steps of a worker do not touch what its clients owe.
LEMMA WorkerFrame ==
  ASSUME UNCHANGED clientVars, NEW s \in Slot
  PROVE  /\ SignalDue(s)' <=> SignalDue(s)
         /\ flags'[s] = flags[s] => (MayRun(s)' <=> MayRun(s))
BY DEF SignalDue, MayRun, clientVars

\* A worker's step takes from the budget what it adds to it.
LEMMA WorkerBudget ==
  ASSUME TypeOK, KeepLate, LateBudget, NEW s \in Slot,
         Worker(s) \/ WorkerSpuriousWake(s)
  PROVE  LateBudget'
<1> USE DEF TypeOK, WGoto
<1>0. UNCHANGED clientVars
  BY DEF Worker, WorkerLoop, WorkerTestCancel, WorkerLock, WorkerWait,
         WorkerSpuriousWake, WorkerWake, WorkerRun, WorkerCall,
         WorkerSuspendLoad, WorkerSuspendStore
<1>1. ASSUME NEW t \in Slot, t # s PROVE Budget(t)'
  <2>1. flags'[t] = flags[t] /\ late'[t] = late[t] /\ wpc'[t] = wpc[t]
    BY <1>1 DEF Worker, WorkerLoop, WorkerTestCancel, WorkerLock, WorkerWait,
         WorkerSpuriousWake, WorkerWake, WorkerRun, WorkerCall,
         WorkerSuspendLoad, WorkerSuspendStore
  <2> QED
    BY <1>0, <2>1, WorkerFrame, BudgetFrame DEF LateBudget, WorkerDue
<1>2. ASSUME NEW pc, pc \notin {"wake", "run"}, wpc' = [wpc EXCEPT ![s] = pc],
             UNCHANGED <<flags, late>>
      PROVE  Budget(s)'
  <2>1. ~WorkerDue(s)'
    BY <1>2 DEF WorkerDue
  <2> QED
    BY <1>0, <1>2, <2>1, WorkerFrame, BudgetFrame DEF LateBudget
<1>3. ASSUME WorkerLoop(s) PROVE Budget(s)'
  BY <1>2, <1>3 DEF WorkerLoop
<1>4. ASSUME WorkerTestCancel(s) PROVE Budget(s)'
  BY <1>2, <1>4 DEF WorkerTestCancel
\* A worker that goes on to its callback has seen susp clear.
<1>5. ASSUME WorkerLock(s) PROVE Budget(s)'
  <2>1. CASE flags[s].susp
    BY <1>2, <1>5, <2>1 DEF WorkerLock
  <2>2. CASE ~flags[s].susp
    <3>1. ~flags'[s].susp
      BY <1>5, <2>2 DEF WorkerLock
    <3> QED
      BY <3>1 DEF Budget
  <2> QED
    BY <2>1, <2>2
<1>6. ASSUME WorkerWait(s) PROVE Budget(s)'
  BY <1>2, <1>6 DEF WorkerWait
\* A spurious wake-up pays for the callback it lets through.
<1>7. ASSUME WorkerSpuriousWake(s) PROVE Budget(s)'
  <2>1. /\ ~WorkerDue(s) /\ WorkerDue(s)' /\ flags' = flags
    BY <1>7 DEF WorkerSpuriousWake, WorkerDue
  <2>2. flags[s].susp => late'[s] = IF late[s] >= 0 THEN late[s] - 1 ELSE late[s]
    BY <1>7 DEF WorkerSpuriousWake
  <2>3. late[s] \in -1 .. 2
    OBVIOUS
  <2> QED
    BY <1>0, <2>1, <2>2, <2>3, WorkerFrame DEF LateBudget, Budget, Due
<1>8. ASSUME WorkerWake(s) PROVE Budget(s)'
  <2>1. WorkerDue(s) /\ flags' = flags /\ late' = late
    BY <1>8 DEF WorkerWake, WorkerDue
  <2> QED
    BY <1>0, <2>1, WorkerFrame, BudgetFrame DEF LateBudget
<1>9. ASSUME WorkerRun(s) PROVE Budget(s)'
  <2>1. WorkerDue(s) /\ ~WorkerDue(s)' /\ flags' = flags
    BY <1>9 DEF WorkerRun, WorkerDue
  <2>2. late'[s] <= late[s] + 1 /\ late'[s] \in Int /\ late[s] \in Int
    BY <1>9 DEF WorkerRun
  <2> QED
    BY <1>0, <2>1, <2>2, WorkerFrame DEF LateBudget, Budget, Due
<1>10. ASSUME WorkerCall(s) PROVE Budget(s)'
  BY <1>2, <1>10 DEF WorkerCall
<1>11. ASSUME WorkerSuspendLoad(s) PROVE Budget(s)'
  BY <1>2, <1>11 DEF WorkerSuspendLoad
<1>12. ASSUME WorkerSuspendStore(s) PROVE Budget(s)'
  <2>1. late'[s] = 0 /\ ~WorkerDue(s)'
    BY <1>12 DEF WorkerSuspendStore, WorkerDue
  <2> QED
    BY <2>1, BudgetReset
<1>13. Budget(s)'
  BY <1>3, <1>4, <1>5, <1>6, <1>7, <1>8, <1>9, <1>10, <1>11, <1>12 DEF Worker
<1> QED
  BY <1>1, <1>13 DEF LateBudget

\* One call at a time is about a slot.
LEMMA OnlyCall ==
  ASSUME PoolInv, NEW c \in Client, NEW e \in Client, cpc[c] # "idle",
         cpc[e] # "idle", cid[e] = cid[c]
  PROVE  e = c
BY DEF PoolInv, CallOwnsSlot, IdsAreExclusive

\* A client that moves on makes no signal due unless it goes to one.
LEMMA CallFrame ==
  ASSUME TypeOK, NEW c \in Client, NEW to, NEW t \in Slot,
         cpc' = [cpc EXCEPT ![c] = to], to \notin {"res_signal", "stop_signal"},
         \A e \in Client : e # c => cid'[e] = cid[e]
  PROVE  SignalDue(t)' => SignalDue(t)
BY DEF SignalDue, TypeOK

\* Slots that a running call is not about.
LEMMA OtherSlots ==
  ASSUME TypeOK, LateBudget, NEW c \in Client, NEW to, NEW t \in Slot, t # cid[c],
         cpc' = [cpc EXCEPT ![c] = to], cid' = cid,
         \A e \in Client : e # c => creg'[e] = creg[e],
         flags'[t] = flags[t], late'[t] = late[t], wpc'[t] = wpc[t]
  PROVE  Budget(t)'
<1>1. SignalDue(t)' => SignalDue(t)
  BY DEF SignalDue, TypeOK
<1>2. MayRun(t)' => MayRun(t)
  BY DEF MayRun, TypeOK
<1> QED
  BY <1>1, <1>2, BudgetFrame DEF LateBudget, WorkerDue

\* The slot that a running call is about, while it only moves on.
LEMMA OwnSlot ==
  ASSUME TypeOK, LateBudget, NEW c \in Client, NEW to, NEW s \in Slot, s = cid[c],
         cpc' = [cpc EXCEPT ![c] = to], cid' = cid,
         to \notin {"res_signal", "stop_signal", "stop_used_store"},
         \A e \in Client : e # c => creg'[e] = creg[e],
         UNCHANGED <<flags, late>>, wpc'[s] \in {wpc[s], "none"}
  PROVE  Budget(s)'
<1>1. SignalDue(s)' => SignalDue(s)
  BY CallFrame
<1>2. MayRun(s)' => MayRun(s)
  BY DEF MayRun, TypeOK
<1> QED
  BY <1>1, <1>2, BudgetFrame DEF LateBudget, WorkerDue

\* A step of a running call pays for the signal that it owes when it clears susp
\* or actv, and owes nothing any more when it sets susp.
LEMMA ClientBudget ==
  ASSUME PoolInv, StopSuspends, LateBudget, NEW c \in Client, ClientStep(c)
  PROVE  LateBudget'
<1>0. cid[c] \in Slot /\ cpc[c] # "idle" /\ TypeOK /\ cid' = cid
  BY DEF PoolInv, TypeOK, ClientStep, Suspend, Resume, Stop, StopClear, SuspendLoad,
         SuspendStore, LoadByte, StoreByte, Signal, StopCancel, StopJoin, CGoto,
         workerVars
<1> PICK s \in Slot : s = cid[c]
  BY <1>0
<1>1. \A e \in Client : e # c => cpc'[e] = cpc[e] /\ creg'[e] = creg[e]
  BY <1>0 DEF TypeOK, ClientStep, Suspend, Resume, Stop, StopClear, SuspendLoad,
         SuspendStore, LoadByte, StoreByte, Signal, StopCancel, StopJoin, CGoto,
         workerVars
<1>2. \A e \in Client : e # c /\ cpc[e] # "idle" => cid[e] # s
  BY <1>0, OnlyCall
<1>3. ASSUME NEW t \in Slot, t # s PROVE Budget(t)'
  <2>1. flags'[t] = flags[t] /\ late'[t] = late[t] /\ wpc'[t] = wpc[t]
    BY <1>0, <1>3 DEF TypeOK, ClientStep, Suspend, Resume, Stop, StopClear, SuspendLoad,
         SuspendStore, LoadByte, StoreByte, Signal, StopCancel, StopJoin, CGoto,
         workerVars
  <2>2. PICK to : cpc' = [cpc EXCEPT ![c] = to]
    BY DEF ClientStep, Suspend, Resume, Stop, StopClear, SuspendLoad,
         SuspendStore, LoadByte, StoreByte, Signal, StopCancel, StopJoin, CGoto
  <2> QED
    BY <1>0, <1>1, <1>3, <2>1, <2>2, OtherSlots
<1>4. ASSUME NEW from, NEW to, SuspendLoad(c, from, to),
             to \in {"susp_store", "stop_susp_store"}
      PROVE  Budget(s)'
  BY <1>0, <1>1, <1>4, OwnSlot DEF SuspendLoad, CGoto, workerVars
<1>5. ASSUME NEW from, NEW to, SuspendStore(c, from, to),
             to \in {"idle", "stop_used_load"}
      PROVE  Budget(s)'
  <2>1. late'[s] = 0 /\ cpc'[c] = to
    BY <1>0, <1>5 DEF SuspendStore, CGoto, TypeOK
  <2>2. ~SignalDue(s)'
    BY <1>0, <1>1, <1>2, <1>5, <2>1 DEF SignalDue
  <2> QED
    BY <1>0, <2>1, <2>2, BudgetReset
<1>6. ASSUME NEW from, NEW to, LoadByte(c, from, to),
             to \in {"res_store", "stop_actv_store"}
      PROVE  Budget(s)'
  BY <1>0, <1>1, <1>6, OwnSlot DEF LoadByte, CGoto, workerVars
<1>7. ASSUME LoadByte(c, "stop_used_load", "stop_used_store") PROVE Budget(s)'
  <2>1. MayRun(s)' => MayRun(s)
    BY <1>0, <1>1, <1>7 DEF LoadByte, CGoto, MayRun, TypeOK
  <2>2. SignalDue(s)' => SignalDue(s)
    BY <1>0, <1>7, CallFrame DEF LoadByte, CGoto
  <2> QED
    BY <1>0, <1>7, <2>1, <2>2, BudgetFrame
    DEF LoadByte, LateBudget, WorkerDue, workerVars
<1>8. ASSUME StoreByte(c, "res_store", "res_signal", [creg[c] EXCEPT !.susp = FALSE])
      PROVE  Budget(s)'
  <2>1. ~flags'[s].susp
    BY <1>0, <1>8 DEF StoreByte, TypeOK, Flags
  <2> QED
    BY <2>1 DEF Budget
\* The store of used = 0 stores susp and actv back as they were loaded.
<1>9. ASSUME StoreByte(c, "stop_used_store", "stop_actv_load",
                       [creg[c] EXCEPT !.used = FALSE])
      PROVE  Budget(s)'
  <2>1. cpc[c] = "stop_used_store" /\ flags'[s].actv = creg[c].actv
    BY <1>0, <1>9 DEF StoreByte, CGoto, TypeOK, Flags
  <2>2. flags[s].susp
    BY <2>1 DEF StopSuspends
  <2>3. MayRun(s)' => MayRun(s)
    BY <1>0, <1>1, <1>2, <1>9, <2>1 DEF StoreByte, CGoto, MayRun, TypeOK
  <2>4. SignalDue(s)' => SignalDue(s)
    BY <1>0, <1>9, CallFrame DEF StoreByte, CGoto
  <2> QED
    BY <1>0, <1>9, <2>2, <2>3, <2>4, BudgetFrame
    DEF StoreByte, LateBudget, WorkerDue, workerVars
\* After actv = 0 the callback cannot begin, however many wake-ups are due.
<1>10. ASSUME StoreByte(c, "stop_actv_store", "stop_signal",
                        [creg[c] EXCEPT !.actv = FALSE])
       PROVE  Budget(s)'
  <2>1. ~flags'[s].actv /\ cpc'[c] = "stop_signal"
    BY <1>0, <1>10 DEF StoreByte, CGoto, TypeOK, Flags
  <2>2. ~MayRun(s)'
    BY <1>0, <1>1, <1>2, <2>1 DEF MayRun
  <2> QED
    BY <2>2 DEF Budget
\* The signal that was due wakes the worker, or is lost.
<1>11. ASSUME NEW from, NEW to, Signal(c, from, to),
              \/ from = "res_signal" /\ to = "idle"
              \/ from = "stop_signal" /\ to = "stop_cancel"
       PROVE  Budget(s)'
  <2>1. cpc[c] = from /\ cpc'[c] = to /\ UNCHANGED <<flags, creg, late>>
    BY <1>0, <1>11 DEF Signal, CGoto, TypeOK
  <2>2. SignalDue(s)
    BY <1>11, <2>1 DEF SignalDue
  <2>3. ~SignalDue(s)'
    BY <1>0, <1>1, <1>2, <1>11, <2>1 DEF SignalDue
  <2>4. MayRun(s)' => MayRun(s)
    BY <1>0, <1>1, <1>11, <2>1 DEF MayRun
  <2>5. late[s] \in Int
    BY <1>0 DEF TypeOK
  <2> QED
    BY <1>0, <2>1, <2>2, <2>3, <2>4, <2>5 DEF LateBudget, Budget, Due
<1>12. ASSUME StopCancel(c) PROVE Budget(s)'
  BY <1>0, <1>1, <1>12, OwnSlot DEF StopCancel, CGoto
<1>13. ASSUME StopJoin(c) PROVE Budget(s)'
  <2>1. wpc'[s] = "none"
    BY <1>0, <1>13 DEF StopJoin, TypeOK
  <2> QED
    BY <1>0, <1>1, <1>13, <2>1, OwnSlot DEF StopJoin, CGoto
<1>14. Budget(s)'
  BY <1>4, <1>5, <1>6, <1>7, <1>8, <1>9, <1>10, <1>11, <1>12, <1>13
  DEF ClientStep, Suspend, Resume, Stop, StopClear
<1> QED
  BY <1>3, <1>14 DEF LateBudget

\* The first step of a call owes nothing yet; irthread_start begins with susp clear.
LEMMA CallBudget ==
  ASSUME PoolInv, LateBudget, NEW c \in Client, ClientCall(c)
  PROVE  LateBudget'
<1> USE DEF CGoto, workerVars, clientVars
<1>1. TypeOK
  BY DEF PoolInv
<1>2. ASSUME NEW s \in Slot, NEW cb \in Callback, irthread_start(c, cb, s)
      PROVE  LateBudget'
  <2>1. UNCHANGED <<cpc, cid, creg>>
    BY <1>2 DEF irthread_start
  <2>2. \A t \in Slot : SignalDue(t)' <=> SignalDue(t)
    BY <2>1 DEF SignalDue
  <2>3. ASSUME NEW t \in Slot, t # s PROVE Budget(t)'
    <3>1. flags'[t] = flags[t] /\ late'[t] = late[t] /\ wpc'[t] = wpc[t]
      BY <1>1, <1>2, <2>3 DEF irthread_start, TypeOK
    <3>2. MayRun(t)' <=> MayRun(t)
      BY <2>1, <3>1 DEF MayRun
    <3> QED
      BY <1>1, <2>2, <3>1, <3>2, BudgetFrame DEF LateBudget, WorkerDue
  <2>4. ~flags'[s].susp
    BY <1>1, <1>2 DEF irthread_start, TypeOK
  <2>5. Budget(s)'
    BY <2>4 DEF Budget
  <2> QED
    BY <2>3, <2>5 DEF LateBudget
<1>3. ASSUME UNCHANGED <<flags, late, wpc, creg>>, NEW to,
             to \notin {"res_signal", "stop_signal", "stop_used_store"},
             cpc[c] = "idle", cpc' = [cpc EXCEPT ![c] = to],
             \A e \in Client : e # c => cid'[e] = cid[e]
      PROVE  LateBudget'
  <2> SUFFICES ASSUME NEW t \in Slot PROVE Budget(t)'
    BY DEF LateBudget
  <2>1. SignalDue(t)' => SignalDue(t)
    BY <1>1, <1>3, CallFrame
  <2>2. MayRun(t)' => MayRun(t)
    BY <1>1, <1>3 DEF MayRun, TypeOK
  <2> QED
    BY <1>1, <1>3, <2>1, <2>2, BudgetFrame DEF LateBudget, WorkerDue
<1>4. CASE UNCHANGED <<flags, late, wpc, clientVars>>
  <2>1. UNCHANGED <<cpc, cid, creg>>
    BY <1>4
  <2> QED
    BY <1>4, <2>1 DEF LateBudget, Budget, MayRun, SignalDue, WorkerDue
<1>5. CASE irthread_start_full(c)
  BY <1>4, <1>5 DEF irthread_start_full, vars
<1>6. ASSUME NEW s \in Slot, NEW d \in Data, irthread_setdata(c, s, d)
      PROVE  LateBudget'
  BY <1>4, <1>6 DEF irthread_setdata
<1>7. ASSUME NEW s \in Slot,
             irthread_suspend(c, s) \/ irthread_resume(c, s) \/ irthread_stop(c, s)
      PROVE  LateBudget'
  <2>1. /\ UNCHANGED <<flags, late, wpc, creg>> /\ cpc[c] = "idle"
        /\ cid' = [cid EXCEPT ![c] = s]
    BY <1>7 DEF irthread_suspend, irthread_resume, irthread_stop
  <2>2. \A e \in Client : e # c => cid'[e] = cid[e]
    BY <1>1, <2>1 DEF TypeOK
  <2>3. PICK to \in {"idle", "susp_load", "res_load", "stop_used_load",
                    "stop_susp_load"} : cpc' = [cpc EXCEPT ![c] = to]
    BY <1>7 DEF irthread_suspend, irthread_resume, irthread_stop
  <2> QED
    BY <1>3, <2>1, <2>2, <2>3
<1> QED
  BY <1>2, <1>5, <1>6, <1>7 DEF ClientCall

\* Nobody clears susp under irthread_stop before it has cleared actv.
LEMMA NextStopSuspends ==
  ASSUME PoolInv, StopSuspends, Next
  PROVE  StopSuspends'
<1> DEFINE Held == {"stop_used_load", "stop_used_store", "stop_actv_load",
                    "stop_actv_store"}
<1> USE DEF CGoto, workerVars, clientVars
<1>1. TypeOK
  BY DEF PoolInv
<1>2. ASSUME UNCHANGED <<cpc, cid, creg>>,
             \A s \in Slot : flags[s].susp => flags'[s].susp
      PROVE  StopSuspends'
  BY <1>1, <1>2 DEF StopSuspends, TypeOK
<1>3. ASSUME NEW s \in Slot, Worker(s) \/ WorkerSpuriousWake(s)
      PROVE  StopSuspends'
  <2>1. UNCHANGED <<cpc, cid, creg>>
    BY <1>3 DEF Worker, WorkerLoop, WorkerTestCancel, WorkerLock, WorkerWait,
         WorkerSpuriousWake, WorkerWake, WorkerRun, WorkerCall,
         WorkerSuspendLoad, WorkerSuspendStore
  <2>2. CASE WorkerSuspendStore(s)
    <3>1. [wreg[s] EXCEPT !.susp = TRUE].susp
      BY <1>1 DEF TypeOK, Flags
    <3>2. \A t \in Slot : flags[t].susp => flags'[t].susp
      BY <1>1, <2>2, <3>1 DEF WorkerSuspendStore, TypeOK
    <3> QED
      BY <1>2, <2>1, <3>2
  <2>3. CASE ~WorkerSuspendStore(s)
    <3>1. flags' = flags
      BY <1>3, <2>3 DEF Worker, WorkerLoop, WorkerTestCancel, WorkerLock, WorkerWait,
         WorkerSpuriousWake, WorkerWake, WorkerRun, WorkerCall, WorkerSuspendLoad
    <3> QED
      BY <1>2, <2>1, <3>1
  <2> QED
    BY <2>2, <2>3
\* A step of the client c about its slot: the other clients are elsewhere.
<1>4. ASSUME NEW c \in Client, NEW to, cpc' = [cpc EXCEPT ![c] = to],
             \A e \in Client : e # c => cid'[e] = cid[e] /\ creg'[e] = creg[e],
             \A e \in Client : e # c /\ cpc[e] # "idle" =>
               flags'[cid[e]] = flags[cid[e]],
             to \in Held => flags'[cid'[c]].susp,
             to = "stop_used_store" => creg'[c].susp
      PROVE  StopSuspends'
  BY <1>1, <1>4 DEF StopSuspends, TypeOK
<1>5. ASSUME NEW c \in Client, ClientStep(c) PROVE StopSuspends'
  <2>0. cid[c] \in Slot /\ cpc[c] # "idle" /\ cid' = cid
    BY <1>1, <1>5 DEF TypeOK, ClientStep, Suspend, Resume, Stop, StopClear, SuspendLoad,
         SuspendStore, LoadByte, StoreByte, Signal, StopCancel, StopJoin
  <2>1. \A e \in Client : e # c => creg'[e] = creg[e]
    BY <1>1, <1>5 DEF TypeOK, ClientStep, Suspend, Resume, Stop, StopClear, SuspendLoad,
         SuspendStore, LoadByte, StoreByte, Signal, StopCancel, StopJoin
  <2>2. \A t \in Slot : t # cid[c] => flags'[t] = flags[t]
    BY <1>1, <1>5 DEF TypeOK, ClientStep, Suspend, Resume, Stop, StopClear, SuspendLoad,
         SuspendStore, LoadByte, StoreByte, Signal, StopCancel, StopJoin
  <2>3. \A e \in Client : e # c /\ cpc[e] # "idle" => flags'[cid[e]] = flags[cid[e]]
    BY <1>1, <2>0, <2>2, OnlyCall DEF TypeOK
  <2>4. ASSUME NEW to, cpc' = [cpc EXCEPT ![c] = to],
               to \in Held => flags'[cid[c]].susp,
               to = "stop_used_store" => creg'[c].susp
        PROVE  StopSuspends'
    BY <1>4, <2>0, <2>1, <2>3, <2>4
  <2>5. ASSUME NEW from, NEW to, to \notin Held,
               \/ SuspendLoad(c, from, to) \/ SuspendStore(c, from, to)
               \/ LoadByte(c, from, to) \/ Signal(c, from, to)
        PROVE  StopSuspends'
    BY <2>4, <2>5 DEF SuspendLoad, SuspendStore, LoadByte, Signal
  <2>6. ASSUME SuspendStore(c, "stop_susp_store", "stop_used_load") PROVE StopSuspends'
    <3>1. flags'[cid[c]].susp
      BY <1>1, <2>0, <2>6 DEF SuspendStore, TypeOK, Flags
    <3> QED
      BY <2>4, <2>6, <3>1 DEF SuspendStore
  <2>7. ASSUME NEW from, NEW to, from \in Held, LoadByte(c, from, to)
        PROVE  StopSuspends'
    <3>1. flags[cid[c]].susp /\ flags' = flags
      BY <2>7 DEF LoadByte, StopSuspends
    <3>2. creg'[c].susp
      BY <1>1, <2>7, <3>1 DEF LoadByte, TypeOK
    <3> QED
      BY <2>4, <2>7, <3>1, <3>2 DEF LoadByte
  <2>8. ASSUME StoreByte(c, "stop_used_store", "stop_actv_load",
                         [creg[c] EXCEPT !.used = FALSE])
        PROVE  StopSuspends'
    <3>1. creg[c].susp
      BY <2>8 DEF StoreByte, StopSuspends
    <3>2. flags'[cid[c]].susp
      BY <1>1, <2>0, <2>8, <3>1 DEF StoreByte, TypeOK, Flags
    <3> QED
      BY <2>4, <2>8, <3>2 DEF StoreByte
  <2>9. ASSUME NEW from, NEW to, NEW byte, to \in {"res_signal", "stop_signal"},
               StoreByte(c, from, to, byte)
        PROVE  StopSuspends'
    BY <2>4, <2>9 DEF StoreByte
  <2>10. ASSUME StopCancel(c) \/ StopJoin(c) PROVE StopSuspends'
    BY <2>4, <2>10 DEF StopCancel, StopJoin
  <2> QED
    BY <1>5, <2>5, <2>6, <2>7, <2>8, <2>9, <2>10
    DEF ClientStep, Suspend, Resume, Stop, StopClear
<1>6. ASSUME NEW c \in Client, ClientCall(c) PROVE StopSuspends'
  <2>1. ASSUME NEW s \in Slot, NEW cb \in Callback, irthread_start(c, cb, s)
        PROVE  StopSuspends'
    <3>1. \A e \in Client : s \notin own[e]
      BY <2>1, FreeIsUnowned DEF irthread_start, IsFirstFree, FreeSlots
    <3>2. \A e \in Client : cpc[e] # "idle" => flags'[cid[e]] = flags[cid[e]]
      BY <1>1, <2>1, <3>1 DEF PoolInv, CallOwnsSlot, irthread_start, TypeOK
    <3> QED
      BY <2>1, <3>2 DEF irthread_start, StopSuspends
  <2>2. CASE irthread_start_full(c)
    BY <1>2, <2>2 DEF irthread_start_full, vars
  <2>3. ASSUME NEW s \in Slot, NEW d \in Data, irthread_setdata(c, s, d)
        PROVE  StopSuspends'
    BY <1>2, <2>3 DEF irthread_setdata
  <2>4. ASSUME NEW s \in Slot,
               irthread_suspend(c, s) \/ irthread_resume(c, s) \/ irthread_stop(c, s)
        PROVE  StopSuspends'
    <3>1. UNCHANGED <<flags, creg>> /\ cid' = [cid EXCEPT ![c] = s]
      BY <2>4 DEF irthread_suspend, irthread_resume, irthread_stop
    <3>2. PICK to : /\ cpc' = [cpc EXCEPT ![c] = to]
                    /\ to \notin Held \/ (to = "stop_used_load" /\ flags[s].susp)
      BY <2>4 DEF irthread_suspend, irthread_resume, irthread_stop
    <3>3. \A e \in Client : e # c => cid'[e] = cid[e]
      BY <1>1, <3>1 DEF TypeOK
    <3>4. cid'[c] = s
      BY <1>1, <3>1 DEF TypeOK
    <3> QED
      BY <1>4, <3>1, <3>2, <3>3, <3>4
  <2> QED
    BY <1>6, <2>1, <2>2, <2>3, <2>4 DEF ClientCall
<1> QED
  BY <1>3, <1>5, <1>6 DEF Next

\* A callback begins under susp only while the budget allows it.
LEMMA NextQuiesces ==
  ASSUME TypeOK, SuspendQuiesces, KeepLate => LateBudget, Next
  PROVE  SuspendQuiesces'
<1> USE DEF SuspendQuiesces
<1>1. ASSUME NEW s \in Slot, WorkerRun(s) PROVE SuspendQuiesces'
  <2>1. CASE KeepLate /\ flags[s].actv /\ flags[s].susp
    <3>1. WorkerDue(s) /\ MayRun(s)
      BY <1>1, <2>1 DEF WorkerRun, WGoto, WorkerDue, MayRun
    <3>2. late[s] \in Int /\ Due(SignalDue(s)) >= 0 /\ Due(WorkerDue(s)) = 1
      BY <3>1 DEF TypeOK, Due
    <3>3. Due(SignalDue(s)) \in Int
      BY DEF Due
    <3>4. Budget(s)
      BY <2>1, Zenon DEF LateBudget
    <3>5. late[s] + Due(WorkerDue(s)) + Due(SignalDue(s)) <= 1
      BY <2>1, <3>1, <3>4, Zenon DEF Budget
    <3>6. late[s] <= 0
      BY <3>2, <3>3, <3>5
    <3>7. late'[s] \in {late[s], late[s] + 1} /\ \A t \in Slot : t # s => late'[t] = late[t]
      BY <1>1 DEF WorkerRun, TypeOK
    <3> QED
      BY <3>2, <3>6, <3>7
  <2>2. CASE ~(KeepLate /\ flags[s].actv /\ flags[s].susp)
    BY <1>1, <2>2 DEF WorkerRun, TypeOK
  <2> QED
    BY <2>1, <2>2
<1>2. ASSUME NEW s \in Slot, WorkerSpuriousWake(s) PROVE SuspendQuiesces'
  BY <1>2 DEF WorkerSpuriousWake, TypeOK
<1>3. ASSUME NEW s \in Slot, Worker(s), ~WorkerRun(s) PROVE SuspendQuiesces'
  BY <1>3 DEF Worker, WorkerLoop, WorkerTestCancel, WorkerLock, WorkerWait, WorkerWake,
     WorkerCall, WorkerSuspendLoad, WorkerSuspendStore, TypeOK
<1>4. ASSUME NEW c \in Client, ClientStep(c) PROVE SuspendQuiesces'
  BY <1>4 DEF ClientStep, Suspend, Resume, Stop, StopClear, SuspendLoad, SuspendStore,
     LoadByte, StoreByte, Signal, StopCancel, StopJoin, TypeOK
<1>5. ASSUME NEW c \in Client, ClientCall(c) PROVE SuspendQuiesces'
  BY <1>5 DEF ClientCall, irthread_start_full, irthread_start, irthread_setdata,
     irthread_suspend, irthread_resume, irthread_stop, vars, TypeOK
<1> QED
  BY <1>1, <1>2, <1>3, <1>4, <1>5 DEF Next

\* Once susp is set a worker begins at most one more callback before it parks,
\* however calls, signals and the worker's own suspend interleave; a spurious
\* wake-up is good for one more.
THEOREM SuspendIsPrompt == Spec => []SuspendQuiesces
<1>1. Init => LateInv
  <2> SUFFICES ASSUME Init PROVE LateInv
    OBVIOUS
  <2>1. \A s \in Slot : flags[s].susp = FALSE /\ late[s] = 0
    BY DEF Init, Free
  <2>2. \A c \in Client : cpc[c] = "idle"
    BY DEF Init
  <2> QED
    BY <2>1, <2>2 DEF LateInv, StopSuspends, SuspendQuiesces, LateBudget, Budget
<1>2. PoolInv /\ LateInv /\ [Next]_vars => LateInv'
  <2> SUFFICES ASSUME PoolInv, LateInv, [Next]_vars PROVE LateInv'
    OBVIOUS
  <2>1. CASE UNCHANGED vars
    <3>1. UNCHANGED <<flags, wpc, cpc, cid, creg, late>>
      BY <2>1 DEF vars, workerVars, clientVars
    <3> QED
      BY <3>1 DEF LateInv, StopSuspends, SuspendQuiesces, LateBudget, Budget, MayRun,
         SignalDue, WorkerDue
  <2>2. CASE Next
    <3>1. TypeOK
      BY DEF PoolInv
    <3>2. StopSuspends' /\ SuspendQuiesces'
      BY <2>2, <3>1, NextStopSuspends, NextQuiesces DEF LateInv
    <3>3. ASSUME KeepLate PROVE LateBudget'
      BY <2>2, <3>1, <3>3, WorkerBudget, ClientBudget, CallBudget DEF LateInv, Next
    <3> QED
      BY <3>2, <3>3 DEF LateInv
  <2> QED
    BY <2>1, <2>2
<1>3. LateInv => SuspendQuiesces
  BY DEF LateInv
<1> QED
  BY <1>1, <1>2, <1>3, InitPoolInv, NextPoolInv, PTL DEF Spec

-----------------------------------------------------------------------------
(* The daemon's output threads.                                            *)

\* Every step of the daemon is one of the pool, a stutter of it, or the stray
\* suspend of alarm_thread.
LEMMA OutIsPool ==
  ASSUME DaemonPool, TypeOK, astate \in AlarmState, OutNext
  PROVE  [Next]_vars \/ \E s \in Slot : CallbackSuspendsOther(s)
<1>1. Main \in Client /\ Data = AlarmState /\ {"status_led", "alarm_thread"} \subseteq Callback
  BY DEF DaemonPool
<1>2. CASE \E s \in Slot : CallbackWrite(s) \/ CallbackSuspendsOther(s) \/ WorkerStep(s)
  BY <1>2 DEF CallbackWrite, WorkerStep, Next
<1>3. ASSUME ClientCall(Main) \/ ClientStep(Main) \/ UNCHANGED vars
      PROVE  [Next]_vars
  BY <1>1, <1>3 DEF Next
<1>4. \A s : s \in own[Main] => s \in Slot
  BY <1>1 DEF TypeOK
<1>5. ASSUME NEW s, irthread_suspend(Main, s) \/ irthread_resume(Main, s)
                    \/ irthread_stop(Main, s)
      PROVE  ClientCall(Main)
  <2>1. s \in Slot
    BY <1>4, <1>5 DEF irthread_suspend, irthread_resume, irthread_stop
  <2> QED
    BY <1>5, <2>1 DEF ClientCall
<1>6. ASSUME NEW s, irthread_setdata(Main, s, astate) PROVE ClientCall(Main)
  <2>1. s \in Slot
    BY <1>4, <1>6 DEF irthread_setdata
  <2> QED
    BY <1>1, <1>6, <2>1 DEF ClientCall
<1>7. ASSUME NEW s, NEW cb \in {"status_led", "alarm_thread"}, irthread_start(Main, cb, s)
      PROVE  ClientCall(Main)
  <2>1. s \in Slot
    BY <1>7 DEF irthread_start, IsFirstFree, FreeSlots
  <2> QED
    BY <1>1, <1>7, <2>1 DEF ClientCall
<1>8. CASE MainStart
  BY <1>3, <1>5, <1>7, <1>8 DEF MainStart, MainSuspend
<1>9. CASE MainTransition \/ MainCall
  BY <1>3, <1>9 DEF MainTransition, MainCall
<1>10. CASE MainHandOver
  BY <1>3, <1>5, <1>6, <1>10 DEF MainHandOver
<1>11. CASE MainTerminate
  BY <1>3, <1>5, <1>11 DEF MainTerminate
<1> QED
  BY <1>2, <1>8, <1>9, <1>10, <1>11 DEF OutNext

\* The stray suspend stores another slot's byte, with used as it was.
LEMMA StrayPoolInv ==
  ASSUME PoolInv, thrd_alarm \in Slot, NEW s \in Slot, CallbackSuspendsOther(s)
  PROVE  PoolInv'
<1> USE DEF PoolInv, TypeOK, WGoto, clientVars, CallbackSuspendsOther
<1>1. /\ [flags[thrd_alarm] EXCEPT !.susp = TRUE] \in Flags
      /\ [flags[thrd_alarm] EXCEPT !.susp = TRUE].used = flags[thrd_alarm].used
  <2>1. flags[thrd_alarm] \in Flags
    OBVIOUS
  <2> QED
    BY <2>1, FlagsUpdate DEF Flags
<1>2. flags' = [flags EXCEPT ![thrd_alarm] = [flags[thrd_alarm] EXCEPT !.susp = TRUE]]
  OBVIOUS
<1>3. flags' \in [Slot -> Flags] /\ \A t \in Slot : flags'[t].used = flags[t].used
  BY <1>1, <1>2
<1>4. late' \in [Slot -> -1 .. 2] /\ wpc' \in [Slot -> WorkerPC]
  BY DEF WorkerPC
<1>5. TypeOK'
  BY <1>3, <1>4
<1>6. UNCHANGED <<tbusy, wreg, cpc, cid, creg, own>>
  OBVIOUS
<1>7. \A t \in Slot : wpc'[t] # "none" => wpc[t] # "none"
  OBVIOUS
<1>8. \A t \in Slot : wpc'[t] = "susp_store" => wpc[t] = "susp_store"
  OBVIOUS
<1> HIDE DEF CallbackSuspendsOther
<1>9. StopHoldsPool' /\ CallOwnsSlot' /\ IdsAreExclusive' /\ LiveIsOwned'
  BY <1>6, <1>7 DEF StopHoldsPool, CallOwnsSlot, IdsAreExclusive, LiveIsOwned
<1>10. OwnedIsUsed' /\ WorkerCopyIsUsed' /\ ClientCopyIsUsed'
  BY <1>3, <1>6, <1>8 DEF OwnedIsUsed, WorkerCopyIsUsed, ClientCopyIsUsed, Stopping
<1> QED
  BY <1>5, <1>9, <1>10

\* main() is inside irthread_stop for the thread s.
StopsSlot(s) == cpc[Main] \in StopEarly \cup StopLate /\ cid[Main] = s

\* What main() still has to stop.  Stopping both is over when it sets the pins low.
OutInv ==
  /\ astate \in AlarmState
  /\ mpc \in MainPC
  /\ thrd_alarm = IF mpc \in {"start_status", "start_alarm", "set_alarm"} THEN 0
                                                                       ELSE AlarmSlot
  /\ \A c \in Client : c # Main => own[c] = {}
  /\ own[Main] \subseteq {StatusSlot, AlarmSlot}
  /\ mpc = "stop_status" => StopsSlot(AlarmSlot) \/ own[Main] \subseteq {StatusSlot}
  /\ mpc = "lowall" => \/ StopsSlot(StatusSlot) /\ own[Main] \subseteq {StatusSlot}
                      \/ own[Main] = {}
  /\ mpc = "exit" => own[Main] = {} /\ \A p \in Pin : ~pin[p]

\* A callback of a thread that does not exist writes nothing.
LEMMA NobodyWrites ==
  ASSUME PoolInv, OutInv, mpc = "exit", DaemonPool
  PROVE  \A s \in Slot : wpc[s] = "none"
<1>1. \A c \in Client : own[c] = {}
  BY DEF OutInv
<1> QED
  BY <1>1 DEF PoolInv, LiveIsOwned

\* What the steps of the workers leave alone.
LEMMA WorkersOutInv ==
  ASSUME PoolInv, OutInv, DaemonPool, NEW s \in Slot,
         CallbackWrite(s) \/ CallbackSuspendsOther(s) \/ WorkerStep(s)
  PROVE  OutInv'
<1>1. UNCHANGED <<cpc, cid, own>>
  BY DEF CallbackWrite, CallbackSuspendsOther, WorkerStep, vars, clientVars,
         Worker, WorkerLoop, WorkerTestCancel, WorkerLock, WorkerWait,
         WorkerSpuriousWake, WorkerWake, WorkerRun, WorkerCall,
         WorkerSuspendLoad, WorkerSuspendStore
<1>2. UNCHANGED <<astate, mpc, thrd_alarm>>
  BY DEF CallbackWrite, CallbackSuspendsOther, WorkerStep
<1>3. mpc = "exit" => pin' = pin
  BY NobodyWrites DEF CallbackWrite, CallbackSuspendsOther, WorkerStep
<1> QED
  BY <1>1, <1>2, <1>3 DEF OutInv, StopsSlot

\* What a running call of the pool changes: irthread_stop gives its slot back
\* when it ends.
LEMMA CallOutInv ==
  ASSUME PoolInv, OutInv, DaemonPool, MainCall
  PROVE  OutInv'
<1>1. ClientStep(Main) /\ UNCHANGED outVars /\ Main \in Client /\ TypeOK
  BY DEF MainCall, DaemonPool, PoolInv
<1>2. cid' = cid
  BY <1>1 DEF ClientStep, Suspend, Resume, Stop, StopClear, SuspendLoad, SuspendStore,
     LoadByte, StoreByte, Signal, StopCancel, StopJoin
<1>3. \/ own' = own /\ (\A s : StopsSlot(s) => StopsSlot(s)')
      \/ /\ own' = [own EXCEPT ![Main] = own[Main] \ {cid[Main]}]
         /\ cpc[Main] = "stop_join"
  BY <1>1 DEF ClientStep, Suspend, Resume, Stop, StopClear, SuspendLoad, SuspendStore,
     LoadByte, StoreByte, Signal, StopCancel, StopJoin, StopsSlot, StopEarly, StopLate,
     CGoto, TypeOK
<1>4. UNCHANGED <<astate, mpc, thrd_alarm, pin>>
  BY <1>1 DEF outVars
<1>5. CASE own' = own /\ (\A s : StopsSlot(s) => StopsSlot(s)')
  BY <1>4, <1>5 DEF OutInv
<1>6. CASE /\ own' = [own EXCEPT ![Main] = own[Main] \ {cid[Main]}]
           /\ cpc[Main] = "stop_join"
  <2>1. own'[Main] = own[Main] \ {cid[Main]}
    BY <1>1, <1>6 DEF TypeOK
  <2>2. \A c \in Client : c # Main => own'[c] = own[c]
    BY <1>6 DEF TypeOK
  <2>3. \A s : StopsSlot(s) => s \notin own'[Main]
    BY <2>1 DEF StopsSlot
  <2>4. /\ mpc = "stop_status" => own'[Main] \subseteq {StatusSlot}
        /\ mpc = "lowall" => own'[Main] = {}
    BY <2>1, <2>3 DEF OutInv
  <2>5. own'[Main] \subseteq own[Main]
    BY <2>1
  <2> QED
    BY <1>4, <2>2, <2>4, <2>5 DEF OutInv
<1> QED
  BY <1>3, <1>5, <1>6

\* The first steps of main()'s calls, and its steps between calls.
LEMMA MainOutInv ==
  ASSUME PoolInv, OutInv, DaemonPool,
         MainStart \/ MainTransition \/ MainHandOver \/ MainTerminate
  PROVE  OutInv'
<1> USE DEF At
<1>0. TypeOK /\ Main \in Client
  BY DEF PoolInv, DaemonPool
<1>1. \A s : ~StopsSlot(s)
  BY DEF MainStart, MainSuspend, MainTransition, MainHandOver, MainTerminate, StopsSlot,
         StopEarly, StopLate
<1>2. ASSUME NEW s \in {StatusSlot, AlarmSlot}, NEW cb, irthread_start(Main, cb, s)
      PROVE  /\ own'[Main] \subseteq {StatusSlot, AlarmSlot}
             /\ \A c \in Client : c # Main => own'[c] = own[c]
  BY <1>0, <1>2 DEF irthread_start, OutInv, TypeOK
<1>3. CASE MainStart
  <2>1. CASE MainSuspend
    BY <1>1, <2>1 DEF MainSuspend, irthread_suspend, OutInv, MainPC
  <2>2. CASE ~MainSuspend
    <3>1. mpc \in {"start_status", "start_alarm", "set_alarm"}
      BY <1>3, <2>2 DEF MainStart
    <3>2. CASE mpc = "set_alarm"
      BY <1>1, <1>3, <2>2, <3>2 DEF MainStart, OutInv, MainPC, vars, clientVars
    <3>3. CASE mpc \in {"start_status", "start_alarm"}
      BY <1>2, <1>3, <2>2, <3>3 DEF MainStart, OutInv, MainPC
    <3> QED
      BY <3>1, <3>2, <3>3
  <2> QED
    BY <2>1, <2>2
<1>4. CASE MainTransition
  <2>1. Successors[astate] \subseteq AlarmState
    BY DEF Successors, AlarmState, OutInv
  <2> QED
    BY <1>4, <2>1 DEF MainTransition, OutInv, MainPC, vars, clientVars
<1>5. CASE MainHandOver
  BY <1>5 DEF MainHandOver, irthread_setdata, irthread_resume, OutInv, MainPC, clientVars
\* In these steps main() asks for a thread that is not stopped yet.
<1>6. CASE MainTerminate
  <2>1. ASSUME NEW s, irthread_stop(Main, s) PROVE StopsSlot(s)' /\ own' = own
    BY <1>0, <2>1
    DEF irthread_stop, CGoto, StopsSlot, StopEarly, StopLate, TypeOK
  <2>2. CASE mpc = "sleep"
    BY <1>6, <2>2 DEF MainTerminate, OutInv, MainPC, vars, clientVars
  <2>3. CASE mpc = "stop_alarm"
    BY <1>6, <2>1, <2>3 DEF MainTerminate, OutInv, MainPC
  <2>4. CASE mpc = "stop_status"
    BY <1>1, <1>6, <2>1, <2>4 DEF MainTerminate, OutInv, MainPC
  <2>5. CASE mpc = "lowall"
    BY <1>1, <1>6, <2>5 DEF MainTerminate, OutInv, MainPC, vars, clientVars
  <2> QED
    BY <1>6, <2>2, <2>3, <2>4, <2>5 DEF MainTerminate
<1> QED
  BY <1>3, <1>4, <1>5, <1>6

LEMMA OutInvariant == ASSUME DaemonPool PROVE OutSpec => [](PoolInv /\ OutInv)
<1>1. OutInit => PoolInv /\ OutInv
  <2>1. ASSUME OutInit PROVE OutInv
    <3>1. \A c \in Client : own[c] = {}
      BY <2>1 DEF OutInit, Init
    <3>2. Main \in Client
      BY DEF DaemonPool
    <3> QED
      BY <2>1, <3>1, <3>2 DEF OutInit, OutInv, AlarmState, MainPC
  <2> QED
    BY <2>1, InitPoolInv DEF OutInit
<1>2. PoolInv /\ OutInv /\ [OutNext]_allVars => (PoolInv /\ OutInv)'
  <2> SUFFICES ASSUME PoolInv, OutInv, [OutNext]_allVars PROVE (PoolInv /\ OutInv)'
    OBVIOUS
  <2>1. CASE UNCHANGED allVars
    <3>1. UNCHANGED vars /\ UNCHANGED outVars
      BY <2>1 DEF allVars
    <3>2. PoolInv'
      BY <3>1, NextPoolInv
    <3>3. UNCHANGED <<cpc, cid, own, astate, mpc, pin, thrd_alarm>>
      BY <3>1 DEF vars, clientVars, outVars
    <3> QED
      BY <3>2, <3>3 DEF OutInv, StopsSlot
  <2>2. CASE OutNext
    <3>1. [Next]_vars \/ \E s \in Slot : CallbackSuspendsOther(s)
      BY <2>2, OutIsPool DEF PoolInv, OutInv
    <3>2. thrd_alarm \in Slot
      BY PoolAssumption DEF OutInv, DaemonPool, Slot, AlarmSlot
    <3>3. PoolInv'
      BY <3>1, <3>2, NextPoolInv, StrayPoolInv
    <3>4. OutInv'
      BY <2>2, WorkersOutInv, CallOutInv, MainOutInv DEF OutNext
    <3> QED
      BY <3>3, <3>4
  <2> QED
    BY <2>1, <2>2
<1> QED
  BY <1>1, <1>2, PTL DEF OutSpec

\* When main() exits, both workers are joined and every output is low: no late
\* callback raises one after irpio_lowall, also when alarm_thread has suspended
\* the wrong thread at the start.
THEOREM NothingDrivenAtExit == ASSUME DaemonPool PROVE OutSpec => []AllLowAtExit
<1>1. PoolInv /\ OutInv => AllLowAtExit
  BY NobodyWrites DEF OutInv, AllLowAtExit
<1> QED
  BY <1>1, OutInvariant, PTL
=============================================================================
