------------------------------ MODULE IrThread ------------------------------
(***************************************************************************)
(* The worker-thread pool of iralarmd (src/iralarm/irthread.c): a table of *)
(* MAX_THREADS slots, each with a flag byte, a mutex mtx_bsy, a condition  *)
(* variable cnd_bsy, a callback and a data pointer.  A worker loops over   *)
(* its callback; a client (the main thread) starts, stops, suspends,       *)
(* resumes and re-parameterises it; a callback may suspend its own worker. *)
(*                                                                         *)
(* actv, used and susp are bit-fields of one byte, so every assignment to  *)
(* one of them loads the byte, changes it and stores it back.  The model   *)
(* keeps load and store apart: an unlocked store (irthread_resume,         *)
(* irthread_stop) may overwrite a concurrent one.  Steps between which no  *)
(* other thread can look at what changed are joined into one action: a     *)
(* mutex is taken when its guard holds and is held over a step boundary    *)
(* only where the holder really does something in between.                 *)
(***************************************************************************)
EXTENDS Integers, FiniteSets

CONSTANTS
  Client,       \* threads that call the irthread_* functions
  MAX_THREADS,  \* number of slots (4 in the code)
  Data,         \* values of the void *data parameter
  NULL,         \* the data pointer of a fresh worker
  Callback,     \* the thread functions
  SuspendOn,    \* [Callback -> SUBSET Data]: data on which it suspends itself
  NoOne,        \* nobody holds tbusy
  CreateFails,  \* BOOLEAN: may pthread_create (or an init call) fail?
  Spurious,     \* BOOLEAN: may pthread_cond_wait return without a signal?
  KeepLate      \* BOOLEAN: is the history variable late kept?

Slot == 0 .. MAX_THREADS - 1

ASSUME PoolAssumption ==
  /\ MAX_THREADS \in Nat \ {0}
  /\ NULL \in Data
  /\ Callback # {}
  /\ SuspendOn \in [Callback -> SUBSET Data]
  /\ NoOne \notin Client
  /\ CreateFails \in BOOLEAN
  /\ Spurious \in BOOLEAN
  /\ KeepLate \in BOOLEAN

VARIABLES
  flags,     \* [Slot -> Flags]: the bit-field byte of struct irthread
  tcb,       \* [Slot -> Callback]: the worker's thread function
  data,      \* [Slot -> Data]: the parameter set by irthread_setdata
  mtx_bsy,   \* [Slot -> BOOLEAN]: is the slot's mutex locked?
  tbusy,     \* the client that holds the pool mutex, or NoOne
  canc,      \* [Slot -> BOOLEAN]: a pthread_cancel is pending
  wpc,       \* [Slot -> WorkerPC]: where the worker is
  wreg,      \* [Slot -> Flags]: the byte a worker loaded and will store
  data_ptr,  \* [Slot -> Data]: the local data_ptr of __thread_mainloop
  cpc,       \* [Client -> ClientPC]: where the client is
  cid,       \* [Client -> Slot]: the slot its call is about
  creg,      \* [Client -> Flags]: the byte it loaded and will store
  own,       \* [Client -> SUBSET Slot]: ids it started and has not stopped
  late       \* history: callbacks begun less spurious wake-ups, while susp is set
             \* and since it was (kept between -1 and 2)

workerVars == <<canc, wpc, wreg, data_ptr>>
clientVars == <<cpc, cid, creg, own>>
vars == <<flags, tcb, data, mtx_bsy, tbusy, workerVars, clientVars, late>>

Flags == [actv: BOOLEAN, used: BOOLEAN, susp: BOOLEAN]

WorkerPC == {"none", "loop", "test", "lock", "park", "wait", "wake", "run",
             "call", "susp_load", "susp_store", "done"}

\* Inside irthread_stop, before and after its store of used = 0.
StopEarly == {"stop_susp_load", "stop_susp_store", "stop_used_load",
              "stop_used_store"}
StopLate == {"stop_actv_load", "stop_actv_store", "stop_signal",
             "stop_cancel", "stop_join"}

ClientPC == {"idle", "susp_load", "susp_store", "res_load", "res_store",
             "res_signal"} \cup StopEarly \cup StopLate

Free == [actv |-> FALSE, used |-> FALSE, susp |-> FALSE]

Init ==
  /\ flags    = [s \in Slot |-> Free]
  /\ tcb      = [s \in Slot |-> CHOOSE cb \in Callback : TRUE]  \* not yet read
  /\ data     = [s \in Slot |-> NULL]
  /\ mtx_bsy  = [s \in Slot |-> FALSE]
  /\ tbusy    = NoOne
  /\ canc     = [s \in Slot |-> FALSE]
  /\ wpc      = [s \in Slot |-> "none"]
  /\ wreg     = [s \in Slot |-> Free]
  /\ data_ptr = [s \in Slot |-> NULL]
  /\ cpc      = [c \in Client |-> "idle"]
  /\ cid      = [c \in Client |-> 0]
  /\ creg     = [c \in Client |-> Free]
  /\ own      = [c \in Client |-> {}]
  /\ late     = [s \in Slot |-> 0]

-----------------------------------------------------------------------------
(* The worker: __thread_mainloop.                                          *)

WGoto(s, from, to) == wpc[s] = from /\ wpc' = [wpc EXCEPT ![s] = to]

\* while (it->actv == 1); a worker that leaves the loop can be joined.
WorkerLoop(s) ==
  /\ WGoto(s, "loop", IF flags[s].actv THEN "test" ELSE "done")
  /\ UNCHANGED <<flags, tcb, data, mtx_bsy, tbusy, canc, wreg, data_ptr,
                 clientVars, late>>

\* pthread_testcancel is the only cancellation point outside the region in
\* which cancellation is disabled.
WorkerTestCancel(s) ==
  /\ WGoto(s, "test", IF canc[s] THEN "done" ELSE "lock")
  /\ UNCHANGED <<flags, tcb, data, mtx_bsy, tbusy, canc, wreg, data_ptr,
                 clientVars, late>>

\* Mutant: susp is not tested at all.
WorkerLockNoTest(s) ==
  /\ ~mtx_bsy[s]
  /\ WGoto(s, "lock", "run")
  /\ data_ptr' = [data_ptr EXCEPT ![s] = data[s]]
  /\ UNCHANGED <<flags, tcb, data, mtx_bsy, tbusy, canc, wreg, clientVars, late>>

\* lock, then either go on to wait (the mutex stays locked) or read the data
\* pointer and unlock.
WorkerLock(s) ==
  /\ ~mtx_bsy[s]
  /\ \/ /\ flags[s].susp
        /\ WGoto(s, "lock", "park")
        /\ mtx_bsy' = [mtx_bsy EXCEPT ![s] = TRUE]
        /\ UNCHANGED data_ptr
     \/ /\ ~flags[s].susp
        /\ WGoto(s, "lock", "run")
        /\ data_ptr' = [data_ptr EXCEPT ![s] = data[s]]
        /\ UNCHANGED mtx_bsy
  /\ UNCHANGED <<flags, tcb, data, tbusy, canc, wreg, clientVars, late>>

\* pthread_cond_wait releases the mutex and starts to wait in one step.
WorkerWait(s) ==
  /\ WGoto(s, "park", "wait")
  /\ mtx_bsy' = [mtx_bsy EXCEPT ![s] = FALSE]
  /\ UNCHANGED <<flags, tcb, data, tbusy, canc, wreg, data_ptr, clientVars,
                 late>>

\* POSIX allows pthread_cond_wait to return although nobody signalled.
WorkerSpuriousWake(s) ==
  /\ Spurious
  /\ WGoto(s, "wait", "wake")
  /\ late' = [late EXCEPT ![s] = IF KeepLate /\ flags[s].susp /\ @ >= 0 THEN @ - 1 ELSE @]
  /\ UNCHANGED <<flags, tcb, data, mtx_bsy, tbusy, canc, wreg, data_ptr,
                 clientVars>>

\* Mutant: while (it->susp == 1) around the wait, as textbooks have it.
WorkerWakeRechecks(s) ==
  /\ WGoto(s, "wake", "lock")
  /\ UNCHANGED <<flags, tcb, data, mtx_bsy, tbusy, canc, wreg, data_ptr,
                 clientVars, late>>

\* pthread_cond_wait has the mutex again; susp is not looked at a second time.
WorkerWake(s) ==
  /\ ~mtx_bsy[s]
  /\ WGoto(s, "wake", "run")
  /\ data_ptr' = [data_ptr EXCEPT ![s] = data[s]]
  /\ UNCHANGED <<flags, tcb, data, mtx_bsy, tbusy, canc, wreg, clientVars,
                 late>>

\* if (it->actv == 1) the callback begins.
WorkerRun(s) ==
  /\ WGoto(s, "run", IF flags[s].actv THEN "call" ELSE "loop")
  /\ late' = [late EXCEPT ![s] =
                IF KeepLate /\ flags[s].actv /\ flags[s].susp /\ @ < 2
                  THEN @ + 1 ELSE @]
  /\ UNCHANGED <<flags, tcb, data, mtx_bsy, tbusy, canc, wreg, data_ptr,
                 clientVars>>

\* The callback ends.  On some data it calls irthread_suspend for its own
\* worker: the unlocked test, then a locked load and store of the flag byte.
WorkerCall(s) ==
  /\ WGoto(s, "call",
           IF data_ptr[s] \in SuspendOn[tcb[s]] /\ ~flags[s].susp
             THEN "susp_load" ELSE "loop")
  /\ UNCHANGED <<flags, tcb, data, mtx_bsy, tbusy, canc, wreg, data_ptr,
                 clientVars, late>>

WorkerSuspendLoad(s) ==
  /\ ~mtx_bsy[s]
  /\ WGoto(s, "susp_load", "susp_store")
  /\ mtx_bsy' = [mtx_bsy EXCEPT ![s] = TRUE]
  /\ wreg'    = [wreg EXCEPT ![s] = flags[s]]
  /\ UNCHANGED <<flags, tcb, data, tbusy, canc, data_ptr, clientVars, late>>

WorkerSuspendStore(s) ==
  /\ WGoto(s, "susp_store", "loop")
  /\ flags'   = [flags EXCEPT ![s] = [wreg[s] EXCEPT !.susp = TRUE]]
  /\ late'    = [late EXCEPT ![s] = 0]
  /\ mtx_bsy' = [mtx_bsy EXCEPT ![s] = FALSE]
  /\ UNCHANGED <<tcb, data, tbusy, canc, wreg, data_ptr, clientVars>>

Worker(s) ==
  \/ WorkerLoop(s) \/ WorkerTestCancel(s) \/ WorkerLock(s) \/ WorkerWait(s)
  \/ WorkerWake(s) \/ WorkerRun(s) \/ WorkerCall(s)
  \/ WorkerSuspendLoad(s) \/ WorkerSuspendStore(s)

-----------------------------------------------------------------------------
(* The client's calls.  A client passes only ids it got from               *)
(* irthread_start and has not stopped, as iralarmd and test.c do.          *)

CGoto(c, from, to) == cpc[c] = from /\ cpc' = [cpc EXCEPT ![c] = to]

\* The slots irthread_start may take; it takes the first one.
FreeSlots == {s \in Slot : ~flags[s].used}
IsFirstFree(s) == s \in FreeSlots /\ \A t \in FreeSlots : s <= t

\* Mutant: the slot is taken without tbusy.
irthread_start_unlocked(c, cb, s) ==
  /\ cpc[c] = "idle"
  /\ IsFirstFree(s)
  /\ flags' = [flags EXCEPT ![s] =
                 [actv |-> TRUE, used |-> TRUE, susp |-> FALSE]]
  /\ tcb' = [tcb EXCEPT ![s] = cb]
  /\ wpc' = [wpc EXCEPT ![s] = "loop"]
  /\ own' = [own EXCEPT ![c] = @ \cup {s}]
  /\ UNCHANGED <<data, mtx_bsy, tbusy, canc, wreg, data_ptr, cpc, cid, creg, late>>

\* The slot is wiped and filled under tbusy.  When pthread_create fails the
\* caller gets IRTHRD_ERR but the slot keeps used = 1 and actv = 1.
irthread_start(c, cb, s) ==
  /\ cpc[c] = "idle"
  /\ tbusy = NoOne
  /\ IsFirstFree(s)
  /\ flags' = [flags EXCEPT ![s] =
                 [actv |-> TRUE, used |-> TRUE, susp |-> FALSE]]
  /\ tcb'     = [tcb EXCEPT ![s] = cb]
  /\ data'    = [data EXCEPT ![s] = NULL]
  /\ mtx_bsy' = [mtx_bsy EXCEPT ![s] = FALSE]
  /\ late'    = [late EXCEPT ![s] = 0]
  /\ \/ /\ wpc'  = [wpc EXCEPT ![s] = "loop"]
        /\ canc' = [canc EXCEPT ![s] = FALSE]
        /\ own'  = [own EXCEPT ![c] = @ \cup {s}]
     \/ /\ CreateFails
        /\ UNCHANGED <<wpc, canc, own>>
  /\ UNCHANGED <<tbusy, wreg, data_ptr, cpc, cid, creg>>

\* No free slot: IRTHRD_ERR, nothing changes but the caller waited for tbusy.
irthread_start_full(c) ==
  /\ cpc[c] = "idle"
  /\ tbusy = NoOne
  /\ FreeSlots = {}
  /\ UNCHANGED vars

irthread_setdata(c, s, d) ==
  /\ cpc[c] = "idle"
  /\ s \in own[c]
  /\ ~mtx_bsy[s]
  /\ data' = [data EXCEPT ![s] = d]
  /\ UNCHANGED <<flags, tcb, mtx_bsy, tbusy, workerVars, clientVars, late>>

\* The unlocked test of susp and the early return; then the locked update.
irthread_suspend(c, s) ==
  /\ s \in own[c]
  /\ CGoto(c, "idle", IF flags[s].susp THEN "idle" ELSE "susp_load")
  /\ cid' = [cid EXCEPT ![c] = s]
  /\ UNCHANGED <<flags, tcb, data, mtx_bsy, tbusy, workerVars, creg, own, late>>

\* irthread_stop takes tbusy before anything else and keeps it to the end; it
\* begins with irthread_suspend.
irthread_stop(c, s) ==
  /\ s \in own[c]
  /\ tbusy = NoOne
  /\ tbusy' = c
  /\ CGoto(c, "idle", IF flags[s].susp THEN "stop_used_load"
                                      ELSE "stop_susp_load")
  /\ cid' = [cid EXCEPT ![c] = s]
  /\ UNCHANGED <<flags, tcb, data, mtx_bsy, workerVars, creg, own, late>>

\* irthread_resume tests susp without the mutex: -1 when it is clear.
irthread_resume(c, s) ==
  /\ s \in own[c]
  /\ CGoto(c, "idle", IF flags[s].susp THEN "res_load" ELSE "idle")
  /\ cid' = [cid EXCEPT ![c] = s]
  /\ UNCHANGED <<flags, tcb, data, mtx_bsy, tbusy, workerVars, creg, own, late>>

\* Load the byte of the call's slot, without its mutex.
LoadByte(c, from, to) ==
  /\ CGoto(c, from, to)
  /\ creg' = [creg EXCEPT ![c] = flags[cid[c]]]
  /\ UNCHANGED <<flags, tcb, data, mtx_bsy, tbusy, workerVars, cid, own, late>>

\* Store the loaded byte with one field changed, without the mutex.
StoreByte(c, from, to, byte) ==
  /\ CGoto(c, from, to)
  /\ flags' = [flags EXCEPT ![cid[c]] = byte]
  /\ UNCHANGED <<tcb, data, mtx_bsy, tbusy, workerVars, cid, creg, own, late>>

\* susp = 1 inside the mutex.
SuspendLoad(c, from, to) ==
  /\ ~mtx_bsy[cid[c]]
  /\ CGoto(c, from, to)
  /\ creg'    = [creg EXCEPT ![c] = flags[cid[c]]]
  /\ mtx_bsy' = [mtx_bsy EXCEPT ![cid[c]] = TRUE]
  /\ UNCHANGED <<flags, tcb, data, tbusy, workerVars, cid, own, late>>

SuspendStore(c, from, to) ==
  /\ CGoto(c, from, to)
  /\ flags'   = [flags EXCEPT ![cid[c]] = [creg[c] EXCEPT !.susp = TRUE]]
  /\ mtx_bsy' = [mtx_bsy EXCEPT ![cid[c]] = FALSE]
  /\ late'    = [late EXCEPT ![cid[c]] = 0]
  /\ UNCHANGED <<tcb, data, tbusy, workerVars, cid, creg, own>>

\* Mutant: the signal goes to the wrong condition variable.
SignalLost(c, from, to) ==
  /\ CGoto(c, from, to)
  /\ UNCHANGED <<flags, tcb, data, mtx_bsy, tbusy, workerVars, cid, creg, own, late>>

\* pthread_cond_signal without the mutex: lost unless the worker waits.
Signal(c, from, to) ==
  /\ CGoto(c, from, to)
  /\ wpc' = [wpc EXCEPT ![cid[c]] = IF @ = "wait" THEN "wake" ELSE @]
  /\ UNCHANGED <<flags, tcb, data, mtx_bsy, tbusy, canc, wreg, data_ptr, cid,
                 creg, own, late>>

Suspend(c) == \/ SuspendLoad(c, "susp_load", "susp_store")
              \/ SuspendStore(c, "susp_store", "idle")

Resume(c) ==
  \/ LoadByte(c, "res_load", "res_store")
  \/ StoreByte(c, "res_store", "res_signal", [creg[c] EXCEPT !.susp = FALSE])
  \/ Signal(c, "res_signal", "idle")

\* used = 0, then actv = 0: two updates of the byte.
StopClear(c) ==
  \/ LoadByte(c, "stop_used_load", "stop_used_store")
  \/ StoreByte(c, "stop_used_store", "stop_actv_load",
               [creg[c] EXCEPT !.used = FALSE])
  \/ LoadByte(c, "stop_actv_load", "stop_actv_store")
  \/ StoreByte(c, "stop_actv_store", "stop_signal",
               [creg[c] EXCEPT !.actv = FALSE])

StopCancel(c) ==
  /\ CGoto(c, "stop_cancel", "stop_join")
  /\ canc' = [canc EXCEPT ![cid[c]] = TRUE]
  /\ UNCHANGED <<flags, tcb, data, mtx_bsy, tbusy, wpc, wreg, data_ptr, cid,
                 creg, own, late>>

\* pthread_join returns when the worker has ended; then tbusy is released.
StopJoin(c) ==
  /\ wpc[cid[c]] = "done"
  /\ CGoto(c, "stop_join", "idle")
  /\ wpc'   = [wpc EXCEPT ![cid[c]] = "none"]
  /\ own'   = [own EXCEPT ![c] = @ \ {cid[c]}]
  /\ tbusy' = NoOne
  /\ UNCHANGED <<flags, tcb, data, mtx_bsy, canc, wreg, data_ptr, cid, creg,
                 late>>

Stop(c) ==
  \/ SuspendLoad(c, "stop_susp_load", "stop_susp_store")
  \/ SuspendStore(c, "stop_susp_store", "stop_used_load")
  \/ StopClear(c)
  \/ Signal(c, "stop_signal", "stop_cancel")
  \/ StopCancel(c)
  \/ StopJoin(c)

\* A call that has begun goes on.
ClientStep(c) == Suspend(c) \/ Resume(c) \/ Stop(c)

\* An idle client makes a call.
ClientCall(c) ==
  \/ irthread_start_full(c)
  \/ \E s \in Slot :
       \/ \E cb \in Callback : irthread_start(c, cb, s)
       \/ \E d \in Data : irthread_setdata(c, s, d)
       \/ irthread_suspend(c, s) \/ irthread_resume(c, s) \/ irthread_stop(c, s)

Next ==
  \/ \E s \in Slot : Worker(s) \/ WorkerSpuriousWake(s)
  \/ \E c \in Client : ClientCall(c) \/ ClientStep(c)

\* Every runnable thread runs, and a thread that waits for a mutex that is free
\* again and again gets it.  No client is obliged to make a call.
Fairness ==
  /\ \A s \in Slot : SF_vars(Worker(s))
  /\ \A c \in Client : SF_vars(ClientStep(c))

Spec == Init /\ [][Next]_vars
FairSpec == Spec /\ Fairness

-----------------------------------------------------------------------------
\* Types of irthread.c's thread table and of its callers; a worker runs one of the
\* callbacks it was started with, and slot numbers stay below MAX_THREADS.
TypeOK ==
  /\ flags    \in [Slot -> Flags]
  /\ tcb      \in [Slot -> Callback]
  /\ data     \in [Slot -> Data]
  /\ mtx_bsy  \in [Slot -> BOOLEAN]
  /\ tbusy    \in Client \cup {NoOne}
  /\ canc     \in [Slot -> BOOLEAN]
  /\ wpc      \in [Slot -> WorkerPC]
  /\ wreg     \in [Slot -> Flags]
  /\ data_ptr \in [Slot -> Data]
  /\ cpc      \in [Client -> ClientPC]
  /\ cid      \in [Client -> Slot]
  /\ creg     \in [Client -> Flags]
  /\ own      \in [Client -> SUBSET Slot]
  /\ late     \in [Slot -> -1 .. 2]

\* irthread_stop clears used long before the worker is joined, but keeps tbusy:
\* whenever irthread_start may take a slot (used clear, tbusy free) no worker
\* of its former owner is alive, so memset never wipes a living thread's mutex.
FreeSlotHasNoWorker ==
  \A s \in Slot : tbusy = NoOne /\ ~flags[s].used => wpc[s] = "none"

\* irthread_start never re-initialises the structure a living worker uses.
LiveSlotIsNotReused ==
  [][\A s \in Slot : wpc[s] # "none" => tcb'[s] = tcb[s]]_vars

\* After susp is set at most one more callback begins before the worker parks:
\* the one that had passed the test of susp, or the one a late signal of
\* irthread_resume lets through; every spurious wake-up, which the if around
\* pthread_cond_wait lets through as well, is good for one more.
SuspendQuiesces ==
  \A s \in Slot : late[s] <= 1

\* A resume that finds its worker waiting makes it run its callback again,
\* unless it is being stopped.
ResumeWakesParked ==
  \A c \in Client, s \in Slot :
    (cpc[c] = "res_signal" /\ cid[c] = s /\ wpc[s] = "wait")
      ~> (wpc[s] \in {"call", "done"})

\* irthread_stop returns when its signal finds the worker waiting and its store
\* of actv = 0 is still there (a suspend of the worker's own may have undone it).
StopOfParkedReturns ==
  \A c \in Client, s \in Slot :
    (/\ cpc[c] = "stop_signal" /\ cid[c] = s
     /\ wpc[s] = "wait" /\ ~flags[s].actv) ~> (cpc[c] = "idle")

\* test.c stops every thread it started and then reports that they stopped: a
\* call of irthread_stop returns.
StopReturns ==
  \A c \in Client : (cpc[c] \in StopEarly) ~> (cpc[c] = "idle")
=============================================================================
