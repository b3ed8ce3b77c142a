-------------------------------- MODULE IrIsr -------------------------------
(***************************************************************************)
(* The interrupt threads of src/iralarm/irpio.c: irpio_isr registers a     *)
(* function for a pin and starts a thread that learns its pin from the     *)
(* global pinPass; the thread polls the pin's sysfs file, clears the       *)
(* interrupt with a dummy read and calls the function.  The kernel keeps   *)
(* one pending event per open file, however many edges arrive (external).  *)
(* Every caller registers a pin of its own, so that callers, pins and      *)
(* interrupt threads have the same names; iralarmd has one, IRECV.         *)
(***************************************************************************)
CONSTANTS
  Pin,         \* the pins that callers register
  None,        \* pinPass = -1
  OpenFails,   \* BOOLEAN: may the sysfs file be missing?
  CreateFails  \* BOOLEAN: may pthread_create fail?

ASSUME IsrAssumption ==
  None \notin Pin /\ OpenFails \in BOOLEAN /\ CreateFails \in BOOLEAN

VARIABLES
  cpc,      \* [Pin -> CallerPC]: where the caller of irpio_isr is
  tpc,      \* [Pin -> HandlerPC]: where the thread it created is
  myPin,    \* [Pin -> Pin \cup {None}]: the pin that thread serves
  pinPass,  \* the pin handed to the newest thread
  pinMutex, \* is it locked?
  sysFds,   \* the pins whose file is open
  pending,  \* the pins with an event that poll reports
  due       \* history: pins with an edge that no call has followed yet

vars == <<cpc, tpc, myPin, pinPass, pinMutex, sysFds, pending, due>>

CallerPC  == {"idle", "clear", "lock", "create", "spin", "done", "error"}
HandlerPC == {"none", "take", "reset", "poll", "read", "call"}

Init ==
  /\ cpc = [p \in Pin |-> "idle"]
  /\ tpc = [p \in Pin |-> "none"]
  /\ myPin = [p \in Pin |-> None]
  /\ pinPass = None /\ pinMutex = FALSE
  /\ sysFds = {} /\ pending = {} /\ due = {}

-----------------------------------------------------------------------------
(* __isr_init.                                                             *)
CGoto(p, from, to) == cpc[p] = from /\ cpc' = [cpc EXCEPT ![p] = to]

\* Mutant: the descriptor is not kept.
IsrOpenForgets(p) ==
  /\ CGoto(p, "idle", "clear")
  /\ pending' = pending \cup {p}
  /\ UNCHANGED <<tpc, myPin, pinPass, pinMutex, sysFds, due>>

\* Open the pin's file, or return -1.
IsrOpen(p) ==
  /\ \/ CGoto(p, "idle", "clear") /\ sysFds' = sysFds \cup {p}
     \/ OpenFails /\ CGoto(p, "idle", "error") /\ UNCHANGED sysFds
  /\ UNCHANGED <<tpc, myPin, pinPass, pinMutex, pending, due>>

\* Clear what is pending from before and store the function.
IsrClear(p) ==
  /\ CGoto(p, "clear", "lock")
  /\ pending' = pending \ {p}
  /\ due' = due \ {p}
  /\ UNCHANGED <<tpc, myPin, pinPass, pinMutex, sysFds>>

IsrPass(p) ==
  /\ ~pinMutex /\ pinMutex' = TRUE
  /\ CGoto(p, "lock", "create")
  /\ pinPass' = p
  /\ UNCHANGED <<tpc, myPin, sysFds, pending, due>>

\* The result of pthread_create is not looked at.
IsrCreate(p) ==
  /\ CGoto(p, "create", "spin")
  /\ \/ tpc' = [tpc EXCEPT ![p] = "take"]
     \/ CreateFails /\ UNCHANGED tpc
  /\ UNCHANGED <<myPin, pinPass, pinMutex, sysFds, pending, due>>

\* Mutant: irpio_isr returns without waiting for the thread.
IsrReturnEarly(p) ==
  /\ CGoto(p, "spin", "done")
  /\ pinMutex' = FALSE
  /\ UNCHANGED <<tpc, myPin, pinPass, sysFds, pending, due>>

\* while (pinPass != -1) sleep(1).
IsrReturn(p) ==
  /\ CGoto(p, "spin", "done")
  /\ pinPass = None
  /\ pinMutex' = FALSE
  /\ UNCHANGED <<tpc, myPin, pinPass, sysFds, pending, due>>

-----------------------------------------------------------------------------
(* interruptHandler, the thread created for p.                             *)
TGoto(p, from, to) == tpc[p] = from /\ tpc' = [tpc EXCEPT ![p] = to]

HandlerTake(p) ==
  /\ TGoto(p, "take", "reset")
  /\ myPin' = [myPin EXCEPT ![p] = pinPass]
  /\ UNCHANGED <<cpc, pinPass, pinMutex, sysFds, pending, due>>

\* Mutant: pinPass is not given back.
HandlerKeeps(p) ==
  /\ TGoto(p, "reset", "poll")
  /\ UNCHANGED <<cpc, myPin, pinPass, pinMutex, sysFds, pending, due>>

HandlerReset(p) ==
  /\ TGoto(p, "reset", "poll")
  /\ pinPass' = None
  /\ UNCHANGED <<cpc, myPin, pinMutex, sysFds, pending, due>>

\* waitForInterrupt: poll returns when an event is pending, ...
HandlerPoll(p) ==
  /\ TGoto(p, "poll", "read")
  /\ myPin[p] \in pending
  /\ UNCHANGED <<cpc, myPin, pinPass, pinMutex, sysFds, pending, due>>

\* Mutant: the result of waitForInterrupt is compared with 1.
HandlerReadIgnores(p) ==
  /\ TGoto(p, "read", "poll")
  /\ pending' = pending \ {myPin[p]}
  /\ UNCHANGED <<cpc, myPin, pinPass, pinMutex, sysFds, due>>

\* ... the dummy read clears it, also if another edge came in between, ...
HandlerRead(p) ==
  /\ TGoto(p, "read", "call")
  /\ pending' = pending \ {myPin[p]}
  /\ UNCHANGED <<cpc, myPin, pinPass, pinMutex, sysFds, due>>

\* ... and then the function is called.
HandlerCall(p) ==
  /\ TGoto(p, "call", "poll")
  /\ due' = due \ {myPin[p]}
  /\ UNCHANGED <<cpc, myPin, pinPass, pinMutex, sysFds, pending>>

\* A falling edge at a pin whose file is open.
Edge(p) ==
  /\ p \in sysFds
  /\ pending' = pending \cup {p}
  /\ due' = due \cup {p}
  /\ UNCHANGED <<cpc, tpc, myPin, pinPass, pinMutex, sysFds>>

Caller(p)  == IsrClear(p) \/ IsrPass(p) \/ IsrCreate(p) \/ IsrReturn(p)
Handler(p) == HandlerTake(p) \/ HandlerReset(p) \/ HandlerPoll(p)
              \/ HandlerRead(p) \/ HandlerCall(p)

Next == \E p \in Pin : IsrOpen(p) \/ Caller(p) \/ Handler(p) \/ Edge(p)

Spec == Init /\ [][Next]_vars

\* Threads run; callers get the mutex in turn.  No edge has to arrive.
FairSpec ==
  Spec /\ \A p \in Pin : SF_vars(Caller(p)) /\ WF_vars(Handler(p))

-----------------------------------------------------------------------------
\* Types of irpio.c's interrupt state.
TypeOK ==
  /\ cpc \in [Pin -> CallerPC]
  /\ tpc \in [Pin -> HandlerPC]
  /\ myPin \in [Pin -> Pin \cup {None}]
  /\ pinPass \in Pin \cup {None}
  /\ pinMutex \in BOOLEAN
  /\ sysFds \subseteq Pin
  /\ pending \subseteq sysFds
  /\ due \subseteq sysFds

\* Every interrupt thread serves the pin it was created for, although all get
\* it through one global variable: the next irpio_isr waits until it is taken.
HandlerHasItsPin == \A p \in Pin : tpc[p] \notin {"none", "take"} => myPin[p] = p

\* When irpio_isr has returned 0, the interrupt thread is running and has read
\* its pin: edges are seen from then on.
ReturnMeansArmed == \A p \in Pin : cpc[p] = "done" => tpc[p] \in {"poll", "read", "call"}

\* Every edge after registration is followed by a call of the function (edges
\* close together share one): the dummy read comes before the call.
EdgeIsServed == \A p \in Pin : (cpc[p] = "done" /\ p \in due) ~> (p \notin due)

\* irpio_isr returns or the process ends, whatever others register meanwhile,
\* unless somebody's pthread_create failed: then nobody takes pinPass and the
\* mutex stays locked.
IsrReturns ==
  \A p \in Pin :
    (cpc[p] = "lock")
      ~> (cpc[p] \in {"done", "idle"} \/ \E q \in Pin : cpc[q] = "spin" /\ tpc[q] = "none")
=============================================================================
