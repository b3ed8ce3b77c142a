------------------------------- MODULE IrXmpp -------------------------------
(***************************************************************************)
(* The Jabber connection of iralarmd (src/iralarm/irxmpp.c, DO_XMPP): the  *)
(* main thread checks the options and the password file, starts the        *)
(* connection thread, waits until it is connected, sends alarm messages    *)
(* and stops it on SIGTERM; the connection thread connects again and again *)
(* and answers the commands of the trusted user, of which "status" takes   *)
(* the daemon's semaphore and "config" the two mutexes under which SIGHUP  *)
(* changes the settings.  libstrophe is external: xmpp_run returns when    *)
(* the connection is lost or xmpp_stop was called while it runs, and       *)
(* xmpp_send has an effect only while connected.  When the stream ends it  *)
(* passes a stream_error that is not NULL: the handler reads it unchecked. *)
(*                                                                         *)
(* Of the semaphore's other users only what they may leave on the set the  *)
(* daemon takes over is here; how they use it is in AlarmCycle and         *)
(* SemLife.                                                                *)
(***************************************************************************)
EXTENDS Naturals, FiniteSets

CONSTANTS
  Modes,       \* modes the password file may have: sets of ModeBit
  Options,     \* sets of the -x, -j, -s and -p options the daemon may get
  CreateFails, \* BOOLEAN: may pthread_create fail?
  Spurious,    \* BOOLEAN: may pthread_cond_wait return without a signal?
  MaxLeft      \* bound: the value of the set semget finds, and the posts that
               \* are still due to it

\* IFREG: a regular file is there.
ModeBit == {"IFREG", "IRUSR", "IWUSR", "IXUSR", "ISUID", "ISGID", "ISVTX",
            "IRGRP", "IWGRP", "IXGRP", "IROTH", "IWOTH", "IXOTH"}
Option  == {"x", "j", "s", "p"}

ASSUME XmppAssumption ==
  /\ Modes \subseteq SUBSET ModeBit
  /\ Options \subseteq SUBSET Option
  /\ CreateFails \in BOOLEAN
  /\ Spurious \in BOOLEAN
  /\ MaxLeft \in Nat

VARIABLES
  mode,           \* mode bits of the password file
  opts,           \* options of the daemon
  mpc,            \* where main() is
  tpc,            \* where the connection thread is
  thrd_conn_mtx,  \* is the mutex locked?
  do_reconnect,   \* the flag the connection thread tests
  loop,           \* libstrophe's event loop: "idle", "running", "quit"
  online,         \* is the stream to the server up?
  made,           \* does the daemon's semaphore exist?
  sem,            \* its value
  due,            \* posts by a flank or an iralarmctl that began before semget
  mtx_status,     \* who has this mutex: "none", "main" or "conn"
  mtx_alarm,      \* ... and this one
  settings,       \* two of the settings; every SIGHUP finds both changed
  shown,          \* those that the answer to "config" has so far
  once,           \* history: the stream was up at some time
  spur,           \* history: main() woke spuriously
  why             \* history: what has made the semaphore useless as a mutex

envVars == <<mode, opts>>
semVars == <<made, sem, due, why>>
cfgVars == <<mtx_status, mtx_alarm, settings, shown>>
vars == <<envVars, cfgVars, mpc, tpc, thrd_conn_mtx, do_reconnect, loop, online,
          semVars, once, spur>>

StartPC  == {"options", "check", "start", "wait", "waiting", "woken"}
StopPC   == {"xstop", "join", "exit"}
HupPC    == {"hup_status", "hup_alarm", "hup_first", "hup_second"}
MainPC   == StartPC \cup StopPC \cup HupPC
            \cup {"setup", "post", "sleep", "body", "sending", "failed"}
ThreadPC == {"none", "begin", "connect", "run", "loop", "cb_wait", "cb_send",
             "cfg_status", "cfg_alarm", "cfg_first", "cfg_second", "cfg_send",
             "reply", "disconnect", "sleep", "done"}

Init ==
  /\ mode \in Modes /\ opts \in Options
  /\ mpc = "options" /\ tpc = "none"
  /\ thrd_conn_mtx = FALSE /\ do_reconnect = FALSE
  /\ loop = "idle" /\ online = FALSE
  /\ made = FALSE /\ sem = 0 /\ due = 0 /\ why = {}
  /\ mtx_status = "none" /\ mtx_alarm = "none"
  /\ settings = [n \in 1 .. 2 |-> 0] /\ shown = [n \in 1 .. 2 |-> 0]
  /\ once = FALSE /\ spur = FALSE

-----------------------------------------------------------------------------
MGoto(from, to) == mpc = from /\ mpc' = to
TGoto(from, to) == tpc = from /\ tpc' = to

\* semop(sem_id, &sops[0], 1) and semop(sem_id, &sops[1], 1): nobody looks at
\* their results, and without a set both return at once.
SemWait ==
  /\ IF made THEN sem > 0 /\ sem' = sem - 1 ELSE UNCHANGED sem
  /\ UNCHANGED <<made, due, why>>
SemPost ==
  /\ sem' = IF made THEN sem + 1 ELSE sem
  /\ UNCHANGED <<made, due, why>>

\* Some of -x, -j, -s is missing, unless none of the four was given.  (With -p
\* alone the check does not notice it; irxmpp_startThread does.)
CheckOptions ==
  /\ MGoto("options", IF opts # {} /\ "p" \notin opts /\ opts # {"x", "j", "s"}
                        THEN "failed" ELSE "check")
  /\ UNCHANGED <<envVars, cfgVars, tpc, thrd_conn_mtx, do_reconnect, loop,
                 online, semVars, once, spur>>

Forbidden == {"ISUID", "ISGID", "IRGRP", "IWGRP", "IXGRP", "IROTH", "IWOTH",
              "IXOTH"}

\* The password file is checked and, when the check succeeds, read; a file of
\* another user cannot be read.
irxmpp_check_passwd_file ==
  /\ \/ /\ {"IFREG", "IRUSR"} \subseteq mode /\ mode \cap Forbidden = {}
        /\ MGoto("check", "start")
     \/ MGoto("check", "failed")
  /\ UNCHANGED <<envVars, cfgVars, tpc, thrd_conn_mtx, do_reconnect, loop,
                 online, semVars, once, spur>>

\* The mutex is taken first and kept; main() exits on any error.
irxmpp_startThread ==
  /\ ~thrd_conn_mtx /\ thrd_conn_mtx' = TRUE
  /\ \/ /\ {"s", "j", "x"} \subseteq opts
        /\ MGoto("start", "wait") /\ tpc' = "begin"
     \/ /\ CreateFails \/ ~({"s", "j", "x"} \subseteq opts)
        /\ MGoto("start", "failed") /\ UNCHANGED tpc
  /\ UNCHANGED <<envVars, cfgVars, do_reconnect, loop, online, semVars, once,
                 spur>>

\* Mutants: main() does not wait; it waits with the mutex locked.
connect_wait_skipped ==
  /\ MGoto("wait", "setup")
  /\ UNCHANGED <<envVars, cfgVars, tpc, thrd_conn_mtx, do_reconnect, loop,
                 online, semVars, once, spur>>

connect_wait_locked ==
  /\ MGoto("wait", "waiting")
  /\ UNCHANGED <<envVars, cfgVars, tpc, thrd_conn_mtx, do_reconnect, loop,
                 online, semVars, once, spur>>

\* pthread_cond_wait without a predicate: release and begin to wait, ...
irxmpp_thread_connect_wait ==
  /\ MGoto("wait", "waiting")
  /\ thrd_conn_mtx' = FALSE
  /\ UNCHANGED <<envVars, cfgVars, tpc, do_reconnect, loop, online, semVars,
                 once, spur>>

SpuriousWake ==
  /\ Spurious
  /\ MGoto("waiting", "woken")
  /\ spur' = TRUE
  /\ UNCHANGED <<envVars, cfgVars, tpc, thrd_conn_mtx, do_reconnect, loop,
                 online, semVars, once>>

\* ... and go on with the mutex, which main() never releases.
ConnectWaitEnds ==
  /\ ~thrd_conn_mtx /\ thrd_conn_mtx' = TRUE
  /\ MGoto("woken", "setup")
  /\ UNCHANGED <<envVars, cfgVars, tpc, do_reconnect, loop, online, semVars,
                 once, spur>>

\* semget without IPC_EXCL: the set is new, or one that was left with its value
\* and with iralarmctls that will post it.  A flank or a "status" that has found
\* no semaphore will post this one without having waited for it.
MakeSemaphore ==
  /\ MGoto("setup", "post")
  /\ made' = TRUE /\ sem' \in 0 .. MaxLeft /\ due' \in 0 .. MaxLeft
  /\ why' = (IF tpc = "cb_send" THEN {"status"} ELSE {})
              \cup (IF sem' > 0 THEN {"leftover"} ELSE {})
              \cup (IF due' > 0 THEN {"due"} ELSE {})
  /\ UNCHANGED <<envVars, cfgVars, tpc, thrd_conn_mtx, do_reconnect, loop,
                 online, once, spur>>

\* semget fails: raise(SIGTERM), whose handler calls irxmpp_stopThread.
MakeSemaphoreFails ==
  /\ MGoto("setup", "xstop")
  /\ do_reconnect' = FALSE
  /\ UNCHANGED <<envVars, cfgVars, tpc, thrd_conn_mtx, loop, online, semVars,
                 once, spur>>

PostSemaphore ==
  /\ MGoto("post", "sleep")
  /\ SemPost
  /\ UNCHANGED <<envVars, cfgVars, tpc, thrd_conn_mtx, do_reconnect, loop,
                 online, once, spur>>

\* One of the posts that were due comes, if it comes.
LatePost ==
  /\ made /\ due > 0
  /\ due' = due - 1 /\ sem' = sem + 1
  /\ UNCHANGED <<envVars, cfgVars, mpc, tpc, thrd_conn_mtx, do_reconnect, loop,
                 online, made, why, once, spur>>

\* The set was one that an iralarmctl had made to probe for the daemon, and it
\* is removed.
ProbeRemoves ==
  /\ made /\ made' = FALSE
  /\ sem' = 0 /\ due' = 0 /\ why' = why \cup {"probe"}
  /\ UNCHANGED <<envVars, cfgVars, mpc, tpc, thrd_conn_mtx, do_reconnect, loop,
                 online, once, spur>>

\* A cycle of the main loop, under the semaphore; ...
CycleLock ==
  /\ MGoto("sleep", "body")
  /\ SemWait
  /\ UNCHANGED <<envVars, cfgVars, tpc, thrd_conn_mtx, do_reconnect, loop,
                 online, once, spur>>

\* ... a new alarm is sent (xmpp_send drops it when the stream is down).
doAlarmAction ==
  /\ MGoto("body", "sending")
  /\ UNCHANGED <<envVars, cfgVars, tpc, thrd_conn_mtx, do_reconnect, loop,
                 online, semVars, once, spur>>

CycleEnd ==
  /\ MGoto("body", "sleep") \/ MGoto("sending", "sleep")
  /\ SemPost
  /\ UNCHANGED <<envVars, cfgVars, tpc, thrd_conn_mtx, do_reconnect, loop,
                 online, once, spur>>

\* SIGHUP while main() sleeps.  (status_led and alarm_thread take one of the
\* mutexes each, to copy their settings.)
HupBegin ==
  /\ MGoto("sleep", "hup_status")
  /\ UNCHANGED <<envVars, cfgVars, tpc, thrd_conn_mtx, do_reconnect, loop,
                 online, semVars, once, spur>>

HupLock ==
  /\ \/ /\ MGoto("hup_status", "hup_alarm")
        /\ mtx_status = "none" /\ mtx_status' = "main" /\ UNCHANGED mtx_alarm
     \/ /\ MGoto("hup_alarm", "hup_first")
        /\ mtx_alarm = "none" /\ mtx_alarm' = "main" /\ UNCHANGED mtx_status
  /\ UNCHANGED <<envVars, settings, shown, tpc, thrd_conn_mtx, do_reconnect,
                 loop, online, semVars, once, spur>>

\* The settings are copied one after the other, then both mutexes unlocked.
HupCopy ==
  /\ \/ /\ MGoto("hup_first", "hup_second")
        /\ settings' = [settings EXCEPT ![1] = 1 - @]
        /\ UNCHANGED <<mtx_status, mtx_alarm>>
     \/ /\ MGoto("hup_second", "sleep")
        /\ settings' = [settings EXCEPT ![2] = 1 - @]
        /\ mtx_status' = "none" /\ mtx_alarm' = "none"
  /\ UNCHANGED <<envVars, shown, tpc, thrd_conn_mtx, do_reconnect, loop,
                 online, semVars, once, spur>>

\* irxmpp_stopThread, called by the SIGTERM handler: do_reconnect = 0, ...
StopClear ==
  /\ MGoto("sleep", "xstop")
  /\ do_reconnect' = FALSE
  /\ UNCHANGED <<envVars, cfgVars, tpc, thrd_conn_mtx, loop, online, semVars,
                 once, spur>>

\* ... xmpp_stop, which does nothing unless the event loop runs, ...
StopLoop ==
  /\ MGoto("xstop", "join")
  /\ loop' = IF loop = "running" THEN "quit" ELSE loop
  /\ UNCHANGED <<envVars, cfgVars, tpc, thrd_conn_mtx, do_reconnect, online,
                 semVars, once, spur>>

\* ... pthread_join, after which connection and context are released.
StopJoin ==
  /\ MGoto("join", "exit")
  /\ tpc = "done"
  /\ UNCHANGED <<envVars, cfgVars, tpc, thrd_conn_mtx, do_reconnect, loop,
                 online, semVars, once, spur>>

-----------------------------------------------------------------------------
(* The connection thread: __irxmpp_connect.                                *)
ConnectBegin ==
  /\ TGoto("begin", "connect")
  /\ do_reconnect' = TRUE
  /\ UNCHANGED <<envVars, cfgVars, mpc, thrd_conn_mtx, loop, online, semVars,
                 once, spur>>

xmpp_connect_client ==
  /\ TGoto("connect", "run") \/ TGoto("connect", "sleep")
  /\ UNCHANGED <<envVars, cfgVars, mpc, thrd_conn_mtx, do_reconnect, loop,
                 online, semVars, once, spur>>

\* xmpp_run starts the event loop.
RunStart ==
  /\ TGoto("run", "loop")
  /\ loop' = "running"
  /\ UNCHANGED <<envVars, cfgVars, mpc, thrd_conn_mtx, do_reconnect, online,
                 semVars, once, spur>>

\* XMPP_CONN_CONNECT: the signal is given without the mutex and is lost when
\* main() does not wait.
Connected ==
  /\ tpc = "loop" /\ loop = "running"
  /\ ~online /\ online' = TRUE /\ once' = TRUE
  /\ mpc' = IF mpc = "waiting" THEN "woken" ELSE mpc
  /\ UNCHANGED <<envVars, cfgVars, tpc, thrd_conn_mtx, do_reconnect, loop,
                 semVars, spur>>

\* The stream ends, or was never established.
Lost ==
  /\ TGoto("loop", "disconnect")
  /\ online' = FALSE
  /\ UNCHANGED <<envVars, cfgVars, mpc, thrd_conn_mtx, do_reconnect, loop,
                 semVars, once, spur>>

\* A stanza that is answered while the stream is up: a command, ...
Answer(to) ==
  /\ online /\ loop = "running"
  /\ TGoto("loop", to)
  /\ UNCHANGED <<envVars, cfgVars, mpc, thrd_conn_mtx, do_reconnect, loop,
                 online, semVars, once, spur>>

StatusCommand == Answer("cb_wait")
ConfigCommand == Answer("cfg_status")

\* ... "ping", "version", "help" and the like, an iq or a presence.
OtherStanza == Answer("reply")

OtherReply ==
  /\ TGoto("reply", "loop")
  /\ UNCHANGED <<envVars, cfgVars, mpc, thrd_conn_mtx, do_reconnect, loop,
                 online, semVars, once, spur>>

\* "status" is answered under the semaphore, if there is one.
CallbackWait ==
  /\ TGoto("cb_wait", "cb_send")
  /\ SemWait
  /\ UNCHANGED <<envVars, cfgVars, mpc, thrd_conn_mtx, do_reconnect, loop,
                 online, once, spur>>

\* Mutant: the command callback posts twice.
CallbackPostTwice ==
  /\ TGoto("cb_send", "loop")
  /\ sem' = IF made THEN sem + 2 ELSE sem
  /\ UNCHANGED <<envVars, cfgVars, mpc, thrd_conn_mtx, do_reconnect, loop,
                 online, made, due, why, once, spur>>

CallbackPost ==
  /\ TGoto("cb_send", "loop")
  /\ SemPost
  /\ UNCHANGED <<envVars, cfgVars, mpc, thrd_conn_mtx, do_reconnect, loop,
                 online, once, spur>>

\* Mutants: "config" takes the mutexes in the other order; it takes none.
ConfigLockReversed ==
  /\ \/ /\ TGoto("cfg_status", "cfg_alarm")
        /\ mtx_alarm = "none" /\ mtx_alarm' = "conn" /\ UNCHANGED mtx_status
     \/ /\ TGoto("cfg_alarm", "cfg_first")
        /\ mtx_status = "none" /\ mtx_status' = "conn" /\ UNCHANGED mtx_alarm
  /\ UNCHANGED <<envVars, settings, shown, mpc, thrd_conn_mtx, do_reconnect,
                 loop, online, semVars, once, spur>>

ConfigLockNone ==
  /\ TGoto("cfg_status", "cfg_first")
  /\ UNCHANGED <<envVars, cfgVars, mpc, thrd_conn_mtx, do_reconnect, loop,
                 online, semVars, once, spur>>

\* "config" is answered under both mutexes.
ConfigLock ==
  /\ \/ /\ TGoto("cfg_status", "cfg_alarm")
        /\ mtx_status = "none" /\ mtx_status' = "conn" /\ UNCHANGED mtx_alarm
     \/ /\ TGoto("cfg_alarm", "cfg_first")
        /\ mtx_alarm = "none" /\ mtx_alarm' = "conn" /\ UNCHANGED mtx_status
  /\ UNCHANGED <<envVars, settings, shown, mpc, thrd_conn_mtx, do_reconnect,
                 loop, online, semVars, once, spur>>

ConfigRead ==
  /\ \/ TGoto("cfg_first", "cfg_second") /\ shown' = [shown EXCEPT ![1] = settings[1]]
     \/ TGoto("cfg_second", "cfg_send") /\ shown' = [shown EXCEPT ![2] = settings[2]]
  /\ UNCHANGED <<envVars, mtx_status, mtx_alarm, settings, mpc, thrd_conn_mtx,
                 do_reconnect, loop, online, semVars, once, spur>>

ConfigSend ==
  /\ TGoto("cfg_send", "loop")
  /\ shown' = [n \in 1 .. 2 |-> 0]
  /\ mtx_status' = "none" /\ mtx_alarm' = "none"
  /\ UNCHANGED <<envVars, settings, mpc, thrd_conn_mtx, do_reconnect, loop,
                 online, semVars, once, spur>>

\* xmpp_stop was called: xmpp_run returns between two events.
RunQuit ==
  /\ loop = "quit"
  /\ TGoto("loop", "disconnect")
  /\ UNCHANGED <<envVars, cfgVars, mpc, thrd_conn_mtx, do_reconnect, loop,
                 online, semVars, once, spur>>

Disconnect ==
  /\ TGoto("disconnect", "sleep")
  /\ online' = FALSE /\ loop' = "idle"
  /\ UNCHANGED <<envVars, cfgVars, mpc, thrd_conn_mtx, do_reconnect, semVars,
                 once, spur>>

\* Mutant: the flag is set in every turn of the loop.
ConnectAgainAlways ==
  /\ TGoto("sleep", "connect")
  /\ do_reconnect' = TRUE
  /\ UNCHANGED <<envVars, cfgVars, mpc, thrd_conn_mtx, loop, online, semVars,
                 once, spur>>

\* while (do_reconnect != 0); the thread that goes down unlocks the mutex.
ConnectAgain ==
  /\ IF do_reconnect
       THEN TGoto("sleep", "connect") /\ UNCHANGED thrd_conn_mtx
       ELSE TGoto("sleep", "done") /\ thrd_conn_mtx' = FALSE
  /\ UNCHANGED <<envVars, cfgVars, mpc, do_reconnect, loop, online, semVars,
                 once, spur>>

-----------------------------------------------------------------------------
MainStart == CheckOptions \/ irxmpp_check_passwd_file \/ irxmpp_startThread
             \/ irxmpp_thread_connect_wait \/ ConnectWaitEnds
             \/ MakeSemaphore \/ MakeSemaphoreFails \/ PostSemaphore
MainHup   == HupLock \/ HupCopy
MainStop  == StopLoop \/ StopJoin

\* What the connection thread does by itself.
Thread ==
  \/ ConnectBegin \/ xmpp_connect_client \/ RunStart \/ CallbackWait
  \/ CallbackPost \/ ConfigLock \/ ConfigRead \/ ConfigSend \/ OtherReply
  \/ RunQuit \/ Disconnect \/ ConnectAgain

Main ==
  \/ MainStart \/ SpuriousWake \/ CycleLock \/ doAlarmAction \/ CycleEnd
  \/ HupBegin \/ MainHup \/ StopClear \/ MainStop

Server == Connected \/ Lost \/ StatusCommand \/ ConfigCommand \/ OtherStanza

Others == LatePost \/ ProbeRemoves

Next == Main \/ Thread \/ Server \/ Others

Spec == Init /\ [][Next]_vars

\* Threads run, waiters for a semaphore or mutex are served in turn, and an
\* attempt to connect succeeds or fails in the end.  An established stream need not end.
FairSpec ==
  /\ Spec
  /\ WF_vars(MainStart) /\ WF_vars(CycleEnd) /\ WF_vars(MainStop)
  /\ SF_vars(MainHup) /\ SF_vars(Thread)
  /\ WF_vars(Connected \/ (~online /\ Lost))

-----------------------------------------------------------------------------
\* The alarm and the answer to "status" are not put into libstrophe's queue at
\* the same time, which knows no locks: doAlarmAction and the callback send
\* while they hold the semaphore.  Nothing else than a "status" that straddles
\* semget, a set that was found with a value or with posts still due, and one
\* that a probe removes can bring them together.  (The other answers are sent
\* without it.)
SendsDoNotMix == mpc = "sending" /\ tpc = "cb_send" => why # {}

\* The answer to "config" shows the settings before or after a SIGHUP, never
\* some of each.
ConfigIsSnapshot == tpc = "cfg_send" => shown[1] = shown[2]

\* The SIGHUP handler returns: it never waits for ever for "config", which needs
\* the same two mutexes.
HupReturns == (mpc = "hup_status") ~> (mpc = "sleep")

\* The daemon does not go on before the connection was up: what
\* irxmpp_thread_connect_wait is for, although it tests no predicate; only a
\* spurious wake-up gets past it.
StartsConnected == mpc \notin StartPC \cup {"failed"} => once \/ spur

\* irxmpp_stopThread's do_reconnect = 0 is not overwritten by the thread's own
\* do_reconnect = 1: nothing but the wait for the connection orders the two.
StopIsNotUndone == mpc \in StopPC => ~do_reconnect \/ spur

\* SIGTERM ends the thread, whatever it is doing, if every stream ends some
\* time: xmpp_stop may come too early, between two connections, and then the
\* thread connects once more and stays in xmpp_run as long as the stream is up.
StopEnds == []<>(~online) => ((mpc = "xstop") ~> (mpc = "exit" \/ spur))

\* The daemon's start ends if streams come and go: main() may miss the signal
\* of the first connection, never that of all of them.
StartEnds == ([]<>online /\ []<>(~online)) => <>(mpc \notin StartPC)
=============================================================================
