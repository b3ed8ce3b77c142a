---------------------------- MODULE IrXmppProofs ----------------------------
(* The start, the commands, the SIGHUP handler and the stop of the           *)
(* connection thread, for all options and modes, spurious wake-ups included. *)
EXTENDS IrXmpp, TLAPS

FlowTypes == mpc \in MainPC /\ tpc \in ThreadPC /\ made \in BOOLEAN
             /\ sem \in Nat /\ due \in Nat

\* main() will post the semaphore, or the callback will.
MainOwes == IF mpc \in {"post", "body", "sending"} THEN 1 ELSE 0
ConnOwes == IF tpc = "cb_send" THEN 1 ELSE 0

\* main() cycles with a semaphore, unless it was removed; and as long as nothing has
\* disturbed it there is one token.
SemInv ==
  /\ made => mpc \in {"post", "sleep", "body", "sending"} \cup HupPC \cup StopPC
  /\ mpc \in {"post", "sleep", "body", "sending"} \cup HupPC => made \/ why # {}
  /\ made /\ why = {} => sem + MainOwes + ConnOwes = 1 /\ due = 0

\* There is no connection thread before main() starts it.
NotStarted == mpc \in {"options", "check", "start"} => tpc = "none"

FlowInv == FlowTypes /\ SemInv /\ NotStarted

\* main() is past pthread_cond_wait.
Woken == mpc \in StopPC \cup HupPC \cup {"woken", "setup", "post", "sleep", "body", "sending"}

\* Being woken by a signal means having been connected, which means that the thread is past
\* its do_reconnect = 1.
OrderInv ==
  /\ Woken => once \/ spur
  /\ once => tpc \notin {"none", "begin"}

StopInv == OrderInv /\ StopIsNotUndone

\* Who has which mutex, and what the mutexes protect.
CfgTypes ==
  /\ mtx_status \in {"none", "main", "conn"} /\ mtx_alarm \in {"none", "main", "conn"}
  /\ settings \in [1 .. 2 -> 0 .. 1] /\ shown \in [1 .. 2 -> 0 .. 1]

LockInv ==
  /\ mtx_status = "main" <=> mpc \in {"hup_alarm", "hup_first", "hup_second"}
  /\ mtx_alarm = "main" <=> mpc \in {"hup_first", "hup_second"}
  /\ mtx_status = "conn" <=> tpc \in {"cfg_alarm", "cfg_first", "cfg_second", "cfg_send"}
  /\ mtx_alarm = "conn" <=> tpc \in {"cfg_first", "cfg_second", "cfg_send"}

DataInv ==
  /\ settings[1] = IF mpc = "hup_second" THEN 1 - settings[2] ELSE settings[2]
  /\ tpc \in {"cfg_second", "cfg_send"} => shown[1] = settings[1]
  /\ tpc = "cfg_send" => shown[2] = settings[2]

CfgInv == CfgTypes /\ LockInv /\ DataInv

LEMMA InitXmpp == Init => FlowInv /\ StopInv /\ CfgInv
<1> SUFFICES ASSUME Init PROVE FlowInv /\ StopInv /\ CfgInv
  OBVIOUS
<1>1. FlowInv
  <2>1. FlowTypes
    <3>1. mpc \in MainPC /\ tpc \in ThreadPC
      BY DEF Init, MainPC, StartPC, ThreadPC
    <3>2. made \in BOOLEAN
      BY Zenon DEF Init
    <3>3. sem \in Nat /\ due \in Nat
      BY DEF Init
    <3> QED
      BY <3>1, <3>2, <3>3 DEF FlowTypes
  <2>2. SemInv
    BY DEF Init, SemInv, HupPC, StopPC
  <2> QED
    BY <2>1, <2>2 DEF Init, FlowInv, NotStarted
<1>2. StopInv
  BY DEF Init, StopInv, OrderInv, Woken, StopIsNotUndone, StopPC, HupPC
<1>3. CfgInv
  <2>1. CfgTypes
    BY DEF Init, CfgTypes
  <2>2. LockInv
    BY DEF Init, LockInv
  <2>3. DataInv
    BY DEF Init, DataInv
  <2> QED
    BY <2>1, <2>2, <2>3 DEF CfgInv
<1> QED
  BY <1>1, <1>2, <1>3

\* Steps of main().
LEMMA MainFlow ==
  ASSUME FlowInv, Main PROVE FlowInv'
<1> USE DEF FlowInv, FlowTypes, SemInv, NotStarted, MainPC, StartPC, StopPC,
            HupPC, ThreadPC, MainOwes, ConnOwes, MGoto, envVars, cfgVars, semVars
<1>1. CASE CheckOptions
  BY <1>1 DEF CheckOptions
<1>2. CASE irxmpp_check_passwd_file
  BY <1>2 DEF irxmpp_check_passwd_file
<1>3. CASE irxmpp_startThread
  BY <1>3 DEF irxmpp_startThread
<1>4. CASE irxmpp_thread_connect_wait
  BY <1>4 DEF irxmpp_thread_connect_wait
<1>5. CASE ConnectWaitEnds
  BY <1>5 DEF ConnectWaitEnds
<1>6. CASE SpuriousWake
  BY <1>6 DEF SpuriousWake
<1>7. CASE MakeSemaphore
  <2>1. /\ sem' \in Nat /\ due' \in Nat /\ made' = TRUE
        /\ tpc' = tpc /\ mpc' = "post"
    BY <1>7, XmppAssumption DEF MakeSemaphore
  <2>2. why' = {} => sem' = 0 /\ due' = 0 /\ tpc # "cb_send"
    BY <1>7, <2>1 DEF MakeSemaphore
  <2>3. SemInv' /\ NotStarted'
    <3>1. CASE why' = {}
      <4>1. MainOwes' = 1 /\ ConnOwes' = 0
        BY <2>1, <2>2, <3>1
      <4> QED
        BY <2>1, <2>2, <3>1, <4>1
    <3>2. CASE why' # {}
      BY <2>1, <3>2
    <3> QED
      BY <3>1, <3>2
  <2> QED
    BY <2>1, <2>3
<1>8. CASE PostSemaphore
  BY <1>8 DEF PostSemaphore, SemPost
<1>9. CASE CycleLock
  BY <1>9 DEF CycleLock, SemWait
<1>10. CASE doAlarmAction
  BY <1>10 DEF doAlarmAction
<1>11. CASE CycleEnd
  BY <1>11 DEF CycleEnd, SemPost
<1>12. CASE HupBegin
  BY <1>12 DEF HupBegin
<1>13. CASE HupLock
  BY <1>13 DEF HupLock
<1>14. CASE HupCopy
  BY <1>14 DEF HupCopy
<1>15. CASE StopClear
  BY <1>15 DEF StopClear
<1>16. CASE StopLoop
  BY <1>16 DEF StopLoop
<1>17. CASE StopJoin
  BY <1>17 DEF StopJoin
<1>18. CASE MakeSemaphoreFails
  BY <1>18 DEF MakeSemaphoreFails
<1> QED
  BY <1>1, <1>2, <1>3, <1>4, <1>5, <1>6, <1>7, <1>8, <1>9, <1>10, <1>11,
      <1>12, <1>13, <1>14, <1>15, <1>16, <1>17, <1>18 DEF Main, MainStart, MainHup,
      MainStop

\* Steps of the connection thread, of the server and of the semaphore's other users.
LEMMA ThreadFlow ==
  ASSUME FlowInv, Thread \/ Server \/ Others
  PROVE  FlowInv'
<1> USE DEF FlowInv, FlowTypes, SemInv, NotStarted, MainPC, StartPC, StopPC,
            HupPC, ThreadPC, MainOwes, ConnOwes, TGoto, envVars, cfgVars, semVars
<1>1. CASE ConnectBegin
  BY <1>1 DEF ConnectBegin
<1>2. CASE xmpp_connect_client
  BY <1>2 DEF xmpp_connect_client
<1>3. CASE RunStart
  BY <1>3 DEF RunStart
<1>4. CASE CallbackWait
  BY <1>4 DEF CallbackWait, SemWait
<1>5. CASE CallbackPost
  BY <1>5 DEF CallbackPost, SemPost
<1>6. CASE ConfigLock
  BY <1>6 DEF ConfigLock
<1>7. CASE ConfigRead
  BY <1>7 DEF ConfigRead
<1>8. CASE ConfigSend
  BY <1>8 DEF ConfigSend
<1>9. CASE OtherReply
  BY <1>9 DEF OtherReply
<1>10. CASE RunQuit
  BY <1>10 DEF RunQuit
<1>11. CASE Disconnect
  BY <1>11 DEF Disconnect
<1>12. CASE ConnectAgain
  BY <1>12 DEF ConnectAgain
<1>13. CASE Connected
  BY <1>13 DEF Connected
<1>14. CASE Lost
  BY <1>14 DEF Lost
<1>15. CASE StatusCommand
  BY <1>15 DEF StatusCommand, Answer
<1>16. CASE ConfigCommand
  BY <1>16 DEF ConfigCommand, Answer
<1>17. CASE OtherStanza
  BY <1>17 DEF OtherStanza, Answer
<1>18. CASE LatePost
  BY <1>18 DEF LatePost
<1>19. CASE ProbeRemoves
  BY <1>19 DEF ProbeRemoves
<1> QED
  BY <1>1, <1>2, <1>3, <1>4, <1>5, <1>6, <1>7, <1>8, <1>9, <1>10, <1>11,
      <1>12, <1>13, <1>14, <1>15, <1>16, <1>17, <1>18, <1>19
  DEF Thread, Server, Others

LEMMA NextFlow == FlowInv /\ [Next]_vars => FlowInv'
<1> SUFFICES ASSUME FlowInv, [Next]_vars PROVE FlowInv'
  OBVIOUS
<1>1. CASE UNCHANGED vars
  BY <1>1 DEF vars, envVars, cfgVars, semVars, FlowInv, FlowTypes, SemInv,
              MainOwes, ConnOwes, NotStarted
<1> QED
  BY <1>1, MainFlow, ThreadFlow DEF Next

\* Only irxmpp_startThread takes tpc to "begin", and only before main() waits.
LEMMA MainOrder ==
  ASSUME FlowInv, StopInv, Main PROVE StopInv'
<1> USE DEF StopInv, OrderInv, Woken, StopIsNotUndone, FlowInv, FlowTypes,
            NotStarted, MainPC, StartPC, StopPC, HupPC, MGoto, envVars, cfgVars, semVars
<1>1. CASE CheckOptions
  BY <1>1 DEF CheckOptions
<1>2. CASE irxmpp_check_passwd_file
  BY <1>2 DEF irxmpp_check_passwd_file
<1>3. CASE irxmpp_startThread
  BY <1>3 DEF irxmpp_startThread
<1>4. CASE irxmpp_thread_connect_wait
  BY <1>4 DEF irxmpp_thread_connect_wait
<1>5. CASE ConnectWaitEnds
  BY <1>5 DEF ConnectWaitEnds
<1>6. CASE SpuriousWake
  BY <1>6 DEF SpuriousWake
<1>7. CASE MakeSemaphore
  BY <1>7 DEF MakeSemaphore
<1>8. CASE PostSemaphore
  BY <1>8 DEF PostSemaphore, SemPost
<1>9. CASE CycleLock
  BY <1>9 DEF CycleLock, SemWait
<1>10. CASE doAlarmAction
  BY <1>10 DEF doAlarmAction
<1>11. CASE CycleEnd
  BY <1>11 DEF CycleEnd, SemPost
<1>12. CASE HupBegin
  BY <1>12 DEF HupBegin
<1>13. CASE HupLock
  BY <1>13 DEF HupLock
<1>14. CASE HupCopy
  BY <1>14 DEF HupCopy
<1>15. CASE StopClear
  BY <1>15 DEF StopClear
<1>16. CASE StopLoop
  BY <1>16 DEF StopLoop
<1>17. CASE StopJoin
  BY <1>17 DEF StopJoin
<1>18. CASE MakeSemaphoreFails
  BY <1>18 DEF MakeSemaphoreFails
<1> QED
  BY <1>1, <1>2, <1>3, <1>4, <1>5, <1>6, <1>7, <1>8, <1>9, <1>10, <1>11,
      <1>12, <1>13, <1>14, <1>15, <1>16, <1>17, <1>18 DEF Main, MainStart, MainHup,
      MainStop

\* ConnectBegin, which sets do_reconnect, comes before the first connection.
LEMMA ThreadOrder ==
  ASSUME FlowInv, StopInv, Thread \/ Server \/ Others
  PROVE  StopInv'
<1> USE DEF StopInv, OrderInv, Woken, StopIsNotUndone, StartPC, StopPC, HupPC, TGoto,
            envVars, cfgVars, semVars
<1>1. CASE ConnectBegin
  BY <1>1 DEF ConnectBegin
<1>2. CASE xmpp_connect_client
  BY <1>2 DEF xmpp_connect_client
<1>3. CASE RunStart
  BY <1>3 DEF RunStart
<1>4. CASE CallbackWait
  BY <1>4 DEF CallbackWait, SemWait
<1>5. CASE CallbackPost
  BY <1>5 DEF CallbackPost, SemPost
<1>6. CASE ConfigLock
  BY <1>6 DEF ConfigLock
<1>7. CASE ConfigRead
  BY <1>7 DEF ConfigRead
<1>8. CASE ConfigSend
  BY <1>8 DEF ConfigSend
<1>9. CASE OtherReply
  BY <1>9 DEF OtherReply
<1>10. CASE RunQuit
  BY <1>10 DEF RunQuit
<1>11. CASE Disconnect
  BY <1>11 DEF Disconnect
<1>12. CASE ConnectAgain
  BY <1>12 DEF ConnectAgain
<1>13. CASE Connected
  BY <1>13 DEF Connected
<1>14. CASE Lost
  BY <1>14 DEF Lost
<1>15. CASE StatusCommand
  BY <1>15 DEF StatusCommand, Answer
<1>16. CASE ConfigCommand
  BY <1>16 DEF ConfigCommand, Answer
<1>17. CASE OtherStanza
  BY <1>17 DEF OtherStanza, Answer
<1>18. CASE LatePost
  BY <1>18 DEF LatePost
<1>19. CASE ProbeRemoves
  BY <1>19 DEF ProbeRemoves
<1> QED
  BY <1>1, <1>2, <1>3, <1>4, <1>5, <1>6, <1>7, <1>8, <1>9, <1>10, <1>11,
      <1>12, <1>13, <1>14, <1>15, <1>16, <1>17, <1>18, <1>19
  DEF Thread, Server, Others

LEMMA NextOrder ==
  FlowInv /\ StopInv /\ [Next]_vars => StopInv'
<1> SUFFICES ASSUME FlowInv, StopInv, [Next]_vars PROVE StopInv'
  OBVIOUS
<1>1. CASE UNCHANGED vars
  BY <1>1 DEF vars, envVars, cfgVars, semVars, StopInv, OrderInv, Woken, StopIsNotUndone
<1> QED
  BY <1>1, MainOrder, ThreadOrder DEF Next

\* The handler changes the settings while it has both mutexes, hence not while
\* the answer to "config" is put together.
LEMMA MainCfg ==
  ASSUME FlowInv, CfgInv, Main PROVE CfgInv'
<1> USE DEF FlowInv, NotStarted, CfgInv, CfgTypes, LockInv, DataInv, MGoto, envVars, cfgVars, semVars
<1>1. CASE CheckOptions
  BY <1>1 DEF CheckOptions
<1>2. CASE irxmpp_check_passwd_file
  BY <1>2 DEF irxmpp_check_passwd_file
<1>3. CASE irxmpp_startThread
  BY <1>3 DEF irxmpp_startThread
<1>4. CASE irxmpp_thread_connect_wait
  BY <1>4 DEF irxmpp_thread_connect_wait
<1>5. CASE ConnectWaitEnds
  BY <1>5 DEF ConnectWaitEnds
<1>6. CASE SpuriousWake
  BY <1>6 DEF SpuriousWake
<1>7. CASE MakeSemaphore
  BY <1>7 DEF MakeSemaphore
<1>8. CASE PostSemaphore
  BY <1>8 DEF PostSemaphore, SemPost
<1>9. CASE CycleLock
  BY <1>9 DEF CycleLock, SemWait
<1>10. CASE doAlarmAction
  BY <1>10 DEF doAlarmAction
<1>11. CASE CycleEnd
  BY <1>11 DEF CycleEnd, SemPost
<1>12. CASE HupBegin
  BY <1>12 DEF HupBegin
<1>13. CASE HupLock
  BY <1>13 DEF HupLock
<1>14. CASE HupCopy
  BY <1>14 DEF HupCopy
<1>15. CASE StopClear
  BY <1>15 DEF StopClear
<1>16. CASE StopLoop
  BY <1>16 DEF StopLoop
<1>17. CASE StopJoin
  BY <1>17 DEF StopJoin
<1>18. CASE MakeSemaphoreFails
  BY <1>18 DEF MakeSemaphoreFails
<1> QED
  BY <1>1, <1>2, <1>3, <1>4, <1>5, <1>6, <1>7, <1>8, <1>9, <1>10, <1>11,
      <1>12, <1>13, <1>14, <1>15, <1>16, <1>17, <1>18 DEF Main, MainStart, MainHup,
      MainStop

LEMMA ThreadCfg ==
  ASSUME CfgInv, Thread \/ Server \/ Others
  PROVE  CfgInv'
<1> USE DEF CfgInv, CfgTypes, LockInv, DataInv, TGoto, envVars, cfgVars, semVars
<1>1. CASE ConnectBegin
  BY <1>1 DEF ConnectBegin
<1>2. CASE xmpp_connect_client
  BY <1>2 DEF xmpp_connect_client
<1>3. CASE RunStart
  BY <1>3 DEF RunStart
<1>4. CASE CallbackWait
  BY <1>4 DEF CallbackWait, SemWait
<1>5. CASE CallbackPost
  BY <1>5 DEF CallbackPost, SemPost
<1>6. CASE ConfigLock
  BY <1>6 DEF ConfigLock
<1>7. CASE ConfigRead
  BY <1>7 DEF ConfigRead
<1>8. CASE ConfigSend
  BY <1>8 DEF ConfigSend
<1>9. CASE OtherReply
  BY <1>9 DEF OtherReply
<1>10. CASE RunQuit
  BY <1>10 DEF RunQuit
<1>11. CASE Disconnect
  BY <1>11 DEF Disconnect
<1>12. CASE ConnectAgain
  BY <1>12 DEF ConnectAgain
<1>13. CASE Connected
  BY <1>13 DEF Connected
<1>14. CASE Lost
  BY <1>14 DEF Lost
<1>15. CASE StatusCommand
  BY <1>15 DEF StatusCommand, Answer
<1>16. CASE ConfigCommand
  BY <1>16 DEF ConfigCommand, Answer
<1>17. CASE OtherStanza
  BY <1>17 DEF OtherStanza, Answer
<1>18. CASE LatePost
  BY <1>18 DEF LatePost
<1>19. CASE ProbeRemoves
  BY <1>19 DEF ProbeRemoves
<1> QED
  BY <1>1, <1>2, <1>3, <1>4, <1>5, <1>6, <1>7, <1>8, <1>9, <1>10, <1>11,
      <1>12, <1>13, <1>14, <1>15, <1>16, <1>17, <1>18, <1>19
  DEF Thread, Server, Others

LEMMA NextCfg == FlowInv /\ CfgInv /\ [Next]_vars => CfgInv'
<1> SUFFICES ASSUME FlowInv, CfgInv, [Next]_vars PROVE CfgInv'
  OBVIOUS
<1>1. CASE UNCHANGED vars
  BY <1>1 DEF vars, envVars, cfgVars, semVars, CfgInv, CfgTypes, LockInv, DataInv
<1> QED
  BY <1>1, MainCfg, ThreadCfg DEF Next

LEMMA FlowInvariant == Spec => []FlowInv
<1>1. Init => FlowInv
  BY InitXmpp
<1> QED
  BY <1>1, NextFlow, PTL DEF Spec

LEMMA StopInvariant == Spec => []StopInv
<1>1. Init => StopInv
  BY InitXmpp
<1>2. FlowInv /\ StopInv /\ [Next]_vars => StopInv'
  BY NextOrder
<1> QED
  BY <1>1, <1>2, FlowInvariant, PTL DEF Spec

LEMMA CfgInvariant == Spec => []CfgInv
<1>1. Init => CfgInv
  BY InitXmpp
<1> QED
  BY <1>1, NextCfg, FlowInvariant, PTL DEF Spec

\* doAlarmAction and the "status" command never use libstrophe's queue at once:
\* together they would owe the semaphore two tokens, and it has one, unless it was
\* found with more, was posted by somebody who had not waited for it, or was removed.
THEOREM SendsAreSerialized == Spec => []SendsDoNotMix
<1>1. FlowInv => SendsDoNotMix
  BY DEF FlowInv, FlowTypes, SemInv, MainOwes, ConnOwes, SendsDoNotMix, HupPC, StopPC
<1> QED
  BY <1>1, FlowInvariant, PTL

\* The answer to "config" never mixes the settings before and after a SIGHUP.
THEOREM ConfigIsConsistent == Spec => []ConfigIsSnapshot
<1>1. CfgInv => ConfigIsSnapshot
  BY DEF CfgInv, LockInv, DataInv, ConfigIsSnapshot
<1> QED
  BY <1>1, CfgInvariant, PTL

\* main() leaves irxmpp_thread_connect_wait only after the connection handler
\* reported a connection, or by a spurious wake-up.
THEOREM ConnectedBeforeLoop == Spec => []StartsConnected
<1>1. FlowInv /\ StopInv => StartsConnected
  BY DEF StopInv, OrderInv, Woken, StartsConnected, FlowInv, FlowTypes, MainPC
<1> QED
  BY <1>1, FlowInvariant, StopInvariant, PTL

\* The thread's do_reconnect = 1 never follows irxmpp_stopThread's
\* do_reconnect = 0, unless main() woke spuriously.
THEOREM StopStays == Spec => []StopIsNotUndone
<1>1. StopInv => StopIsNotUndone
  BY DEF StopInv
<1> QED
  BY <1>1, StopInvariant, PTL
=============================================================================
