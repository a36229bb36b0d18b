---------------------------- MODULE TimeSyncProofs ----------------------------
(***************************************************************************)
(* Proofs about TimeSync, for any number of retries: the types, that the   *)
(* TCP/IP thread uses nothing that the main task has freed, that an early  *)
(* return means an answer, and that a return is the end of SNTP's hold on  *)
(* the clock.                                                              *)
(***************************************************************************)
EXTENDS TimeSync, TLAPS

(* What the main task has done with the storage and the client, by where   *)
(* it is.                                                                  *)
Serving == {"wait", "deinit", "unhook", "stop"}

StorageFollowsMain ==
  /\ main \in {"wait", "deinit"} => storage = "live"
  /\ main \in {"unhook", "stop"} => storage = "detached"

ClientFollowsMain ==
  /\ sntp.pcb = TRUE => main \in Serving
  /\ net # "idle" => main \in Serving

RetryIsLeft == main \in {"init", "wait"} => retry < retry_count

Answered == clock = "right" \/ slewing = TRUE

AnswerBeforeSignal ==
  /\ net # "idle" => Answered
  /\ sync_sem = "given" => Answered
  /\ ret \in {"ESP_OK", "ESP_ERR_NOT_FINISHED"} => Answered

IInv ==
  /\ TypeOK
  /\ StorageFollowsMain
  /\ ClientFollowsMain
  /\ RetryIsLeft
  /\ AnswerBeforeSignal

LEMMA InitEstablishes == Init => IInv
  <1> SUFFICES ASSUME Init PROVE IInv
    OBVIOUS
  <1>1. sntp \in Clients /\ sntp.pcb = FALSE
    BY DEF Init, Off, Clients
  <1>2. hook \in BOOLEAN /\ reply \in BOOLEAN /\ slewing \in BOOLEAN
    BY DEF Init
  <1>3. TypeOK
    BY <1>1, <1>2, RetryAssumption DEF Init, TypeOK, Stages, Returns, Callbacks
  <1>4. /\ StorageFollowsMain /\ ClientFollowsMain /\ RetryIsLeft
        /\ AnswerBeforeSignal
    BY <1>1, RetryAssumption
    DEF Init, RetryIsLeft, StorageFollowsMain, ClientFollowsMain, AnswerBeforeSignal
  <1> QED
    BY <1>3, <1>4 DEF IInv

LEMMA MainPreserves == IInv /\ MainStep => IInv'
  <1> SUFFICES ASSUME IInv, MainStep PROVE IInv'
    OBVIOUS
  <1> USE RetryAssumption
      DEF IInv, StorageFollowsMain, ClientFollowsMain, RetryIsLeft,
              AnswerBeforeSignal, Answered, Serving
  <1>1. CASE Start
    BY <1>1 DEF Start, NewSemaphore, TypeOK, Clients, Stages, clockVars
  <1>2. CASE StartFails
    BY <1>2 DEF StartFails, TypeOK, Stages, Returns, clockVars
  <1>3. CASE WaitEnds
    BY <1>3 DEF WaitEnds, TypeOK, Stages, Returns
  <1>4. CASE WaitTimesOut
    <2>1. retry < retry_count
      BY <1>4 DEF WaitTimesOut
    <2>2. retry' \in 0..retry_count
      BY <1>4, <2>1 DEF WaitTimesOut, RetryAfter, TypeOK
    <2>3. main' \in {"wait", "deinit"} /\ (main' = "wait" => retry' < retry_count)
      BY <1>4 DEF WaitTimesOut, MayWaitAgain
    <2> QED
      BY <1>4, <2>2, <2>3 DEF WaitTimesOut, TypeOK, Stages, Returns, clockVars
  <1>5. CASE Detach
    BY <1>5 DEF Detach, TypeOK, Stages, clockVars
  <1>6. CASE Unhook
    BY <1>6 DEF Unhook, TypeOK, Stages, clockVars
  <1>7. CASE Stop
    BY <1>7 DEF Stop, Off, TypeOK, Clients, Stages, clockVars
  <1>8. CASE Delete
    BY <1>8 DEF Delete, TypeOK, Stages, clockVars
  <1>9. CASE SetTimezone
    BY <1>9 DEF SetTimezone, TypeOK, Stages, clockVars
  <1> QED
    BY <1>1, <1>2, <1>3, <1>4, <1>5, <1>6, <1>7, <1>8, <1>9 DEF MainStep

(* A request that is sent, or not, leaves a client that is one.            *)
LEMMA SendRequestTypes ==
  ASSUME NEW client \in Clients, reply \in BOOLEAN, SendRequest(client)
  PROVE  sntp' \in Clients /\ sntp'.pcb = client.pcb /\ reply' \in BOOLEAN
  <1>1. sntp' \in Clients /\ sntp'.pcb = client.pcb
    BY DEF SendRequest, Clients
  <1>2. reply' \in BOOLEAN
    BY DEF SendRequest
  <1> QED
    BY <1>1, <1>2

LEMMA NetPreserves == IInv /\ NetStep => IInv'
  <1> SUFFICES ASSUME IInv, NetStep PROVE IInv'
    OBVIOUS
  <1> USE DEF IInv, StorageFollowsMain, ClientFollowsMain, RetryIsLeft,
              AnswerBeforeSignal, Answered, Serving, TypeOK, Idle, Callback,
              mainVars, clockVars
  <1>1. CASE RequestTimer
    <2> DEFINE fired == [sntp EXCEPT !.request = FALSE]
    <2>1. fired \in Clients /\ fired.pcb = sntp.pcb
      BY DEF Clients
    <2> HIDE DEF fired
    <2>2. sntp' \in Clients /\ sntp'.pcb = sntp.pcb /\ reply' \in BOOLEAN
      <3>1. CASE SendRequest(fired)
        BY <2>1, <3>1, SendRequestTypes
      <3>2. CASE sntp' = [fired EXCEPT !.dns = TRUE] /\ UNCHANGED reply
        BY <2>1, <3>2 DEF Clients
      <3>3. CASE sntp' = [fired EXCEPT !.recv = TRUE] /\ UNCHANGED reply
        BY <2>1, <3>3 DEF Clients
      <3> QED
        BY <1>1, <3>1, <3>2, <3>3 DEF RequestTimer, fired
    <2> QED
      BY <1>1, <2>2 DEF RequestTimer
  <1>2. CASE RecvTimer
    <2>1. sntp' \in Clients /\ sntp'.pcb = sntp.pcb
      BY <1>2 DEF RecvTimer, Clients
    <2> QED
      BY <1>2, <2>1 DEF RecvTimer
  <1>3. CASE DnsFound
    <2> DEFINE found == [sntp EXCEPT !.dns = FALSE]
    <2>1. found \in Clients /\ found.pcb = sntp.pcb
      BY DEF Clients
    <2> HIDE DEF found
    <2>2. sntp' \in Clients /\ sntp'.pcb = sntp.pcb /\ reply' \in BOOLEAN
      <3>1. CASE SendRequest(found)
        BY <2>1, <3>1, SendRequestTypes
      <3>2. CASE sntp' = [found EXCEPT !.request = TRUE] /\ UNCHANGED reply
        BY <2>1, <3>2 DEF Clients
      <3> QED
        BY <1>3, <3>1, <3>2 DEF DnsFound, found
    <2> QED
      BY <1>3, <2>2 DEF DnsFound
  <1>4. CASE ReceiveTime
    BY <1>4 DEF ReceiveTime, SetClock, Callbacks
  <1>5. CASE ReceiveKissOfDeath
    BY <1>5 DEF ReceiveKissOfDeath, Clients
  <1>6. CASE LoseReply
    BY <1>6 DEF LoseReply
  <1>7. CASE TestHook \/ TestSemaphore \/ Give \/ TestCallback \/ Notify
    BY <1>7 DEF TestHook, TestSemaphore, Give, TestCallback, Notify, Callbacks
  <1>8. CASE Rearm
    BY <1>8 DEF Rearm, Callbacks, Clients
  <1> QED
    BY <1>1, <1>2, <1>3, <1>4, <1>5, <1>6, <1>7, <1>8 DEF NetStep, CallbackStep

LEMMA NextPreserves == IInv /\ [Next]_vars => IInv'
  <1> SUFFICES ASSUME IInv, [Next]_vars PROVE IInv'
    OBVIOUS
  <1>1. CASE SlewEnds
    BY <1>1 DEF SlewEnds, IInv, StorageFollowsMain, ClientFollowsMain, RetryIsLeft,
                AnswerBeforeSignal, Answered, Serving, TypeOK, mainVars
  <1>2. CASE UNCHANGED vars
    BY <1>2 DEF IInv, StorageFollowsMain, ClientFollowsMain, RetryIsLeft,
              AnswerBeforeSignal, Answered, Serving, TypeOK, vars,
              mainVars, clockVars
  <1> QED
    BY <1>1, <1>2, MainPreserves, NetPreserves DEF Next

LEMMA IInvHolds == Spec => []IInv
  BY InitEstablishes, NextPreserves, PTL DEF Spec

(* The number of retries stays within its bound, and every other variable  *)
(* within its range.                                                       *)
THEOREM TypeCorrect == Spec => []TypeOK
  <1>1. IInv => TypeOK
    BY DEF IInv
  <1> QED
    BY <1>1, IInvHolds, PTL

(* The callbacks of a reply never give a deleted semaphore nor call        *)
(* through freed storage: sntp_stop runs in their thread and takes the     *)
(* socket away before anything is deleted.                                 *)
THEOREM NothingIsUsedAfterFree == Spec => []NoUseAfterFree
  <1>1. IInv => NoUseAfterFree
    BY DEF IInv, ClientFollowsMain, StorageFollowsMain, Serving, NoUseAfterFree
  <1> QED
    BY <1>1, IInvHolds, PTL

(* sync_time does not cut its retries short unless the server answered.    *)
THEOREM EarlyReturnsAreAnswers == Spec => []EarlyReturnMeansAnswer
  <1>1. IInv => EarlyReturnMeansAnswer
    BY DEF IInv, AnswerBeforeSignal, Answered, EarlyReturnMeansAnswer
  <1> QED
    BY <1>1, IInvHolds, PTL

(* Once sync_time has returned, SNTP does not touch the clock.             *)
THEOREM ClockIsLeftAloneForGood == Spec => ClockIsLeftAlone
  <1> DEFINE A == main = "done" => /\ UNCHANGED status
                                   /\ \/ UNCHANGED <<clock, slewing>>
                                      \/ slewing /\ ~slewing' /\ clock' = "right"
  <1>1. IInv /\ [Next]_vars => [A]_vars
    <2> SUFFICES ASSUME IInv, Next, main = "done"
                 PROVE  /\ UNCHANGED status
                        /\ \/ UNCHANGED <<clock, slewing>>
                           \/ slewing /\ ~slewing' /\ clock' = "right"
      OBVIOUS
    <2>1. ~MainStep
      BY DEF MainStep, Start, StartFails, WaitEnds, WaitTimesOut, Detach, Unhook,
             Stop, Delete, SetTimezone
    <2>2. ~ReceiveTime
      BY DEF IInv, TypeOK, Clients, ClientFollowsMain, Serving, ReceiveTime
    <2>3. CASE NetStep
      BY <2>2, <2>3
      DEF NetStep, CallbackStep, RequestTimer, RecvTimer, DnsFound,
          ReceiveKissOfDeath, LoseReply, TestHook, TestSemaphore, Give,
          TestCallback, Notify, Rearm, Callback, clockVars
    <2>4. CASE SlewEnds
      BY <2>4 DEF SlewEnds
    <2> QED
      BY <2>1, <2>3, <2>4 DEF Next
  <1> QED
    BY <1>1, IInvHolds, PTL DEF Spec, ClockIsLeftAlone
-----------------------------------------------------------------------------
(* How far sync_time is from its return, and the callbacks of an answer    *)
(* from their end.                                                         *)

StepsLeft ==
  CASE main = "init" -> retry_count + 6
    [] main = "wait" -> (retry_count - retry) + 5
    [] main = "deinit" -> 5
    [] main = "unhook" -> 4
    [] main = "stop" -> 3
    [] main = "delete" -> 2
    [] main = "timezone" -> 1
    [] OTHER -> 0

CallbackStepsLeft ==
  CASE net = "hook" -> 6
    [] net = "check_sem" -> 5
    [] net = "give" -> 4
    [] net = "check_cb" -> 3
    [] net = "call" -> 2
    [] net = "rearm" -> 1
    [] OTHER -> 0

LEMMA LeftIsBounded ==
  IInv =>
    StepsLeft \in 0..(retry_count + 6) /\ (StepsLeft = 0 <=> main = "done")
  BY RetryAssumption DEF IInv, TypeOK, Stages, RetryIsLeft, StepsLeft

LEMMA StepsShorten ==
  ASSUME IInv, MainStep PROVE StepsLeft' < StepsLeft
<1> USE RetryAssumption DEF IInv, TypeOK, RetryIsLeft, StepsLeft
<1>1. CASE Start \/ StartFails
  BY <1>1 DEF Start, StartFails
<1>2. CASE WaitTimesOut
  BY <1>2 DEF WaitTimesOut, RetryAfter, MayWaitAgain
<1>3. CASE WaitEnds
  BY <1>3 DEF WaitEnds
<1>4. CASE Detach \/ Unhook \/ Stop \/ Delete \/ SetTimezone
  BY <1>4 DEF Detach, Unhook, Stop, Delete, SetTimezone
<1> QED
  BY <1>1, <1>2, <1>3, <1>4 DEF MainStep

(* What SyncReturns needs beside fairness, for every number of retries:    *)
(* sync_time (time_sync.c:19-39) makes at most retry_count + 6 steps, each *)
(* is one less and no answer adds any; and an answer's callbacks end after *)
(* six, so the TCP/IP thread comes to the stop that waits for it           *)
(* (esp_netif_sntp.c:149).                                                 *)
THEOREM SyncEnds ==
  Spec => /\ []( /\ StepsLeft \in 0..(retry_count + 6)
                 /\ StepsLeft = 0 <=> main = "done" )
          /\ [][/\ MainStep => StepsLeft' < StepsLeft
                /\ NetStep \/ SlewEnds => StepsLeft' = StepsLeft
                /\ CallbackStep => CallbackStepsLeft' < CallbackStepsLeft]_vars
<1>1. IInv /\ [Next]_vars =>
        [/\ MainStep => StepsLeft' < StepsLeft
         /\ NetStep \/ SlewEnds => StepsLeft' = StepsLeft
         /\ CallbackStep => CallbackStepsLeft' < CallbackStepsLeft]_vars
  <2>1. NetStep \/ SlewEnds => UNCHANGED mainVars
    BY DEF NetStep, Idle, RequestTimer, RecvTimer, DnsFound, ReceiveTime,
           ReceiveKissOfDeath, LoseReply, CallbackStep, Callback, TestHook,
           TestSemaphore, Give, TestCallback, Notify, Rearm, SlewEnds
  <2>2. UNCHANGED mainVars => StepsLeft' = StepsLeft
    BY DEF mainVars, StepsLeft
  <2>3. CallbackStep => CallbackStepsLeft' < CallbackStepsLeft
    BY DEF CallbackStep, Callback, TestHook, TestSemaphore, Give, TestCallback,
           Notify, Rearm, CallbackStepsLeft
  <2> QED
    BY <2>1, <2>2, <2>3, StepsShorten
<1> QED
  BY <1>1, LeftIsBounded, IInvHolds, PTL DEF Spec
=============================================================================
