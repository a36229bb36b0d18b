------------------------------ MODULE TimeSync ------------------------------
(***************************************************************************)
(* sync_time (main/time_sync.c) in the main task, against lwIP's SNTP      *)
(* client in the TCP/IP thread, from esp_netif_sntp_init to the return.    *)
(* The two threads share the storage of esp_netif_sntp with its semaphore, *)
(* the notification hook, and the system clock.  The clock survives a      *)
(* restart of the chip but not a loss of power, so it may be right, off by *)
(* less than adjtime accepts (35 minutes), or far off when this begins.    *)
(***************************************************************************)
EXTENDS Naturals

CONSTANT retry_count   \* time_sync.c

ASSUME RetryAssumption == retry_count \in Nat \ {0}

VARIABLES
  main,      \* where sync_time is
  retry,     \* its loop variable
  ret,       \* what esp_netif_sntp_sync_wait returned last
  storage,   \* s_storage: none, live, detached (set to NULL), freed
  sync_sem,  \* the semaphore in it: none, empty or given
  hook,      \* time_sync_notification_cb of lwIP's port is set
  net,       \* where the TCP/IP thread is in a reply's callbacks, else idle
  sntp,      \* the SNTP client: its socket, its two timers, its DNS query
  reply,     \* a reply of the server is on its way
  clock,     \* right, near (off by less than 35 minutes) or far
  slewing,   \* adjtime is moving the clock bit by bit
  status     \* sntp_sync_status

mainVars == <<main, retry, ret>>
clockVars == <<clock, slewing, status>>
vars == <<mainVars, storage, sync_sem, hook, net, sntp, reply, clockVars>>

Off == [pcb |-> FALSE, request |-> FALSE, recv |-> FALSE, dns |-> FALSE]
Clients == [pcb : BOOLEAN, request : BOOLEAN, recv : BOOLEAN, dns : BOOLEAN]
Returns == {"none", "ESP_OK", "ESP_ERR_TIMEOUT", "ESP_ERR_NOT_FINISHED",
            "ESP_ERR_INVALID_STATE"}
Stages == {"init", "wait", "deinit", "unhook", "stop", "delete", "timezone", "done"}
Callbacks == {"idle", "hook", "check_sem", "give", "check_cb", "call", "rearm"}

Init ==
  /\ main = "init"
  /\ retry = 0
  /\ ret = "none"
  /\ storage = "none"
  /\ sync_sem = "none"
  /\ hook = FALSE
  /\ net = "idle"
  /\ sntp = Off
  /\ reply = FALSE
  /\ clock \in {"right", "near", "far"}
  /\ slewing = FALSE
  /\ status = "RESET"
-----------------------------------------------------------------------------
(* A new binary semaphore cannot be taken.  Slip: one that can.            *)
NewSemaphoreGiven == "given"
NewSemaphore == "empty"

(* esp_netif_sntp_init, its part in the TCP/IP thread included: the first  *)
(* request follows after a random delay.                                   *)
Start ==
  /\ main = "init"
  /\ storage' = "live"
  /\ sync_sem' = NewSemaphore
  /\ hook' = TRUE
  /\ sntp' = [sntp EXCEPT !.pcb = TRUE, !.request = TRUE]
  /\ main' = "wait"
  /\ UNCHANGED <<retry, ret, net, reply, clockVars>>

(* It finds no memory; nobody looks at its result, and the wait returns at *)
(* once.                                                                   *)
StartFails ==
  /\ main = "init"
  /\ ret' = "ESP_ERR_INVALID_STATE"
  /\ main' = "timezone"
  /\ UNCHANGED <<retry, storage, sync_sem, hook, net, sntp, reply, clockVars>>

(* The semaphore was given.  A clock that is still being moved is the only *)
(* thing that is not ESP_OK; either ends the loop.                         *)
WaitEnds ==
  /\ main = "wait"
  /\ sync_sem = "given"
  /\ sync_sem' = "empty"
  /\ IF status = "IN_PROGRESS" /\ slewing
     THEN ret' = "ESP_ERR_NOT_FINISHED" /\ UNCHANGED status
     ELSE ret' = "ESP_OK" /\ status' = "RESET"
  /\ main' = "deinit"
  /\ UNCHANGED <<retry, storage, hook, net, sntp, reply, clock, slewing>>

(* The right side of the && in the loop.  Slips: the ++ is forgotten; the  *)
(* comparison lets one more wait pass.                                     *)
RetryAfterNothing == retry
RetryAfter == retry + 1
MayWaitOnceMore == RetryAfter <= retry_count
MayWaitAgain == RetryAfter < retry_count

(* Two seconds pass and the semaphore is not given.                        *)
WaitTimesOut ==
  /\ main = "wait"
  /\ sync_sem = "empty"
  /\ ret' = "ESP_ERR_TIMEOUT"
  /\ retry' = RetryAfter
  /\ main' = IF MayWaitAgain THEN "wait" ELSE "deinit"
  /\ UNCHANGED <<storage, sync_sem, hook, net, sntp, reply, clockVars>>

(* esp_netif_sntp_deinit, step by step.                                    *)
Detach ==
  /\ main = "deinit"
  /\ storage' = "detached"
  /\ main' = "unhook"
  /\ UNCHANGED <<retry, ret, sync_sem, hook, net, sntp, reply, clockVars>>

Unhook ==
  /\ main = "unhook"
  /\ hook' = FALSE
  /\ main' = "stop"
  /\ UNCHANGED <<retry, ret, storage, sync_sem, net, sntp, reply, clockVars>>

(* Slips: the stop does not wait for its turn in the TCP/IP thread; the    *)
(* socket is kept.                                                         *)
StopAtOnce ==
  /\ main = "stop"
  /\ sntp' = [Off EXCEPT !.dns = sntp.dns]
  /\ main' = "delete"
  /\ UNCHANGED <<retry, ret, storage, sync_sem, hook, net, reply, clockVars>>

StopButListen ==
  /\ main = "stop"
  /\ net = "idle"
  /\ sntp' = [Off EXCEPT !.dns = sntp.dns, !.pcb = sntp.pcb]
  /\ main' = "delete"
  /\ UNCHANGED <<retry, ret, storage, sync_sem, hook, net, reply, clockVars>>

(* sntp_stop, run by the TCP/IP thread between two callbacks while the     *)
(* main task waits.  A DNS query is not withdrawn.                         *)
Stop ==
  /\ main = "stop"
  /\ net = "idle"
  /\ sntp' = [Off EXCEPT !.dns = sntp.dns]
  /\ main' = "delete"
  /\ UNCHANGED <<retry, ret, storage, sync_sem, hook, net, reply, clockVars>>

Delete ==
  /\ main = "delete"
  /\ storage' = "freed"
  /\ sync_sem' = "none"
  /\ main' = "timezone"
  /\ UNCHANGED <<retry, ret, hook, net, sntp, reply, clockVars>>

SetTimezone ==
  /\ main = "timezone"
  /\ main' = "done"
  /\ UNCHANGED <<retry, ret, storage, sync_sem, hook, net, sntp, reply, clockVars>>

MainStep ==
  Start \/ StartFails \/ WaitEnds \/ WaitTimesOut \/ Detach \/ Unhook \/ Stop
    \/ Delete \/ SetTimezone
-----------------------------------------------------------------------------
(* What the TCP/IP thread does when it is idle.                            *)
Idle == net = "idle" /\ UNCHANGED <<mainVars, storage, sync_sem, hook>>

(* sntp_send_request: without a socket nothing leaves, and the timer for   *)
(* the reply is set all the same; without memory it is tried again later.  *)
SendRequest(client) ==
  \/ /\ sntp' = [client EXCEPT !.recv = TRUE]
     /\ \/ UNCHANGED reply
        \/ client.pcb /\ reply' = TRUE
  \/ sntp' = [client EXCEPT !.request = TRUE] /\ UNCHANGED reply

(* The request timer: the name is resolved from the cache, must be asked   *)
(* for, or is not a name at all.                                           *)
RequestTimer ==
  /\ Idle
  /\ sntp.request
  /\ LET fired == [sntp EXCEPT !.request = FALSE] IN
     \/ SendRequest(fired)
     \/ sntp' = [fired EXCEPT !.dns = TRUE] /\ UNCHANGED reply
     \/ sntp' = [fired EXCEPT !.recv = TRUE] /\ UNCHANGED reply
  /\ UNCHANGED <<net, clockVars>>

(* sntp_retry, from the timer for the reply.                               *)
RecvTimer ==
  /\ Idle
  /\ sntp.recv
  /\ sntp' = [sntp EXCEPT !.recv = FALSE, !.request = TRUE]
  /\ UNCHANGED <<net, reply, clockVars>>

(* sntp_dns_found: an address, or none.                                    *)
DnsFound ==
  /\ Idle
  /\ sntp.dns
  /\ LET found == [sntp EXCEPT !.dns = FALSE] IN
     \/ SendRequest(found)
     \/ sntp' = [found EXCEPT !.request = TRUE] /\ UNCHANGED reply
  /\ UNCHANGED <<net, clockVars>>

(* sntp_sync_time in smooth mode: adjtime refuses a large correction,      *)
(* which is then made at once.                                             *)
SetClock ==
  IF clock = "far"
  THEN clock' = "right" /\ slewing' = FALSE /\ status' = "COMPLETED"
  ELSE clock' = clock /\ slewing' = TRUE /\ status' = "IN_PROGRESS"

(* A proper reply reaches the socket: the clock is set, then the callbacks *)
(* run, one load of shared state at a time.                                *)
ReceiveTime ==
  /\ Idle
  /\ reply /\ sntp.pcb
  /\ reply' = FALSE
  /\ SetClock
  /\ net' = "hook"
  /\ UNCHANGED sntp

(* A kiss-of-death: sntp_retry at once.                                    *)
ReceiveKissOfDeath ==
  /\ Idle
  /\ reply /\ sntp.pcb
  /\ reply' = FALSE
  /\ sntp' = [sntp EXCEPT !.request = TRUE]
  /\ UNCHANGED <<net, clockVars>>

(* The network, a malformed reply, or a reply without a socket.            *)
LoseReply ==
  /\ Idle
  /\ reply
  /\ reply' = FALSE
  /\ UNCHANGED <<net, sntp, clockVars>>

Callback(from, to) ==
  /\ net = from
  /\ net' = to
  /\ UNCHANGED <<mainVars, storage, hook, reply, clockVars>>

TestHook ==
  /\ Callback("hook", IF hook THEN "check_sem" ELSE "rearm")
  /\ UNCHANGED <<sync_sem, sntp>>
TestSemaphore ==
  /\ Callback("check_sem", IF storage = "live" THEN "give" ELSE "check_cb")
  /\ UNCHANGED <<sync_sem, sntp>>
Give == Callback("give", "check_cb") /\ sync_sem' = "given" /\ UNCHANGED sntp
TestCallback ==
  /\ Callback("check_cb", IF storage = "live" THEN "call" ELSE "rearm")
  /\ UNCHANGED <<sync_sem, sntp>>
Notify == Callback("call", "rearm") /\ UNCHANGED <<sync_sem, sntp>>
Rearm ==
  /\ Callback("rearm", "idle")
  /\ sntp' = [sntp EXCEPT !.recv = FALSE, !.request = TRUE]
  /\ UNCHANGED sync_sem

CallbackStep ==
  TestHook \/ TestSemaphore \/ Give \/ TestCallback \/ Notify \/ Rearm

NetStep ==
  RequestTimer \/ RecvTimer \/ DnsFound \/ ReceiveTime \/ ReceiveKissOfDeath
    \/ LoseReply \/ CallbackStep

(* The last bit of a gradual correction is made.                           *)
SlewEnds ==
  /\ slewing
  /\ slewing' = FALSE
  /\ clock' = "right"
  /\ UNCHANGED <<mainVars, storage, sync_sem, hook, net, sntp, reply, status>>

Next == MainStep \/ NetStep \/ SlewEnds

Spec == Init /\ [][Next]_vars

(* Both threads are run, and the TCP/IP thread takes its messages in turn, *)
(* so the stop gets its turn however many replies come.                    *)
FairSpec == Spec /\ WF_vars(MainStep) /\ WF_vars(CallbackStep) /\ SF_vars(Stop)
-----------------------------------------------------------------------------
TypeOK ==
  /\ main \in Stages
  /\ retry \in 0..retry_count
  /\ ret \in Returns
  /\ storage \in {"none", "live", "detached", "freed"}
  /\ sync_sem \in {"none", "empty", "given"}
  /\ hook \in BOOLEAN
  /\ net \in Callbacks
  /\ sntp \in Clients
  /\ reply \in BOOLEAN
  /\ clock \in {"right", "near", "far"}
  /\ slewing \in BOOLEAN
  /\ status \in {"RESET", "COMPLETED", "IN_PROGRESS"}

(* The TCP/IP thread, once past a test of s_storage, gives a semaphore and *)
(* calls a callback that still exist, wherever esp_netif_sntp_deinit is in *)
(* the main task (esp_netif_sntp.c:33-41 against 134-153).                 *)
NoUseAfterFree == net \in {"give", "call"} => storage \in {"live", "detached"}

(* The semaphore says what it is for: when sync_time ends its wait before  *)
(* all retries are used up, an answer has set the clock or has begun to    *)
(* move it.                                                                *)
EarlyReturnMeansAnswer ==
  main = "done" /\ ret \in {"ESP_OK", "ESP_ERR_NOT_FINISHED"} =>
    clock = "right" \/ slewing

(* After sync_time has returned no answer of the server, however late,     *)
(* touches the clock again; only the correction under way goes on.         *)
ClockIsLeftAlone ==
  [][main = "done" => /\ UNCHANGED status
                      /\ \/ UNCHANGED <<clock, slewing>>
                         \/ slewing /\ ~slewing' /\ clock' = "right"]_vars

(* sync_time returns, with or without an answer (time_sync.c:27).          *)
SyncReturns == <>(main = "done")
=============================================================================
