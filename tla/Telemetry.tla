------------------------------ MODULE Telemetry ------------------------------
(***************************************************************************)
(* The two tasks of the device at work: the sensor task (SensorTask) and   *)
(* the sender task with its network (DataServer), which share nothing but  *)
(* the message queue.  Each runs at its own pace on its own core; a        *)
(* restart takes both down.                                                *)
(***************************************************************************)
EXTENDS Naturals, Sequences, FiniteSets, Functions

CONSTANTS MaxReading, UDP_MAX_ATTEMPTS, QUEUE_LENGTH, RECVMBOX_SIZE,
          ReplyTexts, MaxResets, MaxDuplicates

ASSUME TelemetryAssumption ==
  /\ MaxReading \in Nat
  /\ UDP_MAX_ATTEMPTS \in Nat
  /\ QUEUE_LENGTH \in Nat \ {0}
  /\ RECVMBOX_SIZE \in Nat \ {0}
  /\ MaxResets \in Nat
  /\ MaxDuplicates \in Nat

VARIABLES sensor, measured, dropped,                  \* see SensorTask
          msg_queue,                                  \* see both
          pc, recorded_data, udp_attempts, udp_sent,  \* see DataServer
          led, recvmbox, toServer, toDevice, served, outcome, ackedBy,
          timeouts, offered, resets, duplicates

Sensor == INSTANCE SensorTask
Sender == INSTANCE DataServer

sensorOwn == <<sensor, measured, dropped>>
senderOwn == <<pc, recorded_data, udp_attempts, udp_sent, led, recvmbox,
               toServer, toDevice, served, duplicates, outcome, ackedBy,
               timeouts, resets>>
vars == <<sensorOwn, senderOwn, msg_queue, offered>>

Readings == 1..MaxReading

Init == Sensor!Init /\ Sender!Init

(* The sensor task puts a reading into the queue they share.               *)
Handover ==
  /\ Sensor!Enqueue
  /\ offered' = measured
  /\ UNCHANGED senderOwn

SensorStep ==
  \/ Sensor!LocalStep /\ UNCHANGED <<senderOwn, offered>>
  \/ Handover

SenderStep == Sender!SenderStep /\ UNCHANGED sensorOwn
NetworkStep == Sender!NetworkStep /\ UNCHANGED sensorOwn
Restart == Sender!Restart /\ Sensor!Restart

Next == SensorStep \/ SenderStep \/ NetworkStep \/ Restart

Spec == Init /\ [][Next]_vars

(* FreeRTOS runs both tasks, and every call in them returns.  The last     *)
(* reading of the model ends the sensor task's work, not its loop.         *)
FairSpec == Spec /\ WF_vars(SensorStep) /\ WF_vars(SenderStep)
-----------------------------------------------------------------------------
(* The sensor task is an environment DataServer allows for: what is shown  *)
(* of DataServer holds in the device.                                      *)
UsesSenderWell == Sender!Spec

(* Where a reading is.                                                     *)
BeingQueued == IF sensor = "send" THEN {measured} ELSE {}
Waiting == Range(msg_queue)
BeingSent == IF Sender!Busy THEN {recorded_data} ELSE {}
Settled == {r \in Readings : outcome[r] # "none"}

Disjoint(sets) ==
  \A i, j \in DOMAIN sets : i # j => sets[i] \cap sets[j] = {}

(* While the device does not restart, every reading taken is in exactly    *)
(* one place: no reading vanishes, none is sent or concluded upon twice.   *)
EveryReadingIsSomewhere ==
  LET places == <<BeingQueued, Waiting, BeingSent, dropped, Settled>> IN
  /\ Disjoint(places)
  /\ resets = 0 => UNION Range(places) = 1..measured

(* The queue, the sender and the server see readings in the order in which *)
(* they were taken, however many were dropped in between.                  *)
OrderIsKept == Sender!Abstract!InOrder

(* A reading that was taken is dropped or settled in the end, unless the   *)
(* device restarts: neither task can hold up the other for good.           *)
EveryReadingIsSettled ==
  \A r \in Readings, n \in 0..MaxResets :
    (sensor = "send" /\ measured = r /\ resets = n)
      ~> (r \in dropped \/ outcome[r] # "none" \/ resets # n)
=============================================================================
