------------------------------ MODULE SensorTask ------------------------------
(***************************************************************************)
(* The sensor task read_aht20 (main/aht20_sensor.c).  It measures, puts    *)
(* the reading into the message queue, waiting a moment for room, and      *)
(* sleeps READ_SENSOR_SECONDS.  Readings are numbered as they are taken;   *)
(* one that finds no room is dropped, the newest rather than the oldest.   *)
(***************************************************************************)
EXTENDS Naturals, Sequences

CONSTANTS
  MaxReading,   \* bound: readings are 1..MaxReading
  QUEUE_LENGTH  \* constants.c

VARIABLES
  sensor,    \* where the task is
  measured,  \* the last reading taken, 0 before the first
  dropped,   \* history: the readings xQueueSend gave up on
  msg_queue  \* the queue to the sender task

own == <<sensor, measured, dropped>>
vars == <<own, msg_queue>>

Init ==
  /\ sensor = "measure"
  /\ measured = 0
  /\ dropped = {}
  /\ msg_queue = <<>>

(* aht20_read_measures succeeds.                                           *)
Measure ==
  /\ sensor = "measure"
  /\ measured < MaxReading
  /\ measured' = measured + 1
  /\ sensor' = "send"
  /\ UNCHANGED <<dropped, msg_queue>>

(* An I2C error, a busy sensor or a wrong CRC: no reading this time.       *)
MeasureFails ==
  /\ sensor = "measure"
  /\ sensor' = "sleep"
  /\ UNCHANGED <<measured, dropped, msg_queue>>

(* What xQueueSend makes of the queue.  Slips: xQueueOverwrite, and        *)
(* xQueueSendToFront.                                                      *)
QueuedByOverwrite(r) == <<r>>
QueuedToFront(r) == <<r>> \o msg_queue
Queued(r) == Append(msg_queue, r)

(* xQueueSend finds room, at once or within its 10 ticks.                  *)
Enqueue ==
  /\ sensor = "send"
  /\ Len(msg_queue) < QUEUE_LENGTH
  /\ msg_queue' = Queued(measured)
  /\ sensor' = "sleep"
  /\ UNCHANGED <<measured, dropped>>

(* Slip: a reading that finds no room is dropped without a word.            *)
EnqueueFailsUnnoticed ==
  /\ sensor = "send"
  /\ Len(msg_queue) = QUEUE_LENGTH
  /\ sensor' = "sleep"
  /\ UNCHANGED <<measured, dropped, msg_queue>>

(* Slip: xQueueSend waits for room without a limit.                        *)
EnqueueFailsNever == FALSE

(* The 10 ticks run out while the queue is full: the reading is dropped.   *)
EnqueueFails ==
  /\ sensor = "send"
  /\ Len(msg_queue) = QUEUE_LENGTH
  /\ dropped' = dropped \cup {measured}
  /\ sensor' = "sleep"
  /\ UNCHANGED <<measured, msg_queue>>

(* vTaskDelay of READ_SENSOR_SECONDS ends.                                 *)
WakeUp ==
  /\ sensor = "sleep"
  /\ sensor' = "measure"
  /\ UNCHANGED <<measured, dropped, msg_queue>>

(* The steps that leave the queue alone.                                   *)
LocalStep == Measure \/ MeasureFails \/ EnqueueFails \/ WakeUp

(* The device restarts, and app_main has created queue and task again.     *)
Restart ==
  /\ sensor' = "measure"
  /\ msg_queue' = <<>>
  /\ UNCHANGED <<measured, dropped>>
=============================================================================
