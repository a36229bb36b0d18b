---------------------------- MODULE TimedTelemetry ----------------------------
(***************************************************************************)
(* The two tasks of the device against the clock.  Each task is where its  *)
(* code is, with the time left until it goes on; readings are known by     *)
(* their age alone.  A step takes no time; time passes (Tick) only when    *)
(* both tasks wait, as they do in vTaskDelay, in xQueueSend on a full      *)
(* queue, in the driver and in recvfrom.  Nothing here is bounded: the     *)
(* constants are the program's, in a unit of time of their own.  How often *)
(* the sensor is read is every user's choice in config.h, fixed for good   *)
(* when the program is built: the instances try several values at once.    *)
(***************************************************************************)
EXTENDS Naturals, Sequences

CONSTANTS
  SensorPeriods,  \* the values of READ_SENSOR_SECONDS considered
  SEND_DATA_SECONDS,                       \* config.h
  UDP_TIMEOUT, UDP_MAX_ATTEMPTS,           \* constants.c
  QUEUE_LENGTH,                            \* constants.c
  QueueWait,    \* how long xQueueSend waits for room, 10 ticks
  LedDelay,     \* the 100 ms between the LED and the time stamp
  MeasureMin,   \* the least and the most a driver call takes: its
  MeasureMax    \* 100 ms delay; with both transactions at their timeouts

ASSUME TimesAssumption ==
  /\ SensorPeriods \subseteq Nat /\ SEND_DATA_SECONDS \in Nat
  /\ UDP_TIMEOUT \in Nat /\ UDP_MAX_ATTEMPTS \in Nat
  /\ QUEUE_LENGTH \in Nat \ {0}
  /\ QueueWait \in Nat \ {0} /\ LedDelay \in Nat
  /\ MeasureMin \in Nat \ {0} /\ MeasureMax \in Nat
  /\ MeasureMin <= MeasureMax

VARIABLES
  READ_SENSOR_SECONDS,  \* config.h
  sensor,        \* where the sensor task is
  sensorLeft,    \* time until it goes on
  age,           \* of the reading it is putting into the queue
  msg_queue,     \* the ages of the readings in the queue
  dropped,       \* history: xQueueSend has given up on a reading
  sender,        \* where the sender task is
  senderLeft,    \* time until it goes on
  udp_attempts,
  recorded,      \* the age of the reading it took
  stamped        \* the age of the last reading when `now' was read for it

sensorVars == <<sensor, sensorLeft, age, dropped>>
senderVars == <<sender, senderLeft, udp_attempts, recorded, stamped>>
vars == <<sensorVars, senderVars, msg_queue, READ_SENSOR_SECONDS>>

Init ==
  /\ READ_SENSOR_SECONDS \in SensorPeriods
  /\ sensor = "measure"
  /\ sensorLeft \in MeasureMin..MeasureMax
  /\ age = 0
  /\ msg_queue = <<>>
  /\ dropped = FALSE
  /\ sender = "poll"
  /\ senderLeft = 0
  /\ udp_attempts = 0
  /\ recorded = 0
  /\ stamped = 0
-----------------------------------------------------------------------------
(* The sensor task.                                                        *)
SensorSleeps ==
  /\ sensor' = "sleep"
  /\ sensorLeft' = READ_SENSOR_SECONDS

(* The driver returns a reading; xQueueSend begins.                        *)
Measured ==
  /\ sensor = "measure"
  /\ sensorLeft = 0
  /\ sensor' = "send"
  /\ sensorLeft' = QueueWait
  /\ age' = 0
  /\ UNCHANGED <<dropped, msg_queue, senderVars>>

MeasureFails ==
  /\ sensor = "measure"
  /\ sensorLeft = 0
  /\ SensorSleeps
  /\ UNCHANGED <<age, dropped, msg_queue, senderVars>>

(* There is room, at once or because the sender task has just made some.   *)
Enqueue ==
  /\ sensor = "send"
  /\ Len(msg_queue) < QUEUE_LENGTH
  /\ msg_queue' = Append(msg_queue, age)
  /\ SensorSleeps
  /\ UNCHANGED <<age, dropped, senderVars>>

EnqueueFails ==
  /\ sensor = "send"
  /\ Len(msg_queue) = QUEUE_LENGTH
  /\ sensorLeft = 0
  /\ dropped' = TRUE
  /\ SensorSleeps
  /\ UNCHANGED <<age, msg_queue, senderVars>>

SensorWakesUp ==
  /\ sensor = "sleep"
  /\ sensorLeft = 0
  /\ sensor' = "measure"
  /\ sensorLeft' \in MeasureMin..MeasureMax
  /\ UNCHANGED <<age, dropped, msg_queue, senderVars>>

SensorStep ==
  Measured \/ MeasureFails \/ Enqueue \/ EnqueueFails \/ SensorWakesUp
-----------------------------------------------------------------------------
(* The sender task.  Slip: the task sleeps once more when it has sent.     *)
SleepsLonger ==
  /\ sender' = "sleep"
  /\ senderLeft' = SEND_DATA_SECONDS + SEND_DATA_SECONDS
SenderSleeps ==
  /\ sender' = "sleep"
  /\ senderLeft' = SEND_DATA_SECONDS

Dequeue ==
  /\ sender = "poll"
  /\ msg_queue # <<>>
  /\ recorded' = Head(msg_queue)
  /\ msg_queue' = Tail(msg_queue)
  /\ sender' = "led"
  /\ senderLeft' = LedDelay
  /\ UNCHANGED <<udp_attempts, stamped, sensorVars>>

QueueIsEmpty ==
  /\ sender = "poll"
  /\ msg_queue = <<>>
  /\ SenderSleeps
  /\ UNCHANGED <<udp_attempts, recorded, stamped, msg_queue, sensorVars>>

(* The message gets its time; connect succeeds or the exchange is skipped. *)
Stamp ==
  /\ sender = "led"
  /\ senderLeft = 0
  /\ stamped' = recorded
  /\ udp_attempts' = 0
  /\ \/ sender' = "attempt" /\ senderLeft' = 0
     \/ SenderSleeps
  /\ UNCHANGED <<recorded, msg_queue, sensorVars>>

(* The loop condition.  Slip: one attempt too many.                        *)
KeepsSendingOnceMore == udp_attempts <= UDP_MAX_ATTEMPTS
KeepsSending == udp_attempts < UDP_MAX_ATTEMPTS

SendDatagram ==
  /\ sender = "attempt"
  /\ KeepsSending
  /\ udp_attempts' = udp_attempts + 1
  /\ sender' = "recv"
  /\ senderLeft' = UDP_TIMEOUT
  /\ UNCHANGED <<recorded, stamped, msg_queue, sensorVars>>

(* An ACK ends the exchange, at any time before the timeout.               *)
ReceiveAck ==
  /\ sender = "recv"
  /\ SenderSleeps
  /\ UNCHANGED <<udp_attempts, recorded, stamped, msg_queue, sensorVars>>

(* Another text, at any time, or the timeout: back to the loop condition.  *)
ReceiveNoAck ==
  /\ sender = "recv"
  /\ sender' = "attempt"
  /\ senderLeft' = 0
  /\ UNCHANGED <<udp_attempts, recorded, stamped, msg_queue, sensorVars>>

GiveUp ==
  /\ sender = "attempt"
  /\ ~KeepsSending
  /\ SenderSleeps
  /\ UNCHANGED <<udp_attempts, recorded, stamped, msg_queue, sensorVars>>

SenderWakesUp ==
  /\ sender = "sleep"
  /\ senderLeft = 0
  /\ sender' = "poll"
  /\ UNCHANGED <<senderLeft, udp_attempts, recorded, stamped, msg_queue, sensorVars>>

SenderStep ==
  Dequeue \/ QueueIsEmpty \/ Stamp \/ SendDatagram \/ ReceiveAck
    \/ ReceiveNoAck \/ GiveUp \/ SenderWakesUp
-----------------------------------------------------------------------------
(* Time passes when neither task has anything to do.                       *)
Tick ==
  /\ sensorLeft > 0 /\ senderLeft > 0
  /\ sensor = "send" => Len(msg_queue) = QUEUE_LENGTH
  /\ sensorLeft' = sensorLeft - 1
  /\ senderLeft' = senderLeft - 1
  /\ age' = IF sensor = "send" THEN age + 1 ELSE age
  /\ msg_queue' = [i \in 1..Len(msg_queue) |-> msg_queue[i] + 1]
  /\ recorded' = IF sender = "led" THEN recorded + 1 ELSE recorded
  /\ UNCHANGED <<sensor, dropped, sender, udp_attempts, stamped>>

Next ==
  /\ SensorStep \/ SenderStep \/ Tick
  /\ UNCHANGED READ_SENSOR_SECONDS

Spec == Init /\ [][Next]_vars
-----------------------------------------------------------------------------
TypeOK ==
  /\ READ_SENSOR_SECONDS \in SensorPeriods
  /\ sensor \in {"measure", "send", "sleep"}
  /\ sensorLeft \in Nat
  /\ age \in Nat
  /\ msg_queue \in Seq(Nat)
  /\ Len(msg_queue) <= QUEUE_LENGTH
  /\ dropped \in BOOLEAN
  /\ sender \in {"poll", "led", "attempt", "recv", "sleep"}
  /\ senderLeft \in Nat
  /\ udp_attempts \in 0..UDP_MAX_ATTEMPTS
  /\ recorded \in Nat
  /\ stamped \in Nat

(* The longest exchange, and the longest time between two looks at the     *)
(* queue.                                                                  *)
Exchange == UDP_MAX_ATTEMPTS * UDP_TIMEOUT
Cycle == LedDelay + Exchange + SEND_DATA_SECONDS

(* How late `now' (data_server.c:73) can be for the reading it is put      *)
(* beside: the reading may have waited for room, then for every reading    *)
(* before it to be sent in vain, then for the LED.                         *)
StampAgeIsBounded ==
  stamped <= QueueWait + QUEUE_LENGTH * Cycle + LedDelay

(* A device that looks at its queue, even after the longest exchange,      *)
(* before the next reading can be there loses no reading, however many of  *)
(* its messages are lost (aht20_sensor.c:17).                              *)
SlowSensorLosesNothing ==
  Cycle <= READ_SENSOR_SECONDS + MeasureMin => ~dropped
=============================================================================
