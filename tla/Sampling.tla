------------------------------- MODULE Sampling -------------------------------
(***************************************************************************)
(* The sensor task (SensorTask) with the AHT20 driver (Aht20Driver) inside *)
(* it: read_aht20 hands the driver its one buffer, call after call, and    *)
(* queues what is in it when the call returned 0.  Both modules count:     *)
(* the driver numbers the calls, the task the readings it takes.           *)
(***************************************************************************)
EXTENDS Aht20Driver, Sequences

CONSTANT QUEUE_LENGTH  \* see SensorTask

ASSUME QueueAssumption == QUEUE_LENGTH \in Nat \ {0}

VARIABLES
  sensor, measured, dropped, msg_queue,  \* see SensorTask
  calling,   \* the task is in aht20_read_measures
  newest     \* history: the newest sample in a reading taken so far

Task == INSTANCE SensorTask WITH MaxReading <- MaxCalls

taskOwn == <<sensor, measured, dropped>>
taskVars == <<taskOwn, msg_queue>>
samplingVars == <<vars, taskVars, calling, newest>>

SamplingInit ==
  /\ Init
  /\ Task!Init
  /\ calling = FALSE
  /\ newest = 0
-----------------------------------------------------------------------------
(* aht20_read_measures(&recorded_data) begins.                             *)
CallDriver ==
  /\ sensor = "measure"
  /\ ~calling
  /\ calling' = TRUE
  /\ CreateHandle \/ CreateHandleFails
  /\ UNCHANGED <<taskVars, newest>>

GoOn ==
  /\ calling
  /\ BuildLink \/ Delay \/ TransactionStep
  /\ UNCHANGED <<taskVars, calling, newest>>

(* The test of line 15.  Slip: what the call returns is not looked at.     *)
SucceededAlways == TRUE
Succeeded == result = "ESP_OK"

(* The call has returned.                                                  *)
TakeReading ==
  /\ calling /\ pc = "idle"
  /\ Succeeded
  /\ Task!Measure
  /\ calling' = FALSE
  /\ newest' = IF misled THEN newest ELSE data_out
  /\ UNCHANGED vars

NoReading ==
  /\ calling /\ pc = "idle"
  /\ ~Succeeded
  /\ Task!MeasureFails
  /\ calling' = FALSE
  /\ UNCHANGED <<vars, newest>>

QueueOrSleep ==
  /\ Task!Enqueue \/ Task!EnqueueFails \/ Task!WakeUp
  /\ UNCHANGED <<vars, calling, newest>>

(* An assert in the driver restarts the device, task and queue.            *)
AssertRestarts ==
  /\ calling
  /\ AssertFails
  /\ Task!Restart
  /\ calling' = FALSE
  /\ UNCHANGED newest

TaskStep ==
  \/ CallDriver \/ GoOn \/ AssertRestarts \/ TakeReading \/ NoReading
  \/ QueueOrSleep
-----------------------------------------------------------------------------
(* A panic elsewhere restarts it.                                          *)
PanicRestarts ==
  /\ Restart
  /\ Task!Restart
  /\ calling' = FALSE
  /\ UNCHANGED newest

(* The sender task takes the oldest reading (data_server.c:63).            *)
Dequeue ==
  /\ msg_queue # <<>>
  /\ msg_queue' = Tail(msg_queue)
  /\ UNCHANGED <<vars, taskOwn, calling, newest>>

(* The sensor and the heap's other users.                                  *)
Elsewhere ==
  /\ Surroundings
  /\ UNCHANGED <<taskVars, calling, newest>>

SamplingNext == TaskStep \/ PanicRestarts \/ Dequeue \/ Elsewhere

SamplingSpec == SamplingInit /\ [][SamplingNext]_samplingVars

(* FreeRTOS runs the sensor task, and each transaction has a timeout.      *)
(* Nothing is asked of the sensor, the bus or the sender task.             *)
FairSamplingSpec == SamplingSpec /\ WF_samplingVars(TaskStep)
-----------------------------------------------------------------------------
(* The buffer of read_aht20 outlives the calls: after a call that failed   *)
(* it still holds the reading of the one before (aht20_sensor.c:15).  None *)
(* is taken twice: each comes from a measurement begun after that of the   *)
(* reading before it, across failed calls and restarts, unless the sensor  *)
(* lost power or its status byte was misread.                              *)
EachReadingIsNew ==
  [][measured' # measured /\ ~misled => newest' > newest]_samplingVars

(* "This task continuously reads temperature and humidity data"            *)
(* (aht20_sensor.h:14): the task comes round to its next measurement,      *)
(* whatever the sensor and the bus do, and if the sender task never takes  *)
(* another reading.                                                        *)
TaskComesRound == []<>(sensor = "measure" /\ ~calling)
=============================================================================
