---------------------------- MODULE TelemetryProofs ----------------------------
(***************************************************************************)
(* Theorems about Telemetry, for any number of readings, attempts and      *)
(* restarts and buffers of any length.  The sensor task is an environment  *)
(* DataServer allows for, so the theorems of DataServerProofs hold of the  *)
(* device; where its readings are is proved on top of them.                *)
(***************************************************************************)
EXTENDS Telemetry, FiniteSetTheorems, TLAPS

S == INSTANCE DataServerProofs

(* The sensor task offers a reading later than all before it.              *)
SensorInv ==
  /\ sensor \in {"measure", "send", "sleep"}
  /\ measured \in 0..MaxReading
  /\ offered \in 0..measured
  /\ sensor = "send" => offered < measured

LEMMA SensorInit == Init => SensorInv
  BY TelemetryAssumption DEF Init, Sensor!Init, Sender!Init, SensorInv

LEMMA SensorNext == SensorInv /\ [Next]_vars => SensorInv'
  <1> SUFFICES ASSUME SensorInv, [Next]_vars PROVE SensorInv'
    OBVIOUS
  <1> USE TelemetryAssumption DEF SensorInv
  <1>1. CASE Sensor!LocalStep /\ UNCHANGED <<senderOwn, offered>>
    BY <1>1 DEF Sensor!LocalStep, Sensor!Measure, Sensor!MeasureFails,
                Sensor!EnqueueFails, Sensor!WakeUp
  <1>2. CASE Handover
    BY <1>2 DEF Handover, Sensor!Enqueue
  <1>3. CASE Restart
    BY <1>3 DEF Restart, Sender!Restart, Sensor!Restart
  <1>4. CASE UNCHANGED <<sensorOwn, offered>>
    BY <1>4 DEF sensorOwn
  <1>5. CASE SenderStep
    BY <1>4, <1>5
    DEF SenderStep, Sender!SenderStep, Sender!CreateSocket, Sender!Dequeue,
        Sender!QueueIsEmpty, Sender!Connect, Sender!ConnectFails,
        Sender!SendDatagram, Sender!ReceiveReply, Sender!ReceiveTimesOut,
        Sender!LoopEnds, Sender!TurnLedOff, Sender!WakeUp
  <1>6. CASE NetworkStep
    BY <1>4, <1>6
    DEF NetworkStep, Sender!NetworkStep, Sender!DeliverReply, Sender!LoseReply,
        Sender!ServerAnswers, Sender!LoseDatagram
  <1> QED
    BY <1>1, <1>2, <1>3, <1>4, <1>5, <1>6 DEF Next, SensorStep, vars

LEMMA SensorCorrect == Spec => []SensorInv
  BY SensorInit, SensorNext, PTL DEF Spec

(* Handing a reading over is the environment's step of DataServer.         *)
LEMMA StepUsesSender == SensorInv /\ [Next]_vars => [Sender!Next]_(Sender!vars)
  <1> SUFFICES ASSUME SensorInv, [Next]_vars
               PROVE  Sender!Next \/ UNCHANGED Sender!vars
    OBVIOUS
  <1> USE DEF senderOwn, Sender!vars, Sender!task, Sender!network, Sender!history
  <1>1. CASE Sensor!LocalStep /\ UNCHANGED <<senderOwn, offered>>
    BY <1>1 DEF Sensor!LocalStep, Sensor!Measure, Sensor!MeasureFails,
                Sensor!EnqueueFails, Sensor!WakeUp
  <1>2. CASE Handover
    <2>1. measured \in Sender!Readings /\ measured > offered
      BY <1>2, TelemetryAssumption DEF Handover, Sensor!Enqueue, SensorInv, Sender!Readings
    <2>2. Sender!Offer(measured)
      BY <1>2, <2>1 DEF Handover, Sensor!Enqueue, Sensor!Queued, Sender!Offer
    <2> QED
      BY <2>1, <2>2 DEF Sender!Next
  <1>3. CASE Restart \/ SenderStep \/ NetworkStep
    BY <1>3 DEF Restart, SenderStep, NetworkStep, Sender!Next
  <1>4. CASE UNCHANGED vars
    BY <1>4 DEF vars
  <1> QED
    BY <1>1, <1>2, <1>3, <1>4 DEF Next, SensorStep

(* The sensor task (aht20_sensor.c:17) is an environment DataServer allows *)
(* for, however its steps fall between those of the sender.                *)
THEOREM SenderIsUsedWell == Spec => UsesSenderWell
  <1>1. Init => Sender!Init
    BY DEF Init
  <1> QED
    BY <1>1, StepUsesSender, SensorCorrect, PTL DEF Spec, UsesSenderWell, Sender!Spec

(* The sender seen through its proofs is the one the device runs.          *)
LEMMA SameSender == Sender!Spec => S!Spec
  <1>1. Sender!Init => S!Init
    BY DEF Sender!Init, S!Init, Sender!Readings, S!Readings, Sender!NoDatagram,
           S!NoDatagram
  <1>2. Sender!SenderStep => S!SenderStep
    <2>1. Sender!Dequeue => S!Dequeue
      BY DEF Sender!Dequeue, S!Dequeue, Sender!Dequeued, S!Dequeued,
             Sender!network, S!network, Sender!history, S!history
    <2>2. Sender!SendDatagram => S!SendDatagram
      BY DEF Sender!SendDatagram, S!SendDatagram, Sender!KeepsSending,
             S!KeepsSending, Sender!AfterSend, S!AfterSend, Sender!history,
             S!history
    <2>3. Sender!ReceiveReply => S!ReceiveReply
      BY DEF Sender!ReceiveReply, S!ReceiveReply, Sender!Received, S!Received,
             Sender!network, S!network
    <2>4. Sender!LoopEnds => S!LoopEnds
      BY DEF Sender!LoopEnds, S!LoopEnds, Sender!KeepsSending, S!KeepsSending,
             Sender!network, S!network
    <2>5. /\ Sender!CreateSocket => S!CreateSocket
          /\ Sender!QueueIsEmpty => S!QueueIsEmpty
          /\ Sender!Connect => S!Connect
          /\ Sender!ConnectFails => S!ConnectFails
          /\ Sender!ReceiveTimesOut => S!ReceiveTimesOut
          /\ Sender!TurnLedOff => S!TurnLedOff
          /\ Sender!WakeUp => S!WakeUp
      BY DEF Sender!CreateSocket, S!CreateSocket, Sender!QueueIsEmpty,
             S!QueueIsEmpty, Sender!Connect, S!Connect, Sender!ConnectFails,
             S!ConnectFails, Sender!ReceiveTimesOut, S!ReceiveTimesOut,
             Sender!TurnLedOff, S!TurnLedOff, Sender!WakeUp, S!WakeUp,
             Sender!network, S!network, Sender!history, S!history
    <2> QED
      BY <2>1, <2>2, <2>3, <2>4, <2>5 DEF Sender!SenderStep, S!SenderStep
  <1>3. Sender!NetworkStep => S!NetworkStep
    BY DEF Sender!NetworkStep, S!NetworkStep, Sender!DeliverReply,
           S!DeliverReply, Sender!LoseReply, S!LoseReply, Sender!ServerAnswers,
           S!ServerAnswers, Sender!LoseDatagram, S!LoseDatagram, Sender!task,
           S!task, Sender!history, S!history
  <1>4. Sender!Restart => S!Restart
    BY DEF Sender!Restart, S!Restart, Sender!network, S!network,
           Sender!history, S!history
  <1>5. ASSUME NEW r \in Sender!Readings, Sender!Offer(r)
        PROVE  \E s \in S!Readings : S!Offer(s)
    BY <1>5 DEF Sender!Offer, S!Offer, Sender!Readings, S!Readings, Sender!task,
                S!task, Sender!network, S!network, Sender!history, S!history
  <1>6. [Sender!Next]_(Sender!vars) => [S!Next]_(S!vars)
    BY <1>2, <1>3, <1>4, <1>5
    DEF Sender!Next, S!Next, Sender!vars, S!vars, Sender!task, S!task,
        Sender!network, S!network, Sender!history, S!history
  <1> QED
    BY <1>1, <1>6, PTL DEF Sender!Spec, S!Spec
-----------------------------------------------------------------------------
(* What DataServerProofs shows of the sender, in the terms used below.     *)

InExchange == pc \in {"connect", "attempt", "recv"}

SenderFacts ==
  /\ msg_queue \in Seq(Readings)
  /\ outcome \in [Readings -> {"none", "acked", "failed", "unconnected"}]
  /\ offered \in Nat
  /\ resets \in Nat
  /\ InExchange => recorded_data \in Readings /\ recorded_data <= offered
  /\ \A r \in Range(msg_queue) : /\ r \in Readings
                                 /\ r <= offered
                                 /\ outcome[r] = "none"
                                 /\ InExchange => r # recorded_data
  /\ \A r \in Readings : outcome[r] # "none" => r <= offered
  /\ pc = "connect" => outcome[recorded_data] = "none"
  /\ pc \in {"attempt", "recv"} => (outcome[recorded_data] = "none" <=> ~udp_sent)
  /\ pc = "recv" => ~udp_sent

LEMMA FactsOfSender == S!TypeOK /\ S!OrderInv => SenderFacts
  <1> SUFFICES ASSUME S!TypeOK, S!OrderInv PROVE SenderFacts
    OBVIOUS
  <1> USE DEF S!TypeOK, S!OrderInv
  <1>1. msg_queue \in Seq(Readings)
    BY DEF S!BufferTypeOK, S!Readings, Readings
  <1>2. /\ outcome \in [Readings -> {"none", "acked", "failed", "unconnected"}]
        /\ offered \in Nat /\ resets \in Nat
    BY TelemetryAssumption DEF S!HistoryTypeOK, S!Verdicts, S!Readings, Readings
  <1>3. InExchange => S!Past(recorded_data) /\ recorded_data \in Readings
    BY TelemetryAssumption
    DEF S!ExchangeInv, S!InExchange, InExchange, S!TaskTypeOK, Readings
  <1>4. ASSUME NEW r \in Range(msg_queue)
        PROVE  /\ r \in Readings /\ r <= offered /\ outcome[r] = "none"
               /\ InExchange => r # recorded_data
    <2>1. PICK i \in 1..Len(msg_queue) : msg_queue[i] = r
      BY <1>1 DEF Range
    <2>2. r \in Readings
      BY <1>1, <2>1
    <2>3. r \in Nat
      BY <2>2 DEF Readings
    <2>4. \A q \in Readings : S!Past(q) => q < r
      BY <2>1 DEF S!Past
    <2>5. ~S!Past(r)
      BY <2>2, <2>3, <2>4
    <2>6. r <= offered
      BY <2>1 DEF S!QueueInOrder
    <2>7. outcome[r] = "none"
      BY <2>2, <2>5 DEF S!OutcomesArePast, S!Readings, Readings
    <2> QED
      BY <1>3, <2>2, <2>5, <2>6, <2>7
  <1>5. \A r \in Readings : outcome[r] # "none" => r <= offered
    BY DEF S!OutcomesArePast, S!Past, S!Readings, Readings
  <1>6. /\ pc = "connect" => outcome[recorded_data] = "none"
        /\ pc \in {"attempt", "recv"} => (outcome[recorded_data] = "none" <=> ~udp_sent)
        /\ pc = "recv" => ~udp_sent
    BY DEF S!ExchangeInv
  <1> QED
    BY <1>1, <1>2, <1>3, <1>4, <1>5, <1>6 DEF SenderFacts, S!Past

LEMMA SenderTypes == Spec => []S!TypeOK
  BY S!TypeCorrect, SenderIsUsedWell, SameSender, TelemetryAssumption, PTL
  DEF UsesSenderWell

LEMMA SenderOrder == Spec => []S!OrderInv
  BY S!OrderCorrect, SenderIsUsedWell, SameSender, TelemetryAssumption, PTL
  DEF UsesSenderWell

LEMMA FactsHold == Spec => []SenderFacts
  BY FactsOfSender, SenderTypes, SenderOrder, PTL

(* Readings are taken, queued, sent and settled in one order               *)
(* (aht20_sensor.c:17, data_server.c:63), however many were dropped in     *)
(* between.                                                                *)
THEOREM OrderStays == Spec => []OrderIsKept
  <1>1. S!TypeOK /\ S!OrderInv /\ SenderFacts => OrderIsKept
    <2> SUFFICES ASSUME S!TypeOK, S!OrderInv, SenderFacts PROVE OrderIsKept
      OBVIOUS
    <2>1. \A i \in 1..Len(msg_queue) : msg_queue[i] \in Readings /\ msg_queue[i] \in Nat
      <3>1. \A i \in 1..Len(msg_queue) : msg_queue[i] \in Readings
        BY DEF SenderFacts
      <3> QED
        BY <3>1 DEF Readings
    <2>2. Sender!Busy => InExchange /\ outcome[recorded_data] = "none"
      BY DEF Sender!Busy, InExchange
    <2>3. InExchange => S!Past(recorded_data) /\ recorded_data \in Nat
      BY DEF S!OrderInv, S!ExchangeInv, S!InExchange, InExchange, SenderFacts, Readings
    <2>4. \A r \in Readings : outcome[r] # "none" => S!Past(r) /\ r \in Nat
      BY DEF S!OrderInv, S!OutcomesArePast, S!Readings, Readings
    <2>5. \A i, j \in 1..Len(msg_queue) : i < j => msg_queue[i] < msg_queue[j]
      BY DEF S!OrderInv, S!QueueInOrder
    <2>6. \A i \in 1..Len(msg_queue) : msg_queue[i] <= offered
      BY DEF S!OrderInv, S!QueueInOrder
    <2> DEFINE active == IF Sender!Busy THEN recorded_data ELSE 0
    <2>7. active \in Nat /\ active <= offered
      BY <2>2, <2>3 DEF S!Past, SenderFacts
    <2>8. \A i \in 1..Len(msg_queue) : active < msg_queue[i]
      <3>1. \A i \in 1..Len(msg_queue) : 0 < msg_queue[i]
        BY <2>1 DEF Readings
      <3>2. CASE Sender!Busy
        BY <2>2, <2>3, <3>2 DEF S!Past
      <3>3. CASE ~Sender!Busy
        BY <3>1, <3>3
      <3> QED
        BY <3>2, <3>3
    <2>9. \A r \in Readings : outcome[r] # "none" =>
             /\ r <= offered
             /\ active # 0 => r < active
             /\ \A i \in 1..Len(msg_queue) : r < msg_queue[i]
      BY <2>2, <2>3, <2>4 DEF S!Past, S!InExchange, InExchange
    <2> QED
      BY <2>5, <2>6, <2>7, <2>8, <2>9 DEF OrderIsKept, Sender!Abstract!InOrder,
         Sender!Abstract!Readings, Readings
  <1> QED
    BY <1>1, FactsHold, SenderTypes, SenderOrder, PTL
-----------------------------------------------------------------------------
(* Where the readings are.                                                 *)

InQueue(r) == r \in Range(msg_queue)
InHand(r) == Sender!Busy /\ r = recorded_data

DroppedForGood ==
  \A r \in dropped : /\ r \in 1..measured
                     /\ sensor = "send" => r # measured
                     /\ ~InQueue(r) /\ ~InHand(r) /\ outcome[r] = "none"

Somewhere(r) ==
  \/ sensor = "send" /\ r = measured
  \/ InQueue(r) \/ InHand(r) \/ r \in dropped \/ outcome[r] # "none"

(* The readings that only a restart can have taken.                        *)
Lost == {r \in 1..measured : ~Somewhere(r)}

(* A restart takes the queue and the reading in the hand of either task.   *)
PerRestart == QUEUE_LENGTH + 2
LossInv == Cardinality(Lost) <= resets * PerRestart

LEMMA Queueing ==
  ASSUME NEW q \in Seq(Readings), NEW r
  PROVE  Range(Append(q, r)) = Range(q) \cup {r}
  <1>1. /\ Len(q) \in Nat /\ DOMAIN q = 1..Len(q)
        /\ DOMAIN Append(q, r) = 1..(Len(q) + 1)
        /\ \A i \in 1..Len(q) : Append(q, r)[i] = q[i]
        /\ Append(q, r)[Len(q) + 1] = r
    OBVIOUS
  <1> QED
    BY <1>1 DEF Range

LEMMA Taking ==
  ASSUME NEW q \in Seq(Readings), q # <<>>
  PROVE  Range(q) = {Head(q)} \cup Range(Tail(q))
  <1>1. /\ Len(q) \in Nat \ {0} /\ DOMAIN q = 1..Len(q)
        /\ DOMAIN Tail(q) = 1..(Len(q) - 1)
        /\ \A i \in 1..(Len(q) - 1) : Tail(q)[i] = q[i + 1]
        /\ Head(q) = q[1]
    OBVIOUS
  <1>2. ASSUME NEW i \in DOMAIN q PROVE q[i] = Head(q) \/ q[i] \in Range(Tail(q))
    <2>1. CASE i = 1
      BY <1>1, <2>1
    <2>2. CASE i # 1
      <3>1. i - 1 \in DOMAIN Tail(q) /\ Tail(q)[i - 1] = q[(i - 1) + 1]
        BY <1>1, <2>2
      <3>2. (i - 1) + 1 = i
        BY <1>1
      <3> QED
        BY <3>1, <3>2 DEF Range
    <2> QED
      BY <2>1, <2>2
  <1>3. ASSUME NEW i \in DOMAIN Tail(q) PROVE Tail(q)[i] \in Range(q)
    <2>1. i + 1 \in DOMAIN q /\ Tail(q)[i] = q[i + 1]
      BY <1>1
    <2> QED
      BY <2>1 DEF Range
  <1>4. Head(q) \in Range(q)
    <2>1. 1 \in DOMAIN q
      BY <1>1
    <2> QED
      BY <1>1, <2>1 DEF Range
  <1> QED
    BY <1>2, <1>3, <1>4 DEF Range

(* What a step of the sender does to the places: the oldest reading of the *)
(* queue comes to hand, and only a reading in hand is settled.             *)
LEMMA SenderMoves ==
  ASSUME SenderFacts, SenderStep
  PROVE  /\ UNCHANGED <<sensorOwn, resets>>
         /\ \A r \in Readings :
              /\ InQueue(r)' => InQueue(r)
              /\ InHand(r)' => InQueue(r) \/ InHand(r)
              /\ InQueue(r) => InQueue(r)' \/ InHand(r)'
              /\ InHand(r) => InHand(r)' \/ outcome'[r] # "none"
              /\ outcome'[r] # outcome[r] => InHand(r) /\ outcome[r] = "none"
  <1> USE DEF SenderStep, InQueue, InHand, Sender!Busy, SenderFacts, InExchange
  <1>1. CASE Sender!Dequeue
    <2>1. /\ Range(msg_queue) = {recorded_data'} \cup Range(msg_queue')
          /\ outcome' = outcome /\ pc' = "connect" /\ resets' = resets
          /\ pc = "poll"
      BY <1>1, Taking DEF Sender!Dequeue, Sender!Dequeued, Sender!history
    <2> QED
      BY <2>1
  <1>2. CASE Sender!ConnectFails
    BY <1>2 DEF Sender!ConnectFails
  <1>3. CASE Sender!ReceiveReply
    BY <1>3 DEF Sender!ReceiveReply
  <1>4. CASE Sender!LoopEnds
    BY <1>4 DEF Sender!LoopEnds
  <1>5. CASE Sender!Connect \/ Sender!SendDatagram \/ Sender!ReceiveTimesOut
    BY <1>5 DEF Sender!Connect, Sender!SendDatagram, Sender!ReceiveTimesOut,
                Sender!AfterSend, Sender!history
  <1>6. CASE Sender!CreateSocket \/ Sender!QueueIsEmpty \/ Sender!TurnLedOff
             \/ Sender!WakeUp
    BY <1>6 DEF Sender!CreateSocket, Sender!QueueIsEmpty, Sender!TurnLedOff,
                Sender!WakeUp, Sender!history
  <1> QED
    BY <1>1, <1>2, <1>3, <1>4, <1>5, <1>6 DEF Sender!SenderStep

LEMMA PlacesNext ==
  ASSUME SensorInv, SenderFacts, DroppedForGood, [Next]_vars
  PROVE  DroppedForGood' /\ (Restart \/ Lost' \subseteq Lost)
  <1> USE TelemetryAssumption DEF SensorInv, sensorOwn
  <1>0. 1..measured \subseteq Readings /\ measured \in Nat /\ offered \in Nat
    BY DEF Readings
  <1>1. CASE Sensor!Measure /\ UNCHANGED <<senderOwn, offered>>
    <2>1. /\ measured' = measured + 1 /\ sensor = "measure" /\ sensor' = "send"
          /\ UNCHANGED <<dropped, msg_queue, pc, recorded_data, outcome, resets>>
      BY <1>1 DEF Sensor!Measure, senderOwn
    <2>2. \A r \in 1..measured' : r = measured' \/ r \in 1..measured
      BY <2>1, <1>0
    <2>3. \A r \in 1..measured : r \in 1..measured' /\ r # measured'
      BY <2>1, <1>0
    <2> QED
      BY <2>1, <2>2, <2>3
      DEF DroppedForGood, Lost, Somewhere, InQueue, InHand, Sender!Busy
  <1>2. CASE Sensor!EnqueueFails /\ UNCHANGED <<senderOwn, offered>>
    <2>1. /\ dropped' = dropped \cup {measured} /\ sensor = "send" /\ sensor' = "sleep"
          /\ UNCHANGED <<measured, msg_queue, pc, recorded_data, outcome, resets>>
      BY <1>2 DEF Sensor!EnqueueFails, senderOwn
    <2>2. offered < measured /\ measured \in 1..measured
      BY <2>1, <1>0
    <2>3. ~InQueue(measured) /\ ~InHand(measured) /\ outcome[measured] = "none"
      BY <1>0, <2>2 DEF InQueue, InHand, Sender!Busy, SenderFacts, InExchange
    <2> QED
      BY <2>1, <2>2, <2>3
      DEF DroppedForGood, Lost, Somewhere, InQueue, InHand, Sender!Busy
  <1>3. CASE /\ Sensor!MeasureFails \/ Sensor!WakeUp
             /\ UNCHANGED <<senderOwn, offered>>
    BY <1>3
    DEF Sensor!MeasureFails, Sensor!WakeUp, senderOwn, DroppedForGood, Lost,
        Somewhere, InQueue, InHand, Sender!Busy
  <1>4. CASE Handover
    <2>1. /\ sensor = "send" /\ sensor' = "sleep"
          /\ UNCHANGED <<measured, dropped, pc, recorded_data, outcome, resets>>
          /\ Range(msg_queue') = Range(msg_queue) \cup {measured}
      BY <1>4, Queueing
      DEF Handover, Sensor!Enqueue, Sensor!Queued, senderOwn, SenderFacts
    <2> QED
      BY <2>1
      DEF DroppedForGood, Lost, Somewhere, InQueue, InHand, Sender!Busy
  <1>5. CASE SenderStep
    <2>1. UNCHANGED <<sensor, measured, dropped, resets>>
      BY <1>5, SenderMoves
    <2>2. ASSUME NEW r \in dropped PROVE ~InQueue(r)' /\ ~InHand(r)' /\ outcome'[r] = "none"
      <3>1. r \in Readings /\ ~InQueue(r) /\ ~InHand(r) /\ outcome[r] = "none"
        BY <1>0 DEF DroppedForGood
      <3> QED
        BY <1>5, <3>1, SenderMoves
    <2>3. ASSUME NEW r \in 1..measured, Somewhere(r) PROVE Somewhere(r)'
      BY <1>0, <1>5, <2>1, <2>3, SenderMoves DEF Somewhere
    <2> QED
      BY <2>1, <2>2, <2>3 DEF DroppedForGood, Lost
  <1>6. CASE Restart
    <2>1. /\ sensor' = "measure" /\ msg_queue' = <<>> /\ pc' = "socket"
          /\ UNCHANGED <<measured, dropped, outcome>> /\ resets' = resets + 1
      BY <1>6 DEF Restart, Sensor!Restart, Sender!Restart, Sender!history
    <2>2. \A r : ~InQueue(r)'
      BY <2>1 DEF InQueue, Range
    <2> QED
      BY <1>6, <2>1, <2>2 DEF DroppedForGood, InHand, Sender!Busy
  <1>7. CASE UNCHANGED <<sensor, measured, dropped, msg_queue, pc, recorded_data,
                         outcome, resets>>
    BY <1>7
    DEF DroppedForGood, Lost, Somewhere, InQueue, InHand, Sender!Busy
  <1>8. CASE NetworkStep
    BY <1>7, <1>8
    DEF NetworkStep, Sender!NetworkStep, Sender!DeliverReply, Sender!LoseReply,
        Sender!ServerAnswers, Sender!LoseDatagram, Sender!task, Sender!history
  <1> QED
    BY <1>1, <1>2, <1>3, <1>4, <1>5, <1>6, <1>7, <1>8
    DEF Next, SensorStep, Sensor!LocalStep, vars, senderOwn

LEMMA PlacesAreDistinct ==
  ASSUME SensorInv, SenderFacts, DroppedForGood, resets = 0 => Lost = {}
  PROVE  EveryReadingIsSomewhere
  <1> DEFINE places == <<BeingQueued, Waiting, BeingSent, dropped, Settled>>
  <1> USE TelemetryAssumption DEF SensorInv
  <1>0. 1..measured \subseteq Readings /\ measured \in Nat /\ offered \in Nat
        /\ (sensor = "send" => measured \in 1..measured)
    BY DEF Readings
  <1>1. \A r \in Readings : r <= offered => r \in 1..measured
    BY <1>0 DEF Readings
  <1>2. Waiting \subseteq {r \in Readings : r <= offered /\ outcome[r] = "none"}
    BY DEF Waiting, SenderFacts
  <1>3. BeingSent \subseteq {r \in Readings : r <= offered /\ outcome[r] = "none"}
        /\ BeingSent \cap Waiting = {}
    BY DEF BeingSent, Waiting, SenderFacts, InExchange, Sender!Busy
  <1>4. Settled \subseteq {r \in Readings : r <= offered /\ outcome[r] # "none"}
    BY DEF Settled, SenderFacts
  <1>5. BeingQueued \subseteq {r \in 1..measured : r > offered}
    BY <1>0 DEF BeingQueued
  <1>6. dropped \subseteq 1..measured /\ dropped \cap BeingQueued = {}
        /\ dropped \cap Waiting = {} /\ dropped \cap BeingSent = {}
        /\ dropped \cap Settled = {}
    BY DEF DroppedForGood, BeingQueued, Waiting, BeingSent, Settled, InQueue, InHand
  <1>7. BeingQueued \cap {r \in Readings : r <= offered} = {}
    <2>1. \A r \in 1..measured : ~(r > offered /\ r <= offered)
      BY <1>0
    <2> QED
      BY <1>5, <2>1
  <1>8. /\ BeingQueued \cap Waiting = {} /\ BeingQueued \cap BeingSent = {}
        /\ BeingQueued \cap Settled = {} /\ Waiting \cap Settled = {}
        /\ BeingSent \cap Settled = {}
    BY <1>2, <1>3, <1>4, <1>7
  <1>9. DOMAIN places = 1..5 /\ places[1] = BeingQueued /\ places[2] = Waiting
        /\ places[3] = BeingSent /\ places[4] = dropped /\ places[5] = Settled
    OBVIOUS
  <1> HIDE DEF places
  <1>10. Disjoint(places)
    <2>1. \A i \in DOMAIN places : i = 1 \/ i = 2 \/ i = 3 \/ i = 4 \/ i = 5
      BY <1>9
    <2> QED
      BY <1>3, <1>6, <1>8, <1>9, <2>1 DEF Disjoint
  <1>11. UNION Range(places)
           = BeingQueued \cup Waiting \cup BeingSent \cup dropped \cup Settled
    <2>1. Range(places) = {BeingQueued, Waiting, BeingSent, dropped, Settled}
      BY <1>9 DEF Range
    <2> QED
      BY <2>1
  <1>12. UNION Range(places) \subseteq 1..measured
    BY <1>1, <1>2, <1>3, <1>4, <1>5, <1>6, <1>11
  <1>13. resets = 0 => 1..measured \subseteq UNION Range(places)
    <2> SUFFICES ASSUME NEW r \in 1..measured, Somewhere(r)
                 PROVE  r \in BeingQueued \cup Waiting \cup BeingSent \cup dropped
                               \cup Settled
      BY <1>11 DEF Lost
    <2> QED
      BY <1>0 DEF Somewhere, InQueue, InHand, BeingQueued, Waiting, BeingSent, Settled
  <1> QED
    BY <1>10, <1>12, <1>13 DEF EveryReadingIsSomewhere, places

LEMMA ReadingSets ==
  ASSUME NEW A \in SUBSET Readings
  PROVE  /\ IsFiniteSet(A) /\ Cardinality(A) \in Nat
         /\ \A B \in SUBSET A : Cardinality(B) <= Cardinality(A)
  <1>1. 1 \in Int /\ MaxReading \in Int
    BY TelemetryAssumption
  <1>2. IsFiniteSet(Readings)
    BY <1>1, FS_Interval DEF Readings
  <1>3. IsFiniteSet(A)
    BY <1>2, FS_Subset
  <1> QED
    BY <1>3, FS_Subset, FS_CardinalityType

LEMMA JoinedSize ==
  ASSUME NEW A \in SUBSET Readings, NEW B \in SUBSET Readings
  PROVE  Cardinality(A \cup B) <= Cardinality(A) + Cardinality(B)
  <1>1. /\ Cardinality(A) \in Nat /\ Cardinality(B) \in Nat
        /\ Cardinality(A \cap B) \in Nat
    <2>1. A \cap B \in SUBSET Readings
      OBVIOUS
    <2> QED
      BY <2>1, ReadingSets
  <1>2. Cardinality(A \cup B)
          = Cardinality(A) + Cardinality(B) - Cardinality(A \cap B)
    BY ReadingSets, FS_Union
  <1> QED
    BY <1>1, <1>2

LEMMA SingleSize ==
  ASSUME NEW A \in SUBSET Readings, NEW x
  PROVE  \A B \in SUBSET Readings :
           B \subseteq A \cup {x} => Cardinality(B) <= Cardinality(A) + 1
  <1> SUFFICES ASSUME NEW B \in SUBSET Readings, B \subseteq A \cup {x}
               PROVE  Cardinality(B) <= Cardinality(A) + 1
    OBVIOUS
  <1>1. IsFiniteSet(A \cup {x}) /\ IsFiniteSet(A)
    BY ReadingSets, FS_AddElement
  <1>2. Cardinality(B) <= Cardinality(A \cup {x}) /\ Cardinality(B) \in Nat
    BY <1>1, ReadingSets, FS_Subset
  <1>3. /\ Cardinality(A) \in Nat /\ Cardinality(A \cup {x}) \in Nat
        /\ Cardinality(A \cup {x}) <= Cardinality(A) + 1
    <2>1. CASE x \in A
      <3>1. A \cup {x} = A
        BY <2>1
      <3> QED
        BY <3>1, ReadingSets
    <2>2. CASE x \notin A
      BY <1>1, <2>2, ReadingSets, FS_AddElement, FS_CardinalityType
    <2> QED
      BY <2>1, <2>2
  <1> QED
    BY <1>2, <1>3

LEMMA QueueSize ==
  ASSUME NEW q \in Seq(Readings)
  PROVE  Range(q) \in SUBSET Readings /\ Cardinality(Range(q)) <= Len(q)
  <1>1. Len(q) \in Nat /\ DOMAIN q = 1..Len(q)
    OBVIOUS
  <1>2. q \in Surjection(1..Len(q), Range(q))
    BY <1>1 DEF Surjection, Range
  <1>3. ExistsSurjection(1..Len(q), Range(q))
    BY <1>2, Zenon DEF ExistsSurjection
  <1> QED
    BY <1>1, <1>3, FS_SurjCardinalityBound DEF Range

LEMMA LossNext ==
  ASSUME SensorInv, SenderFacts, DroppedForGood, S!TypeOK, LossInv, [Next]_vars
  PROVE  LossInv'
  <1> USE TelemetryAssumption DEF SensorInv
  <1>0. /\ measured \in Nat /\ measured' \in Nat /\ resets \in Nat
        /\ resets' = resets \/ resets' = resets + 1
    <2>1. SensorInv'
      BY SensorNext
    <2>2. resets' = resets \/ resets' = resets + 1
      BY DEF Next, vars, senderOwn, SensorStep, Handover, SenderStep,
             NetworkStep, Restart, Sender!Restart, Sender!SenderStep,
             Sender!CreateSocket, Sender!Dequeue, Sender!QueueIsEmpty,
             Sender!Connect, Sender!ConnectFails, Sender!SendDatagram,
             Sender!ReceiveReply, Sender!ReceiveTimesOut, Sender!LoopEnds,
             Sender!TurnLedOff, Sender!WakeUp, Sender!NetworkStep,
             Sender!DeliverReply, Sender!LoseReply, Sender!ServerAnswers,
             Sender!LoseDatagram
    <2> QED
      BY <2>1, <2>2 DEF SenderFacts
  <1>1. Lost \in SUBSET Readings /\ Lost' \in SUBSET Readings
    <2>1. SensorInv'
      BY SensorNext
    <2>2. 1..measured \subseteq Readings /\ 1..measured' \subseteq Readings
      BY <2>1 DEF Readings
    <2> QED
      BY <2>2 DEF Lost
  <1>2. Cardinality(Lost) \in Nat /\ Cardinality(Lost') \in Nat
    BY <1>1, ReadingSets
  <1>3. PerRestart \in Nat /\ resets * PerRestart \in Nat
    BY <1>0 DEF PerRestart
  <1>4. CASE Restart
    <2>1. /\ measured' = measured /\ dropped' = dropped /\ outcome' = outcome
          /\ resets' = resets + 1
      BY <1>4 DEF Restart, Sensor!Restart, Sender!Restart, Sender!history
    <2>2. Lost' \subseteq ((Lost \cup Range(msg_queue)) \cup {measured})
                            \cup {recorded_data}
      BY <2>1 DEF Lost, Somewhere, InQueue, InHand
    <2>3. msg_queue \in Seq(Readings) /\ Len(msg_queue) <= QUEUE_LENGTH
      BY DEF SenderFacts, S!TypeOK, S!BufferTypeOK
    <2> DEFINE A == Lost \cup Range(msg_queue)
               B == (A \cup {measured}) \cap Readings
    <2>4. A \in SUBSET Readings /\ B \in SUBSET Readings
      BY <1>1, <2>3, QueueSize
    <2>5. Cardinality(A) <= Cardinality(Lost) + QUEUE_LENGTH
      <3>1. /\ Cardinality(Range(msg_queue)) <= Len(msg_queue)
            /\ Range(msg_queue) \in SUBSET Readings
        BY <2>3, QueueSize
      <3>2. Cardinality(A) <= Cardinality(Lost) + Cardinality(Range(msg_queue))
        BY <1>1, <3>1, JoinedSize
      <3>3. /\ Cardinality(Range(msg_queue)) \in Nat /\ Len(msg_queue) \in Nat
            /\ Cardinality(A) \in Nat
        BY <2>3, <2>4, <3>1, ReadingSets
      <3> QED
        BY <1>2, <2>3, <3>1, <3>2, <3>3
    <2>6. Cardinality(B) <= Cardinality(A) + 1
      BY <2>4, SingleSize
    <2>7. Cardinality(Lost') <= Cardinality(B) + 1
      <3>1. Lost' \subseteq B \cup {recorded_data}
        BY <1>1, <2>2
      <3> QED
        BY <1>1, <2>4, <3>1, SingleSize
    <2>8. Cardinality(A) \in Nat /\ Cardinality(B) \in Nat
      BY <2>4, ReadingSets
    <2> HIDE DEF A, B
    <2>9. Cardinality(Lost') <= Cardinality(Lost) + PerRestart
      BY <1>2, <2>5, <2>6, <2>7, <2>8 DEF PerRestart
    <2>10. resets' * PerRestart = resets * PerRestart + PerRestart
      BY <1>0, <1>3, <2>1
    <2> QED
      BY <1>2, <1>3, <2>9, <2>10 DEF LossInv
  <1>5. CASE Lost' \subseteq Lost
    <2>1. Cardinality(Lost') <= Cardinality(Lost)
      BY <1>1, <1>5, ReadingSets
    <2>2. /\ (resets + 1) * PerRestart = resets * PerRestart + PerRestart
          /\ resets' * PerRestart \in Nat
      BY <1>0, <1>3
    <2>3. resets * PerRestart <= resets' * PerRestart
      BY <1>0, <1>3, <2>2
    <2> QED
      BY <1>2, <1>3, <2>1, <2>2, <2>3 DEF LossInv
  <1> QED
    BY <1>4, <1>5, PlacesNext

LEMMA PlacesHold == Spec => [](DroppedForGood /\ LossInv)
  <1>1. Init => DroppedForGood
    BY DEF Init, Sensor!Init, DroppedForGood
  <1>2. Init => LossInv
    <2> SUFFICES ASSUME Init PROVE LossInv
      OBVIOUS
    <2>1. Lost = {}
      BY DEF Init, Sensor!Init, Lost
    <2>2. resets = 0 /\ resets * PerRestart = 0
      BY TelemetryAssumption DEF Init, Sender!Init, PerRestart
    <2> QED
      BY <2>1, <2>2, FS_EmptySet DEF LossInv
  <1> QED
    BY <1>1, <1>2, PlacesNext, LossNext, SensorCorrect, FactsHold, SenderTypes, PTL
    DEF Spec

(* While the device does not restart, every reading taken                  *)
(* (aht20_sensor.c:15) is in exactly one place: none vanishes, none is     *)
(* sent or concluded upon twice, whatever the two tasks and the network do *)
(* meanwhile.                                                              *)
THEOREM ReadingsStaySomewhere == Spec => []EveryReadingIsSomewhere
  <1>1. SensorInv /\ SenderFacts /\ LossInv => (resets = 0 => Lost = {})
    <2> SUFFICES ASSUME SensorInv, SenderFacts, LossInv, resets = 0 PROVE Lost = {}
      OBVIOUS
    <2>1. Lost \in SUBSET Readings
      BY TelemetryAssumption DEF Lost, SensorInv, Readings
    <2>2. resets * PerRestart = 0
      BY TelemetryAssumption DEF PerRestart
    <2>3. Cardinality(Lost) = 0
      BY <2>1, <2>2, ReadingSets DEF LossInv
    <2> QED
      BY <2>1, <2>3, ReadingSets, FS_EmptySet
  <1> QED
    BY <1>1, PlacesHold, PlacesAreDistinct, SensorCorrect, FactsHold, PTL
-----------------------------------------------------------------------------
(* What becomes of the readings in all.                                    *)

(* A restart loses the queue and the reading in the hand of either task,   *)
(* and no more (aht20_sensor.c:15, data_server.c:63).                      *)
THEOREM RestartsLoseLittle ==
  Spec => [](Cardinality((1..measured) \ (BeingQueued \cup Waiting \cup BeingSent
                                             \cup dropped \cup Settled))
               <= resets * (QUEUE_LENGTH + 2))
  <1>1. SensorInv =>
          Lost = (1..measured) \ (BeingQueued \cup Waiting \cup BeingSent
                                     \cup dropped \cup Settled)
    <2> SUFFICES ASSUME SensorInv, NEW r \in 1..measured
                 PROVE  Somewhere(r) <=> r \in BeingQueued \cup Waiting
                          \cup BeingSent \cup dropped \cup Settled
      BY DEF Lost
    <2>1. r \in Readings
      BY TelemetryAssumption DEF SensorInv, Readings
    <2> QED
      BY <2>1 DEF Somewhere, InQueue, InHand, BeingQueued, Waiting, BeingSent, Settled
  <1>2. SensorInv /\ LossInv =>
          Cardinality((1..measured) \ (BeingQueued \cup Waiting \cup BeingSent
                                          \cup dropped \cup Settled))
            <= resets * (QUEUE_LENGTH + 2)
    BY <1>1 DEF LossInv, PerRestart
  <1> QED
    BY <1>2, PlacesHold, SensorCorrect, PTL

(* Both instances of the sender count alike.                               *)
LEMMA SameSize ==
  /\ \A A : S!Cardinality(A) = Cardinality(A)
  /\ \A A : Sender!Cardinality(A) = Cardinality(A)
  /\ \A A : S!IsFiniteSet(A) <=> IsFiniteSet(A)
  <1>1. \A A : S!Cardinality(A) = Cardinality(A)
    BY DEF S!Cardinality, Cardinality
  <1>2. \A A : Sender!Cardinality(A) = Cardinality(A)
    BY DEF Sender!Cardinality, Cardinality
  <1>3. \A A : S!IsFiniteSet(A) <=> IsFiniteSet(A)
    BY DEF S!IsFiniteSet, IsFiniteSet
  <1> QED
    BY <1>1, <1>2, <1>3

(* What is proved of the sender holds in the device, with the real sensor  *)
(* task at the other end of the queue: acknowledgements are never invented *)
(* or used twice, stale ones are bounded, and "Data sent successfully"     *)
(* (data_server.c:115) is true as long as no wait has timed out.           *)
THEOREM SenderKeepsItsPromises ==
  Spec => /\ []Sender!AckIsBacked
          /\ []Sender!AckUsedOnce
          /\ []Sender!SilentLossBound
          /\ []Sender!PromptNetworkIsHonest
  <1>1. Spec => S!Spec
    BY SenderIsUsedWell, SameSender DEF UsesSenderWell
  <1>2. S!Spec => /\ []S!AckIsBacked
                  /\ []S!AckUsedOnce
                  /\ []S!SilentLossBound
                  /\ []S!PromptNetworkIsHonest
    BY TelemetryAssumption, S!AcksAreBacked, S!AcksAreUsedOnce,
       S!SilentLossIsBounded, S!PromptAcksAreHonest
  <1>3. S!AckIsBacked => Sender!AckIsBacked
    BY DEF S!AckIsBacked, Sender!AckIsBacked, S!Readings, Sender!Readings
  <1>4. S!AckUsedOnce => Sender!AckUsedOnce
    BY DEF S!AckUsedOnce, Sender!AckUsedOnce, S!Readings, Sender!Readings
  <1>5. S!SilentLossBound => Sender!SilentLossBound
    BY SameSize
       DEF S!SilentLossBound, S!ReportedAndGone, S!Outstanding, S!Awaited,
           S!Readings, Sender!SilentLossBound, Sender!ReportedAndGone,
           Sender!Outstanding, Sender!Awaited, Sender!Readings
  <1>6. S!PromptNetworkIsHonest => Sender!PromptNetworkIsHonest
    BY DEF S!PromptNetworkIsHonest, Sender!PromptNetworkIsHonest, S!Readings,
           Sender!Readings
  <1> QED
    BY <1>1, <1>2, <1>3, <1>4, <1>5, <1>6, PTL

(* What the server has a datagram of, or can still get; and what the       *)
(* device logged as not sent (data_server.c:120, 129).                     *)
Delivered == {r \in Readings : \E d \in toServer \cup served : d.reading = r}
NotSent == {r \in Readings : outcome[r] \in {"failed", "unconnected"}}

Unaccounted ==
  (1..measured) \ (BeingQueued \cup Waiting \cup BeingSent \cup dropped
                     \cup NotSent \cup Delivered)

(* The whole account: a reading the device took is on its way in one of    *)
(* the two tasks, was dropped at the full queue, was logged as not sent,   *)
(* or reached the server, except for QUEUE_LENGTH + 2 at each restart and  *)
(* one for each wait that timed out, restart or duplication.               *)
THEOREM LossIsAccountedFor ==
  Spec => [](Cardinality(Unaccounted)
               <= resets * (QUEUE_LENGTH + 2)
                    + (timeouts + resets + duplicates + Sender!Awaited))
  <1>1. ASSUME SensorInv, SenderFacts, S!TypeOK, LossInv, S!FiniteInv,
               Sender!SilentLossBound
        PROVE  Cardinality(Unaccounted)
                 <= resets * (QUEUE_LENGTH + 2)
                      + (timeouts + resets + duplicates + Sender!Awaited)
    <2> DEFINE Gone == Sender!ReportedAndGone
               T == timeouts + resets + duplicates + Sender!Awaited
    <2>1. 1..measured \in SUBSET Readings
      BY <1>1, TelemetryAssumption DEF SensorInv, Readings
    <2>2. /\ Lost \in SUBSET Readings /\ Gone \in SUBSET Readings
          /\ Lost \cup Gone \in SUBSET Readings
      BY <2>1 DEF Lost, Sender!ReportedAndGone, Sender!Readings, Readings
    <2>3. Unaccounted \subseteq Lost \cup Gone
      <3> SUFFICES ASSUME NEW r \in Unaccounted, r \notin Lost
                   PROVE  r \in Gone
        OBVIOUS
      <3>1. r \in 1..measured /\ r \in Readings
        BY <2>1 DEF Unaccounted
      <3>2. outcome[r] # "none"
        BY <3>1 DEF Lost, Somewhere, InQueue, InHand, Unaccounted, BeingQueued,
                    Waiting, BeingSent
      <3>3. outcome[r] = "acked"
        BY <1>1, <3>1, <3>2 DEF SenderFacts, Unaccounted, NotSent
      <3>4. \A d \in toServer \cup served : d.reading # r
        BY <3>1 DEF Unaccounted, Delivered
      <3> QED
        BY <3>1, <3>3, <3>4 DEF Sender!ReportedAndGone, Sender!Readings, Readings
    <2>4. Cardinality(Unaccounted) <= Cardinality(Lost \cup Gone)
      BY <2>2, <2>3, ReadingSets
    <2>5. Cardinality(Lost \cup Gone) <= Cardinality(Lost) + Cardinality(Gone)
      BY <2>2, JoinedSize
    <2>6. Cardinality(Gone) <= T
      <3>1. Cardinality(Gone) + Sender!Outstanding <= T
        BY <1>1, SameSize DEF Sender!SilentLossBound
      <3>2. /\ Cardinality(toServer) \in Nat /\ Cardinality(toDevice) \in Nat
            /\ Len(recvmbox) \in Nat
        BY <1>1, SameSize, FS_CardinalityType
        DEF S!FiniteInv, S!TypeOK, S!BufferTypeOK
      <3>3. Sender!Outstanding \in Nat
        BY <3>2, SameSize DEF Sender!Outstanding
      <3>4. Cardinality(Gone) \in Nat
        BY <2>2, ReadingSets
      <3>5. T \in Nat
        BY <1>1 DEF S!TypeOK, S!HistoryTypeOK, Sender!Awaited
      <3> HIDE DEF T, Gone
      <3> QED
        BY <3>1, <3>3, <3>4, <3>5
    <2>7. /\ Cardinality(Unaccounted) \in Nat /\ Cardinality(Lost) \in Nat
          /\ Cardinality(Gone) \in Nat /\ Cardinality(Lost \cup Gone) \in Nat
      BY <2>1, <2>2, ReadingSets DEF Unaccounted
    <2>8. T \in Nat /\ resets * PerRestart \in Nat
      BY <1>1, TelemetryAssumption
      DEF S!TypeOK, S!HistoryTypeOK, Sender!Awaited, PerRestart
    <2> HIDE DEF T, Gone
    <2>9. Cardinality(Unaccounted) <= resets * PerRestart + T
      BY <1>1, <2>4, <2>5, <2>6, <2>7, <2>8 DEF LossInv
    <2> QED
      BY <2>9 DEF T, PerRestart
  <1>2. S!Spec => []S!FiniteInv
    BY TelemetryAssumption, S!LossCorrect, PTL
  <1> QED
    BY <1>1, <1>2, SenderKeepsItsPromises, SenderIsUsedWell, SameSender, SensorCorrect,
       FactsHold, SenderTypes, PlacesHold, PTL DEF UsesSenderWell

(* So the delivery path as the sensor task sees it is the abstract courier *)
(* (aht20_sensor.c:17, data_server.c:63).                                  *)
THEOREM DeviceIsACourier == Spec => Sender!ImplementsCourier
  <1> USE DEF S!Busy, Sender!Busy
  <1>1. S!Abstract!Init => Sender!Abstract!Init
    BY DEF S!Abstract!Init, S!Abstract!Readings, Sender!Abstract!Init,
           Sender!Abstract!Readings
  <1>2. [S!Abstract!Next]_(S!Abstract!vars)
          => [Sender!Abstract!Next]_(Sender!Abstract!vars)
    BY DEF S!Abstract!Next, S!Abstract!vars, S!Abstract!Accept, S!Abstract!Begin,
           S!Abstract!Settle, S!Abstract!Restart, S!Abstract!Readings,
           S!Verdicts, Sender!Abstract!Next, Sender!Abstract!vars,
           Sender!Abstract!Accept, Sender!Abstract!Begin,
           Sender!Abstract!Settle, Sender!Abstract!Restart,
           Sender!Abstract!Readings, Sender!Verdicts
  <1>3. S!Spec => S!ImplementsCourier
    BY TelemetryAssumption, S!CourierImplemented
  <1> QED
    BY <1>1, <1>2, <1>3, SenderIsUsedWell, SameSender, PTL
    DEF UsesSenderWell, S!ImplementsCourier, Sender!ImplementsCourier,
        S!Abstract!Spec, Sender!Abstract!Spec
=============================================================================
