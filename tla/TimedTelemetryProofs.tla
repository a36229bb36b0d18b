------------------------- MODULE TimedTelemetryProofs -------------------------
(***************************************************************************)
(* Theorems about TimedTelemetry, for every choice of its times: the       *)
(* types, the bound on the age of a reading when its time is read, and     *)
(* that a slow enough sensor loses nothing.  Both rest on one measure, the *)
(* longest time until the sender task looks at the queue again.            *)
(***************************************************************************)
EXTENDS TimedTelemetry, SequenceTheorems, TLAPS

Rest == (UDP_MAX_ATTEMPTS - udp_attempts) * UDP_TIMEOUT

ToPoll ==
  IF sender = "led" THEN senderLeft + Exchange + SEND_DATA_SECONDS
  ELSE IF sender \in {"attempt", "recv"} THEN senderLeft + Rest + SEND_DATA_SECONDS
  ELSE senderLeft

(* The sender task waits only where it does, and never longer than Cycle.  *)
SenderOnTime ==
  /\ sender \in {"poll", "attempt"} => senderLeft = 0
  /\ ToPoll \in Nat
  /\ ToPoll <= Cycle

Oldest == QueueWait + QUEUE_LENGTH * Cycle

(* The reading at place i of the queue is taken up after i - 1 others.     *)
AgesAreBounded ==
  /\ sensor = "send" => age + sensorLeft <= QueueWait
  /\ \A i \in 1..Len(msg_queue) : msg_queue[i] + ToPoll + (i - 1) * Cycle <= Oldest
  /\ sender = "led" => recorded + senderLeft <= Oldest + LedDelay
  /\ stamped <= Oldest + LedDelay

LEMMA Times ==
  /\ Exchange \in Nat /\ Cycle \in Nat /\ Oldest \in Nat
  /\ Cycle = LedDelay + Exchange + SEND_DATA_SECONDS
  BY TimesAssumption DEF Exchange, Cycle, Oldest

(* What is left of an exchange, and how one attempt shortens it.           *)
LEMMA Rests ==
  ASSUME udp_attempts \in 0..UDP_MAX_ATTEMPTS
  PROVE  /\ Rest \in Nat
         /\ udp_attempts = 0 => Rest = Exchange
         /\ udp_attempts < UDP_MAX_ATTEMPTS =>
              Rest = UDP_TIMEOUT
                       + (UDP_MAX_ATTEMPTS - (udp_attempts + 1)) * UDP_TIMEOUT
  BY TimesAssumption DEF Rest, Exchange

LEMMA Multiples ==
  ASSUME NEW m \in Nat, NEW n \in Nat, NEW c \in Nat, m <= n
  PROVE  m * c \in Nat /\ m * c <= n * c /\ (m + 1) * c = m * c + c
  <1>1. n * c = m * c + (n - m) * c
    OBVIOUS
  <1>2. (n - m) * c \in Nat /\ m * c \in Nat
    OBVIOUS
  <1> QED
    BY <1>1, <1>2
-----------------------------------------------------------------------------
(* Types.                                                                  *)
LEMMA InitTypes == Init => TypeOK
  <1> SUFFICES ASSUME Init PROVE TypeOK
    OBVIOUS
  <1>1. dropped \in BOOLEAN
    BY DEF Init
  <1>2. sensorLeft \in Nat
    BY TimesAssumption DEF Init
  <1>3. msg_queue \in Seq(Nat) /\ Len(msg_queue) = 0
    BY DEF Init
  <1> QED
    BY <1>1, <1>2, <1>3, TimesAssumption DEF Init, TypeOK

LEMMA NextTypes == TypeOK /\ [Next]_vars => TypeOK'
  <1> SUFFICES ASSUME TypeOK, [Next]_vars PROVE TypeOK'
    OBVIOUS
  <1> USE TimesAssumption DEF TypeOK
  <1>period. READ_SENSOR_SECONDS' = READ_SENSOR_SECONDS
    BY DEF Next, vars
  <1> USE <1>period
  <1>1. CASE SensorStep
    <2>1. dropped' \in BOOLEAN
      BY <1>1 DEF SensorStep, Measured, MeasureFails, Enqueue, EnqueueFails,
                  SensorWakesUp
    <2>2. CASE Measured \/ MeasureFails \/ EnqueueFails \/ SensorWakesUp
      BY <2>1, <2>2 DEF Measured, MeasureFails, EnqueueFails, SensorWakesUp,
                        SensorSleeps, senderVars
    <2>3. CASE Enqueue
      <3>1. msg_queue' \in Seq(Nat) /\ Len(msg_queue') <= QUEUE_LENGTH
        BY <2>3 DEF Enqueue
      <3> QED
        BY <2>1, <2>3, <3>1 DEF Enqueue, SensorSleeps, senderVars
    <2> QED
      BY <1>1, <2>2, <2>3 DEF SensorStep
  <1>2. CASE SenderStep
    <2>1. CASE Dequeue
      BY <2>1 DEF Dequeue, sensorVars
    <2>2. CASE QueueIsEmpty \/ Stamp \/ ReceiveAck \/ ReceiveNoAck \/ GiveUp
      BY <2>2 DEF QueueIsEmpty, Stamp, ReceiveAck, ReceiveNoAck, GiveUp,
                  SenderSleeps, sensorVars
    <2>3. CASE SendDatagram \/ SenderWakesUp
      BY <2>3 DEF SendDatagram, KeepsSending, SenderWakesUp, sensorVars
    <2> QED
      BY <1>2, <2>1, <2>2, <2>3 DEF SenderStep
  <1>3. CASE Tick
    <2>1. msg_queue' \in Seq(Nat) /\ Len(msg_queue') = Len(msg_queue)
      BY <1>3 DEF Tick
    <2> QED
      BY <1>3, <2>1 DEF Tick
  <1>4. CASE UNCHANGED vars
    BY <1>4 DEF vars, sensorVars, senderVars
  <1> QED
    BY <1>1, <1>2, <1>3, <1>4 DEF Next

(* No more attempts than UDP_MAX_ATTEMPTS, no more readings than fit.      *)
THEOREM TypeCorrect == Spec => []TypeOK
  BY InitTypes, NextTypes, PTL DEF Spec
-----------------------------------------------------------------------------
(* How the steps move the next look at the queue.                          *)
LEMMA InitOnTime == Init => SenderOnTime
  BY Times DEF Init, SenderOnTime, ToPoll

LEMMA SenderStepTimes ==
  ASSUME TypeOK, SenderOnTime, SenderStep
  PROVE  /\ SenderOnTime'
         /\ Dequeue => ToPoll = 0 /\ ToPoll' = Cycle
         /\ Dequeue \/ QueueIsEmpty \/ ToPoll' <= ToPoll
  <1> USE TimesAssumption, Times DEF TypeOK, SenderOnTime
  <1>1. CASE Dequeue
    BY <1>1 DEF Dequeue, ToPoll
  <1>2. CASE QueueIsEmpty
    BY <1>2 DEF QueueIsEmpty, SenderSleeps, ToPoll, Dequeue
  <1>3. CASE Stamp
    <2>1. udp_attempts' = 0 /\ ToPoll = Exchange + SEND_DATA_SECONDS
      BY <1>3 DEF Stamp, ToPoll
    <2>2. Rest' = Exchange
      BY <2>1 DEF Rest, Exchange
    <2> QED
      BY <1>3, <2>1, <2>2 DEF Stamp, SenderSleeps, ToPoll, Dequeue
  <1>4. CASE SendDatagram
    <2>1. Rest = UDP_TIMEOUT + Rest' /\ Rest' \in Nat
      <3>1. /\ udp_attempts < UDP_MAX_ATTEMPTS /\ udp_attempts' = udp_attempts + 1
            /\ udp_attempts' \in 0..UDP_MAX_ATTEMPTS
        BY <1>4 DEF SendDatagram, KeepsSending
      <3>2. Rest = UDP_TIMEOUT + Rest'
        BY <3>1, Rests DEF Rest
      <3>3. Rest' \in Nat
        <4>1. UDP_MAX_ATTEMPTS - udp_attempts' \in Nat
          BY <3>1
        <4>2. \A m, n \in Nat : m * n \in Nat
          OBVIOUS
        <4> QED
          BY <4>1, <4>2 DEF Rest
      <3> QED
        BY <3>2, <3>3
    <2>2. ToPoll' = ToPoll
      BY <1>4, <2>1 DEF SendDatagram, ToPoll
    <2>3. sender' = "recv" /\ ~Dequeue
      BY <1>4 DEF SendDatagram, Dequeue
    <2>4. ToPoll \in Nat /\ ToPoll <= Cycle
      OBVIOUS
    <2> QED
      BY <2>2, <2>3, <2>4 DEF Cycle, Exchange
  <1>5. CASE ReceiveAck \/ GiveUp
    BY <1>5, Rests DEF ReceiveAck, GiveUp, SenderSleeps, ToPoll, Dequeue
  <1>6. CASE ReceiveNoAck
    <2>1. Rest' = Rest
      BY <1>6 DEF ReceiveNoAck, Rest
    <2> QED
      BY <1>6, <2>1, Rests DEF ReceiveNoAck, ToPoll, Dequeue
  <1>7. CASE SenderWakesUp
    BY <1>7 DEF SenderWakesUp, ToPoll, Dequeue
  <1> QED
    BY <1>1, <1>2, <1>3, <1>4, <1>5, <1>6, <1>7 DEF SenderStep

LEMMA SenderWaits ==
  ASSUME TypeOK, SenderOnTime, UNCHANGED <<sender, senderLeft, udp_attempts>>
  PROVE  SenderOnTime' /\ ToPoll' = ToPoll
  <1>1. Rest' = Rest
    BY DEF Rest
  <1> QED
    BY <1>1 DEF SenderOnTime, ToPoll

LEMMA TickTimes ==
  ASSUME TypeOK, SenderOnTime, Tick
  PROVE  SenderOnTime' /\ ToPoll' = ToPoll - 1
  <1>1. Rest' = Rest /\ Rest \in Nat
    BY Rests DEF Tick, Rest, TypeOK
  <1> QED
    BY <1>1, Times, TimesAssumption DEF TypeOK, SenderOnTime, Tick, ToPoll
-----------------------------------------------------------------------------
(* The age of a reading.                                                   *)
AgeInv == TypeOK /\ SenderOnTime /\ AgesAreBounded

LEMMA InitAges == Init => AgesAreBounded
  <1> SUFFICES ASSUME Init PROVE AgesAreBounded
    OBVIOUS
  <1>1. Len(msg_queue) = 0 /\ sensor # "send" /\ sender # "led" /\ stamped = 0
    BY DEF Init
  <1> QED
    BY <1>1, Times, TimesAssumption DEF AgesAreBounded

(* A reading that comes last finds room for its wait in the bound.         *)
LEMMA EnqueueAges ==
  ASSUME AgeInv, Enqueue
  PROVE  AgesAreBounded'
  <1> DEFINE n == Len(msg_queue)
  <1>1. /\ n \in Nat /\ n < QUEUE_LENGTH /\ Len(msg_queue') = n + 1
        /\ msg_queue'[n + 1] = age
        /\ \A i \in 1..n : msg_queue'[i] = msg_queue[i]
    BY DEF Enqueue, AgeInv, TypeOK
  <1>2. ToPoll' = ToPoll /\ ToPoll \in Nat /\ ToPoll <= Cycle
    BY SenderWaits DEF AgeInv, SenderOnTime, Enqueue, senderVars
  <1>3. age <= QueueWait /\ age \in Nat
    BY TimesAssumption DEF AgeInv, AgesAreBounded, TypeOK, Enqueue
  <1>4. n * Cycle \in Nat /\ n * Cycle + Cycle <= QUEUE_LENGTH * Cycle
    BY <1>1, Times, TimesAssumption, Multiples
  <1>5. age + ToPoll + n * Cycle <= Oldest
    BY <1>2, <1>3, <1>4, Times, TimesAssumption DEF Oldest
  <1>6. \A i \in 1..(n + 1) : msg_queue'[i] + ToPoll' + (i - 1) * Cycle <= Oldest
    <2> SUFFICES ASSUME NEW i \in 1..(n + 1)
                 PROVE  msg_queue'[i] + ToPoll' + (i - 1) * Cycle <= Oldest
      OBVIOUS
    <2>1. CASE i = n + 1
      BY <1>1, <1>2, <1>5, <2>1
    <2>2. CASE i \in 1..n
      BY <1>1, <1>2, <2>2 DEF AgeInv, AgesAreBounded
    <2> QED
      BY <1>1, <2>1, <2>2
  <1> QED
    BY <1>1, <1>6 DEF AgeInv, AgesAreBounded, Enqueue, SensorSleeps, senderVars,
                      Oldest, Cycle, Exchange

(* When the first reading is taken, each of the others moves one place up. *)
LEMMA DequeueAges ==
  ASSUME AgeInv, Dequeue
  PROVE  AgesAreBounded'
  <1> DEFINE n == Len(msg_queue)
  <1>1. /\ n \in Nat \ {0} /\ Len(msg_queue') = n - 1
        /\ recorded' = msg_queue[1]
        /\ \A i \in 1..(n - 1) : msg_queue'[i] = msg_queue[i + 1]
        /\ \A i \in 1..n : msg_queue[i] \in Nat
    BY DEF Dequeue, AgeInv, TypeOK
  <1>2. ToPoll = 0 /\ ToPoll' = Cycle
    BY SenderStepTimes DEF AgeInv, SenderStep
  <1>3. \A i \in 1..n : msg_queue[i] + (i - 1) * Cycle <= Oldest
    <2> SUFFICES ASSUME NEW i \in 1..n
                 PROVE  msg_queue[i] + (i - 1) * Cycle <= Oldest
      OBVIOUS
    <2>1. msg_queue[i] + ToPoll + (i - 1) * Cycle <= Oldest
      BY DEF AgeInv, AgesAreBounded
    <2> QED
      BY <1>1, <1>2, <2>1
  <1>4. recorded' <= Oldest
    <2>1. msg_queue[1] + 0 * Cycle <= Oldest
      BY <1>1, <1>3
    <2> QED
      BY <1>1, <2>1, Times
  <1>5. \A i \in 1..(n - 1) : msg_queue'[i] + ToPoll' + (i - 1) * Cycle <= Oldest
    <2> SUFFICES ASSUME NEW i \in 1..(n - 1)
                 PROVE  msg_queue'[i] + ToPoll' + (i - 1) * Cycle <= Oldest
      OBVIOUS
    <2>1. i \in Nat \ {0} /\ i + 1 \in 1..n
      BY <1>1
    <2>2. msg_queue[i + 1] + ((i + 1) - 1) * Cycle <= Oldest
      BY <1>3, <2>1
    <2>3. (i + 1) - 1 = (i - 1) + 1
      BY <2>1
    <2>4. ((i - 1) + 1) * Cycle = (i - 1) * Cycle + Cycle /\ (i - 1) * Cycle \in Nat
      BY <2>1, Times, Multiples
    <2>5. msg_queue'[i] = msg_queue[i + 1] /\ msg_queue[i + 1] \in Nat
      BY <1>1, <2>1
    <2>6. msg_queue[i + 1] + ((i - 1) * Cycle + Cycle) <= Oldest
      <3>1. ((i + 1) - 1) * Cycle = (i - 1) * Cycle + Cycle
        BY ONLY <2>3, <2>4
      <3> QED
        BY ONLY <2>2, <3>1
    <2>7. msg_queue'[i] + ToPoll' + (i - 1) * Cycle
            = msg_queue[i + 1] + ((i - 1) * Cycle + Cycle)
      <3>1. \A a, b, c \in Nat : a + c + b = a + (b + c)
        OBVIOUS
      <3>2. (i - 1) * Cycle \in Nat /\ Cycle \in Nat
        BY <2>4, Times
      <3>3. msg_queue'[i] + ToPoll' + (i - 1) * Cycle
              = msg_queue[i + 1] + Cycle + (i - 1) * Cycle
        BY <1>2, <2>5
      <3> QED
        BY <2>5, <3>1, <3>2, <3>3
    <2> QED
      BY <2>6, <2>7
  <1>6. recorded' + senderLeft' <= Oldest + LedDelay
    BY <1>1, <1>4, Times, TimesAssumption DEF Dequeue
  <1> QED
    BY <1>1, <1>5, <1>6
    DEF AgeInv, AgesAreBounded, Dequeue, sensorVars, Oldest, Cycle, Exchange

(* While time passes, readings age as fast as the next look comes nearer.  *)
LEMMA TickAges ==
  ASSUME AgeInv, Tick
  PROVE  AgesAreBounded'
  <1> DEFINE n == Len(msg_queue)
  <1>1. /\ n \in Nat /\ Len(msg_queue') = n
        /\ \A i \in 1..n : msg_queue'[i] = msg_queue[i] + 1 /\ msg_queue[i] \in Nat
    BY DEF Tick, AgeInv, TypeOK
  <1>2. ToPoll' = ToPoll - 1 /\ ToPoll \in Nat
    BY TickTimes DEF AgeInv, SenderOnTime
  <1>3. \A i \in 1..n : msg_queue'[i] + ToPoll' + (i - 1) * Cycle <= Oldest
    <2> SUFFICES ASSUME NEW i \in 1..n
                 PROVE  msg_queue'[i] + ToPoll' + (i - 1) * Cycle <= Oldest
      OBVIOUS
    <2>1. msg_queue[i] + ToPoll + (i - 1) * Cycle <= Oldest
      BY DEF AgeInv, AgesAreBounded
    <2>2. msg_queue'[i] + ToPoll' = msg_queue[i] + ToPoll
      BY <1>1, <1>2
    <2> QED
      BY <2>1, <2>2
  <1>4. sensor' = "send" => age' + sensorLeft' <= QueueWait
    BY TimesAssumption DEF Tick, AgeInv, AgesAreBounded, TypeOK
  <1>5. sender' = "led" => recorded' + senderLeft' <= Oldest + LedDelay
    BY Times, TimesAssumption DEF Tick, AgeInv, AgesAreBounded, TypeOK
  <1>6. stamped' = stamped
    BY DEF Tick
  <1> QED
    BY <1>1, <1>3, <1>4, <1>5, <1>6
    DEF AgeInv, AgesAreBounded, Oldest, Cycle, Exchange

(* A step that takes nothing from the queue and brings the next look no    *)
(* later keeps the ages in their bound.                                    *)
LEMMA OtherAges ==
  ASSUME AgeInv, UNCHANGED msg_queue, ToPoll' \in Nat,
         msg_queue = <<>> \/ ToPoll' <= ToPoll,
         sensor' = "send" => age' + sensorLeft' <= QueueWait,
         sender' = "led" => sender = "led" /\ UNCHANGED <<recorded, senderLeft>>,
         stamped' <= Oldest + LedDelay
  PROVE  AgesAreBounded'
  <1>1. \A i \in 1..Len(msg_queue) :
          msg_queue[i] + ToPoll' + (i - 1) * Cycle <= Oldest
    <2> SUFFICES ASSUME NEW i \in 1..Len(msg_queue)
                 PROVE  msg_queue[i] + ToPoll' + (i - 1) * Cycle <= Oldest
      OBVIOUS
    <2>1. msg_queue[i] + ToPoll + (i - 1) * Cycle <= Oldest
      BY DEF AgeInv, AgesAreBounded
    <2>2. msg_queue[i] \in Nat /\ i \in Nat \ {0} /\ ToPoll' <= ToPoll
      BY DEF AgeInv, TypeOK
    <2>3. (i - 1) * Cycle \in Nat
      BY <2>2, Times, Multiples
    <2> QED
      BY <2>1, <2>2, <2>3, Times DEF AgeInv, SenderOnTime
  <1> QED
    BY <1>1 DEF AgeInv, AgesAreBounded, Oldest, Cycle, Exchange

LEMMA NextAges == AgeInv /\ [Next]_vars => AgeInv'
  <1> SUFFICES ASSUME AgeInv, [Next]_vars PROVE AgeInv'
    OBVIOUS
  <1>1. TypeOK'
    BY NextTypes DEF AgeInv
  <1> USE DEF AgeInv
  <1>2. CASE SensorStep
    <2>1. SenderOnTime' /\ ToPoll' = ToPoll /\ ToPoll \in Nat
      <3>1. UNCHANGED senderVars
        BY <1>2 DEF SensorStep, Measured, MeasureFails, Enqueue, EnqueueFails,
                    SensorWakesUp
      <3> QED
        BY <3>1, SenderWaits DEF senderVars, SenderOnTime
    <2>2. CASE Enqueue
      BY <1>1, <2>1, <2>2, EnqueueAges
    <2>3. CASE Measured \/ MeasureFails \/ EnqueueFails \/ SensorWakesUp
      <3>1. sensor' = "send" => age' + sensorLeft' <= QueueWait
        BY <2>3, TimesAssumption
        DEF Measured, MeasureFails, EnqueueFails, SensorWakesUp, SensorSleeps
      <3>2. UNCHANGED <<msg_queue, sender, recorded, senderLeft, stamped>>
        BY <2>3 DEF Measured, MeasureFails, EnqueueFails, SensorWakesUp, senderVars
      <3> QED
        BY <1>1, <2>1, <3>1, <3>2, OtherAges DEF AgesAreBounded
    <2> QED
      BY <1>2, <2>2, <2>3 DEF SensorStep
  <1>3. CASE SenderStep
    <2>1. SenderOnTime' /\ (Dequeue \/ QueueIsEmpty \/ ToPoll' <= ToPoll)
      BY <1>3, SenderStepTimes
    <2>2. CASE Dequeue
      BY <1>1, <2>1, <2>2, DequeueAges
    <2>3. CASE Stamp
      <3>1. /\ stamped' <= Oldest + LedDelay
            /\ sender' # "led" /\ ~Dequeue /\ ~QueueIsEmpty
        BY <2>3, Times, TimesAssumption
        DEF Stamp, SenderSleeps, AgesAreBounded, TypeOK, Dequeue, QueueIsEmpty
      <3>2. UNCHANGED <<msg_queue, sensor, age, sensorLeft>>
        BY <2>3 DEF Stamp, sensorVars
      <3> QED
        BY <1>1, <2>1, <3>1, <3>2, OtherAges DEF AgesAreBounded, SenderOnTime
    <2>4. CASE QueueIsEmpty \/ SendDatagram \/ ReceiveAck \/ ReceiveNoAck \/ GiveUp
               \/ SenderWakesUp
      <3>1. sender' # "led" /\ ~Dequeue
        BY <2>4 DEF QueueIsEmpty, SendDatagram, ReceiveAck, ReceiveNoAck, GiveUp,
                    SenderWakesUp, SenderSleeps, Dequeue
      <3>2. UNCHANGED <<msg_queue, sensor, age, sensorLeft, stamped>>
        BY <2>4 DEF QueueIsEmpty, SendDatagram, ReceiveAck, ReceiveNoAck, GiveUp,
                    SenderWakesUp, sensorVars
      <3>3. QueueIsEmpty => msg_queue = <<>>
        BY DEF QueueIsEmpty
      <3> QED
        BY <1>1, <2>1, <3>1, <3>2, <3>3, OtherAges DEF AgesAreBounded, SenderOnTime
    <2> QED
      BY <1>3, <2>2, <2>3, <2>4 DEF SenderStep
  <1>4. CASE Tick
    BY <1>1, <1>4, TickTimes, TickAges
  <1>5. CASE UNCHANGED vars
    <2>1. SenderOnTime' /\ ToPoll' = ToPoll
      BY <1>5, SenderWaits DEF vars, senderVars
    <2> QED
      BY <1>1, <1>5, <2>1, OtherAges
      DEF vars, sensorVars, senderVars, AgesAreBounded, SenderOnTime
  <1> QED
    BY <1>2, <1>3, <1>4, <1>5 DEF Next

LEMMA AgesInvariant == Spec => []AgeInv
  <1>1. Init => AgeInv
    BY InitTypes, InitOnTime, InitAges DEF AgeInv
  <1> QED
    BY <1>1, NextAges, PTL DEF Spec

(* However long its readings wait, the time a message bears is later than  *)
(* its measurement by no more than the waits of the queue and the          *)
(* exchanges before it (data_server.c:73).                                 *)
THEOREM StampsAreBounded == Spec => []StampAgeIsBounded
  <1>1. AgeInv => StampAgeIsBounded
    BY DEF AgeInv, AgesAreBounded, StampAgeIsBounded, Oldest
  <1> QED
    BY <1>1, AgesInvariant, PTL
-----------------------------------------------------------------------------
(* A slow sensor.                                                          *)
ToSend ==
  IF sensor = "sleep" THEN sensorLeft + MeasureMin
  ELSE IF sensor = "measure" THEN sensorLeft ELSE 0

Slow == Cycle <= READ_SENSOR_SECONDS + MeasureMin

(* Every reading in the queue is taken out before the next one comes, so a *)
(* reading never waits for room.                                           *)
QueueIsEmptied ==
  /\ ~dropped
  /\ sensor = "send" => sensorLeft = QueueWait
  /\ msg_queue # <<>> => ToPoll + (Len(msg_queue) - 1) * Cycle <= ToSend

SlowInv == TypeOK /\ SenderOnTime /\ (Slow => QueueIsEmptied)

LEMMA EnqueueSlow ==
  ASSUME TypeOK, SenderOnTime, Slow, QueueIsEmptied, Enqueue
  PROVE  QueueIsEmptied'
  <1> DEFINE n == Len(msg_queue)
  <1>1. n \in Nat /\ Len(msg_queue') = n + 1 /\ (n = 0 <=> msg_queue = <<>>)
    BY DEF Enqueue, TypeOK
  <1>2. ToPoll' = ToPoll /\ ToPoll \in Nat /\ ToPoll <= Cycle
    BY SenderWaits DEF Enqueue, senderVars, SenderOnTime
  <1>3. ToSend = 0 /\ ToSend' = READ_SENSOR_SECONDS + MeasureMin /\ sensor' = "sleep"
    BY DEF Enqueue, SensorSleeps, ToSend
  <1>4. Cycle <= ToSend'
    BY <1>3 DEF Slow
  <1>5. ToPoll + n * Cycle <= ToSend'
    <2>1. CASE n = 0
      BY <1>2, <1>4, <2>1, Times, <1>3, TimesAssumption
    <2>2. CASE n # 0
      <3>1. ToPoll + (n - 1) * Cycle <= 0 /\ n - 1 \in Nat
        BY <1>1, <1>3, <2>2 DEF QueueIsEmptied
      <3>2. /\ (n - 1) * Cycle \in Nat
            /\ ((n - 1) + 1) * Cycle = (n - 1) * Cycle + Cycle
        BY <3>1, Times, Multiples
      <3>3. (n - 1) + 1 = n
        BY <1>1
      <3>4. n * Cycle = (n - 1) * Cycle + Cycle
        BY ONLY <3>2, <3>3
      <3>5. ToPoll = 0 /\ (n - 1) * Cycle = 0
        BY <1>2, <3>1, <3>2
      <3> QED
        BY <1>4, <3>4, <3>5, Times
    <2> QED
      BY <2>1, <2>2
  <1>6. ~dropped'
    BY DEF Enqueue, QueueIsEmptied
  <1> QED
    BY <1>1, <1>2, <1>3, <1>5, <1>6 DEF QueueIsEmptied

LEMMA DequeueSlow ==
  ASSUME TypeOK, SenderOnTime, QueueIsEmptied, Dequeue
  PROVE  QueueIsEmptied'
  <1> DEFINE n == Len(msg_queue)
  <1>1. n \in Nat \ {0} /\ Len(msg_queue') = n - 1 /\ msg_queue # <<>>
    BY DEF Dequeue, TypeOK
  <1>2. ToPoll = 0 /\ ToPoll' = Cycle
    BY SenderStepTimes DEF SenderStep
  <1>3. UNCHANGED <<dropped, sensor, sensorLeft>> /\ ToSend' = ToSend
    BY DEF Dequeue, sensorVars, ToSend
  <1>4. (n - 1) * Cycle <= ToSend /\ (n - 1) * Cycle \in Nat
    BY <1>1, <1>2, Times, Multiples DEF QueueIsEmptied
  <1>5. n - 1 # 0 => Cycle + ((n - 1) - 1) * Cycle <= ToSend
    <2> SUFFICES ASSUME n - 1 # 0 PROVE Cycle + ((n - 1) - 1) * Cycle <= ToSend
      OBVIOUS
    <2>1. (n - 1) - 1 \in Nat /\ ((n - 1) - 1) + 1 = n - 1
      BY <1>1
    <2>2. (((n - 1) - 1) + 1) * Cycle = ((n - 1) - 1) * Cycle + Cycle
          /\ ((n - 1) - 1) * Cycle \in Nat
      BY <2>1, Times, Multiples
    <2>3. (n - 1) * Cycle = ((n - 1) - 1) * Cycle + Cycle
      BY ONLY <2>1, <2>2
    <2> QED
      BY <1>4, <2>2, <2>3, Times
  <1>6. msg_queue' # <<>> => n - 1 # 0
    BY <1>1 DEF Dequeue, TypeOK
  <1> QED
    BY <1>1, <1>2, <1>3, <1>5, <1>6 DEF QueueIsEmptied

(* A step that neither puts in nor takes out, and that brings the sender   *)
(* task at least as much nearer to the queue as the sensor task.           *)
LEMMA Shifted ==
  \A p, p1, s, s1, m \in Nat : p1 + s <= p + s1 /\ p + m <= s => p1 + m <= s1
  OBVIOUS

LEMMA Nearer ==
  \A p, p1, s, s1 \in Nat : p1 <= p /\ s <= s1 => p1 + s <= p + s1
  OBVIOUS

LEMMA Same == \A p \in Nat : p <= p
  OBVIOUS

LEMMA OtherSlow ==
  ASSUME TypeOK, SenderOnTime, QueueIsEmptied,
         Len(msg_queue') = Len(msg_queue), msg_queue' # <<>> => msg_queue # <<>>,
         ~dropped', sensor' = "send" => sensorLeft' = QueueWait,
         ToPoll' \in Nat, ToSend \in Nat, ToSend' \in Nat,
         msg_queue = <<>> \/ ToPoll' + ToSend <= ToPoll + ToSend'
  PROVE  QueueIsEmptied'
  <1>1. msg_queue' # <<>> => ToPoll' + (Len(msg_queue) - 1) * Cycle <= ToSend'
    <2> SUFFICES ASSUME msg_queue' # <<>>
                 PROVE  ToPoll' + (Len(msg_queue) - 1) * Cycle <= ToSend'
      OBVIOUS
    <2>1. Len(msg_queue) - 1 \in Nat
      BY DEF TypeOK
    <2>2. (Len(msg_queue) - 1) * Cycle \in Nat
      BY <2>1, Times, Multiples
    <2>3. ToPoll + (Len(msg_queue) - 1) * Cycle <= ToSend
      BY DEF QueueIsEmptied
    <2>4. ToPoll \in Nat /\ ToPoll' + ToSend <= ToPoll + ToSend'
      BY DEF SenderOnTime
    <2>5. ToPoll' \in Nat /\ ToSend \in Nat /\ ToSend' \in Nat
      OBVIOUS
    <2> DEFINE m == (Len(msg_queue) - 1) * Cycle
    <2>6. m \in Nat /\ ToPoll + m <= ToSend
      BY <2>2, <2>3
    <2> HIDE DEF m
    <2>7. ToPoll' + m <= ToSend'
      BY ONLY <2>4, <2>5, <2>6, Shifted
    <2> QED
      BY <2>7 DEF m
  <1> QED
    BY <1>1 DEF QueueIsEmptied

LEMMA SendTimes == TypeOK => ToSend \in Nat
  BY TimesAssumption DEF TypeOK, ToSend

LEMMA NextSlow == SlowInv /\ [Next]_vars => SlowInv'
  <1> SUFFICES ASSUME SlowInv, [Next]_vars PROVE SlowInv'
    OBVIOUS
  <1> USE DEF SlowInv
  <1>1. TypeOK'
    BY NextTypes
  <1>times. ToSend \in Nat /\ ToSend' \in Nat
    <2>1. \A left \in Nat : left + MeasureMin \in Nat
      BY TimesAssumption
    <2>2. sensorLeft' \in Nat
      BY <1>1 DEF TypeOK
    <2>3. ToSend' \in Nat
      BY ONLY <2>1, <2>2 DEF ToSend
    <2> QED
      BY SendTimes, <2>3
  <1>2. Slow' <=> Slow
    <2>1. READ_SENSOR_SECONDS' = READ_SENSOR_SECONDS
      BY DEF Next, vars
    <2> QED
      BY <2>1 DEF Slow, Cycle, Exchange
  <1>3. CASE SensorStep
    <2>1. SenderOnTime' /\ ToPoll' = ToPoll /\ ToPoll \in Nat
      <3>1. UNCHANGED senderVars
        BY <1>3 DEF SensorStep, Measured, MeasureFails, Enqueue, EnqueueFails,
                    SensorWakesUp
      <3> QED
        BY <3>1, SenderWaits DEF senderVars, SenderOnTime
    <2> SUFFICES ASSUME Slow PROVE QueueIsEmptied'
      BY <1>1, <1>2, <2>1
    <2>2. CASE Enqueue
      BY <2>2, EnqueueSlow
    <2>3. CASE EnqueueFails
      BY <2>3, TimesAssumption DEF EnqueueFails, QueueIsEmptied
    <2>4. CASE Measured \/ MeasureFails \/ SensorWakesUp
      <3>period. READ_SENSOR_SECONDS \in Nat
        BY TimesAssumption DEF TypeOK
      <3>1. ToSend <= ToSend' /\ (sensor' = "send" => sensorLeft' = QueueWait)
        BY <2>4, <3>period, TimesAssumption
        DEF Measured, MeasureFails, SensorWakesUp, SensorSleeps, ToSend
      <3>2. UNCHANGED <<msg_queue, dropped>>
        BY <2>4 DEF Measured, MeasureFails, SensorWakesUp
      <3>3. ~dropped'
        BY <3>2 DEF QueueIsEmptied
      <3>4. ToPoll' + ToSend <= ToPoll + ToSend'
        BY ONLY <1>times, <2>1, <3>1, Nearer, Same
      <3> QED
        BY <1>times, <2>1, <3>1, <3>2, <3>3, <3>4, OtherSlow
    <2> QED
      BY <1>3, <2>2, <2>3, <2>4 DEF SensorStep
  <1>4. CASE SenderStep
    <2>1. SenderOnTime' /\ (Dequeue \/ QueueIsEmpty \/ ToPoll' <= ToPoll)
      BY <1>4, SenderStepTimes
    <2> SUFFICES ASSUME Slow PROVE QueueIsEmptied'
      BY <1>1, <1>2, <2>1
    <2>2. CASE Dequeue
      BY <2>2, DequeueSlow
    <2>3. CASE ~Dequeue
      <3>1. UNCHANGED <<msg_queue, sensor, sensorLeft, dropped>>
        BY <1>4, <2>3 DEF SenderStep, QueueIsEmpty, Stamp, SendDatagram, ReceiveAck,
                          ReceiveNoAck, GiveUp, SenderWakesUp, sensorVars
      <3>2. ToSend' = ToSend
        BY <3>1 DEF ToSend
      <3>3. QueueIsEmpty => msg_queue = <<>>
        BY DEF QueueIsEmpty
      <3>4. msg_queue = <<>> \/ ToPoll' + ToSend <= ToPoll + ToSend'
        <4>1. ToPoll \in Nat /\ ToPoll' \in Nat
          BY <2>1 DEF SenderOnTime
        <4>2. msg_queue = <<>> \/ ToPoll' <= ToPoll
          BY <2>1, <2>3, <3>3
        <4>3. ToSend <= ToSend'
          BY ONLY <1>times, <3>2, Same
        <4> QED
          BY ONLY <1>times, <4>1, <4>2, <4>3, Nearer
      <3>5. ToPoll' \in Nat
        BY <2>1 DEF SenderOnTime
      <3>6. ~dropped' /\ (sensor' = "send" => sensorLeft' = QueueWait)
        BY <3>1 DEF QueueIsEmptied
      <3> QED
        BY <1>times, <3>1, <3>4, <3>5, <3>6, OtherSlow
    <2> QED
      BY <2>2, <2>3
  <1>5. CASE Tick
    <2>1. SenderOnTime' /\ ToPoll' = ToPoll - 1
      BY <1>5, TickTimes
    <2> SUFFICES ASSUME Slow PROVE QueueIsEmptied'
      BY <1>1, <1>2, <2>1
    <2>2. Len(msg_queue') = Len(msg_queue)
      BY <1>5 DEF Tick, TypeOK
    <2>3. msg_queue' # <<>> => msg_queue # <<>>
      BY <1>1, <2>2 DEF TypeOK
    <2>4. sensor # "send"
      <3> SUFFICES ASSUME sensor = "send" PROVE FALSE
        OBVIOUS
      <3>1. Len(msg_queue) = QUEUE_LENGTH /\ senderLeft > 0
        BY <1>5 DEF Tick
      <3>2. msg_queue # <<>> /\ Len(msg_queue) - 1 \in Nat
        BY <3>1, TimesAssumption DEF TypeOK
      <3>3. (Len(msg_queue) - 1) * Cycle \in Nat
        BY <3>2, Times, Multiples
      <3>4. ToPoll + (Len(msg_queue) - 1) * Cycle <= 0
        BY <3>2 DEF QueueIsEmptied, ToSend
      <3>5. ToPoll = 0
        BY <3>3, <3>4 DEF SenderOnTime
      <3>6. ToPoll >= senderLeft
        BY Times, Rests, TimesAssumption DEF ToPoll, TypeOK
      <3> QED
        BY <3>1, <3>5, <3>6 DEF TypeOK
    <2>5. sensor' = sensor /\ ToSend' = ToSend - 1 /\ dropped' = dropped
      BY <1>5, <2>4, TimesAssumption DEF Tick, ToSend, TypeOK
    <2>6. ToPoll' + ToSend <= ToPoll + ToSend'
      BY <1>times, <2>1, <2>5 DEF SenderOnTime
    <2>7. ~dropped' /\ ToPoll' \in Nat
      BY <2>1, <2>5 DEF QueueIsEmptied, SenderOnTime
    <2> QED
      BY <1>times, <2>2, <2>3, <2>4, <2>5, <2>6, <2>7, OtherSlow
  <1>6. CASE UNCHANGED vars
    <2>1. SenderOnTime' /\ ToPoll' = ToPoll
      BY <1>6, SenderWaits DEF vars, senderVars
    <2>2. ToSend' = ToSend /\ UNCHANGED <<dropped, sensor, sensorLeft, msg_queue>>
      BY <1>6 DEF vars, sensorVars, ToSend
    <2> QED
      BY <1>1, <1>2, <2>1, <2>2 DEF QueueIsEmptied
  <1> QED
    BY <1>3, <1>4, <1>5, <1>6 DEF Next

(* A device that is back at its queue before the next reading can be there *)
(* drops none, whatever the network does (aht20_sensor.c:17).              *)
THEOREM SlowSensorIsSafe == Spec => []SlowSensorLosesNothing
  <1>1. Init => SlowInv
    <2> SUFFICES ASSUME Init PROVE SlowInv
      OBVIOUS
    <2>1. QueueIsEmptied
      BY DEF Init, QueueIsEmptied
    <2> QED
      BY <2>1, InitTypes, InitOnTime DEF SlowInv
  <1>2. SlowInv => SlowSensorLosesNothing
    BY DEF SlowInv, Slow, QueueIsEmptied, SlowSensorLosesNothing
  <1> QED
    BY <1>1, <1>2, NextSlow, PTL DEF Spec
=============================================================================
