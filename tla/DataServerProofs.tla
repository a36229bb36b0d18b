--------------------------- MODULE DataServerProofs ---------------------------
(***************************************************************************)
(* Theorems about the sender task, for every number of readings, attempts, *)
(* restarts and duplicates and every size of the queue and the mailbox.    *)
(***************************************************************************)
EXTENDS DataServer, SequenceTheorems, FiniteSetTheorems, TLAPS

(* Type correctness, one lemma per part of TypeOK.                         *)

LEMMA Zeros ==
  /\ 0 \in 0..UDP_MAX_ATTEMPTS
  /\ 0 \in 0..MaxReading
  /\ 0 \in 0..MaxResets
  /\ 0 \in 0..MaxDuplicates
  BY DataServerAssumption

LEMMA TypeInit == Init => TypeOK
<1> SUFFICES ASSUME Init PROVE TypeOK
  OBVIOUS
<1> USE Zeros, DataServerAssumption DEF Init
<1>1. TaskTypeOK
  BY DEF TaskTypeOK
<1>2. BufferTypeOK
  BY DEF BufferTypeOK
<1>3. NetworkTypeOK
  BY DEF NetworkTypeOK
<1>4. HistoryTypeOK
  BY DEF HistoryTypeOK
<1> QED
  BY <1>1, <1>2, <1>3, <1>4 DEF TypeOK

LEMMA TaskTypeNext ==
  ASSUME TypeOK, [Next]_vars PROVE TaskTypeOK'
<1> USE DataServerAssumption, Zeros DEF TypeOK, TaskTypeOK
<1>1. CASE SenderStep
  <2>1. CASE Dequeue
    <3>1. Head(msg_queue) \in Readings
      BY <2>1 DEF Dequeue, BufferTypeOK
    <3> QED
      BY <2>1, <3>1 DEF Dequeue, Readings
  <2>2. CASE SendDatagram
    BY <2>2 DEF SendDatagram, KeepsSending, AfterSend
  <2>3. CASE ReceiveReply
    BY <2>3 DEF ReceiveReply
  <2>4. CASE CreateSocket \/ QueueIsEmpty \/ TurnLedOff \/ WakeUp \/ LoopEnds
    BY <2>4 DEF CreateSocket, QueueIsEmpty, TurnLedOff, WakeUp, LoopEnds
  <2>5. CASE Connect \/ ConnectFails \/ ReceiveTimesOut
    BY <2>5 DEF Connect, ConnectFails, ReceiveTimesOut
  <2> QED
    BY <1>1, <2>1, <2>2, <2>3, <2>4, <2>5 DEF SenderStep
<1>2. CASE NetworkStep
  BY <1>2 DEF NetworkStep, DeliverReply, LoseReply, ServerAnswers,
              LoseDatagram, task
<1>3. CASE Restart
  BY <1>3 DEF Restart
<1>4. ASSUME NEW r \in Readings, Offer(r) PROVE TaskTypeOK'
  BY <1>4 DEF Offer, task
<1>5. CASE UNCHANGED vars
  BY <1>5 DEF vars, task
<1> QED
  BY <1>1, <1>2, <1>3, <1>4, <1>5 DEF Next

LEMMA BufferTypeNext ==
  ASSUME TypeOK, [Next]_vars PROVE BufferTypeOK'
<1> USE DataServerAssumption DEF TypeOK, BufferTypeOK
<1>1. CASE SenderStep
  <2>1. CASE Dequeue
    BY <2>1 DEF Dequeue, Dequeued
  <2>2. CASE ReceiveReply
    BY <2>2 DEF ReceiveReply, Received
  <2>3. CASE UNCHANGED <<msg_queue, recvmbox>>
    BY <2>3
  <2> QED
    BY <1>1, <2>1, <2>2, <2>3
    DEF SenderStep, CreateSocket, QueueIsEmpty, Connect, ConnectFails,
        SendDatagram, ReceiveTimesOut, LoopEnds, TurnLedOff, WakeUp
<1>2. CASE NetworkStep
  <2>1. ASSUME NEW m \in toDevice, DeliverReply(m) PROVE BufferTypeOK'
    <3>1. m \in Replies
      BY DEF NetworkTypeOK
    <3> QED
      BY <2>1, <3>1 DEF DeliverReply
  <2>2. CASE UNCHANGED <<msg_queue, recvmbox>>
    BY <2>2
  <2> QED
    BY <1>2, <2>1, <2>2
    DEF NetworkStep, LoseReply, ServerAnswers, LoseDatagram
<1>3. CASE Restart
  BY <1>3 DEF Restart
<1>4. ASSUME NEW r \in Readings, Offer(r) PROVE BufferTypeOK'
  BY <1>4 DEF Offer
<1>5. CASE UNCHANGED vars
  BY <1>5 DEF vars
<1> QED
  BY <1>1, <1>2, <1>3, <1>4, <1>5 DEF Next

LEMMA NetworkTypeNext ==
  ASSUME TypeOK, [Next]_vars PROVE NetworkTypeOK'
<1> USE DataServerAssumption DEF TypeOK, NetworkTypeOK
<1>1. CASE SenderStep
  <2>1. CASE SendDatagram
    <3>1. [reading |-> recorded_data, attempt |-> udp_attempts + 1] \in Datagrams
      BY <2>1 DEF SendDatagram, KeepsSending, TaskTypeOK, Datagrams, Readings
    <3> QED
      BY <2>1, <3>1 DEF SendDatagram
  <2>2. CASE UNCHANGED network
    BY <2>2 DEF network
  <2> QED
    BY <1>1, <2>1, <2>2
    DEF SenderStep, CreateSocket, Dequeue, QueueIsEmpty, Connect, ConnectFails,
        ReceiveReply, ReceiveTimesOut, LoopEnds, TurnLedOff, WakeUp
<1>2. CASE NetworkStep
  BY <1>2 DEF NetworkStep, DeliverReply, LoseReply, ServerAnswers,
              LoseDatagram, Replies
<1>3. CASE UNCHANGED network
  BY <1>3 DEF network
<1> QED
  BY <1>1, <1>2, <1>3 DEF Next, Restart, Offer, vars

LEMMA HistoryTypeNext ==
  ASSUME TypeOK, [Next]_vars PROVE HistoryTypeOK'
<1> USE DataServerAssumption DEF TypeOK, HistoryTypeOK
<1>1. CASE SenderStep
  <2>1. CASE ReceiveReply
    <3>0. Head(recvmbox) \in Replies
      BY <2>1 DEF ReceiveReply, BufferTypeOK
    <3>1. Head(recvmbox).to \in Datagrams
      BY <3>0 DEF Replies
    <3>2. outcome' \in [Readings -> Verdicts \cup {"none"}]
      BY <2>1 DEF ReceiveReply, Verdicts
    <3>3. ackedBy' \in [Readings -> Datagrams \cup {NoDatagram}]
      BY <2>1, <3>1 DEF ReceiveReply
    <3> QED
      BY <2>1, <3>2, <3>3 DEF ReceiveReply, network
  <2>2. CASE ConnectFails
    BY <2>2 DEF ConnectFails, Verdicts, network
  <2>3. CASE LoopEnds
    BY <2>3 DEF LoopEnds, Verdicts, network
  <2>4. CASE ReceiveTimesOut
    BY <2>4 DEF ReceiveTimesOut, network
  <2>5. CASE UNCHANGED <<history, offered, resets, duplicates>>
    BY <2>5 DEF history
  <2> QED
    BY <1>1, <2>1, <2>2, <2>3, <2>4, <2>5
    DEF SenderStep, CreateSocket, Dequeue, QueueIsEmpty, Connect,
        SendDatagram, TurnLedOff, WakeUp, network
<1>2. CASE NetworkStep
  BY <1>2 DEF NetworkStep, DeliverReply, LoseReply, ServerAnswers,
              LoseDatagram, history
<1>3. CASE Restart
  BY <1>3 DEF Restart, network, history
<1>4. ASSUME NEW r \in Readings, Offer(r) PROVE HistoryTypeOK'
  BY <1>4 DEF Offer, Readings, network, history
<1>5. CASE UNCHANGED vars
  BY <1>5 DEF vars, network, history
<1> QED
  BY <1>1, <1>2, <1>3, <1>4, <1>5 DEF Next

LEMMA TypeNext == TypeOK /\ [Next]_vars => TypeOK'
  BY TaskTypeNext, BufferTypeNext, NetworkTypeNext, HistoryTypeNext DEF TypeOK

(* The variables keep their types; in particular the task never sends more *)
(* than UDP_MAX_ATTEMPTS times, and the queue and the mailbox never hold   *)
(* more than their size.                                                   *)
THEOREM TypeCorrect == Spec => []TypeOK
  BY TypeInit, TypeNext, PTL DEF Spec
-----------------------------------------------------------------------------
(* The inductive invariant behind the delivery order.  A reading is past   *)
(* when it is neither waiting nor still to be offered, and, while an       *)
(* exchange is on, not later than the reading of that exchange.            *)

InExchange == pc \in {"connect", "attempt", "recv"}

Past(r) ==
  /\ r <= offered
  /\ \A i \in 1..Len(msg_queue) : r < msg_queue[i]
  /\ InExchange => r <= recorded_data

QueueInOrder ==
  /\ \A i, j \in 1..Len(msg_queue) : i < j => msg_queue[i] < msg_queue[j]
  /\ \A i \in 1..Len(msg_queue) : msg_queue[i] <= offered

(* The reading of the exchange is past, and concluded upon only by an ACK. *)
ExchangeInv ==
  /\ InExchange => Past(recorded_data)
  /\ pc = "connect" => outcome[recorded_data] = "none"
  /\ pc \in {"attempt", "recv"} =>
        outcome[recorded_data] = IF udp_sent THEN "acked" ELSE "none"
  /\ pc = "recv" => ~udp_sent

OutcomesArePast == \A r \in Readings : outcome[r] # "none" => Past(r)

OrderInv == QueueInOrder /\ ExchangeInv /\ OutcomesArePast

(* Nothing that is past becomes waiting again.                             *)
LEMMA PastStays ==
  ASSUME TypeOK, QueueInOrder, [Next]_vars, NEW r \in Nat, Past(r)
  PROVE  Past(r)'
<1> USE DEF Past, InExchange
<1>1. CASE Dequeue
  <2>1. /\ Len(msg_queue) > 0
        /\ Head(msg_queue) = msg_queue[1]
        /\ Len(msg_queue') = Len(msg_queue) - 1
        /\ \A i \in 1..Len(msg_queue') : msg_queue'[i] = msg_queue[i + 1]
    BY <1>1 DEF Dequeue, Dequeued, TypeOK, BufferTypeOK
  <2>2. msg_queue[1] \in Readings /\ 1 \in 1..Len(msg_queue)
    BY <1>1 DEF Dequeue, TypeOK, BufferTypeOK
  <2>3. \A i \in 1..Len(msg_queue') : r < msg_queue'[i]
    BY <2>1 DEF TypeOK, BufferTypeOK
  <2> QED
    BY <1>1, <2>1, <2>2, <2>3 DEF Dequeue, Readings
<1>2. ASSUME NEW s \in Readings, Offer(s) PROVE Past(r)'
  <2>1. r < s
    BY <1>2 DEF Offer, Readings, TypeOK, HistoryTypeOK
  <2>2. \A i \in 1..Len(msg_queue') : r < msg_queue'[i]
    BY <1>2, <2>1 DEF Offer, TypeOK, BufferTypeOK
  <2> QED
    BY <1>2, <2>1, <2>2 DEF Offer, task, Readings
<1>3. CASE Restart
  BY <1>3 DEF Restart
<1>4. CASE SenderStep /\ ~Dequeue
  BY <1>4
  DEF SenderStep, CreateSocket, QueueIsEmpty, Connect, ConnectFails,
      SendDatagram, AfterSend, ReceiveReply, ReceiveTimesOut, LoopEnds,
      TurnLedOff, WakeUp
<1>5. CASE NetworkStep
  BY <1>5 DEF NetworkStep, DeliverReply, LoseReply, ServerAnswers,
              LoseDatagram, task
<1>6. CASE UNCHANGED vars
  BY <1>6 DEF vars, task
<1> QED
  BY <1>1, <1>2, <1>3, <1>4, <1>5, <1>6 DEF Next

LEMMA QueueInOrderNext ==
  ASSUME TypeOK, QueueInOrder, [Next]_vars PROVE QueueInOrder'
<1> USE DEF QueueInOrder
<1>1. CASE Dequeue
  <2>1. /\ Len(msg_queue') = Len(msg_queue) - 1
        /\ Len(msg_queue) \in Nat
        /\ \A i \in 1..Len(msg_queue') : msg_queue'[i] = msg_queue[i + 1]
        /\ offered' = offered
    BY <1>1 DEF Dequeue, Dequeued, TypeOK, BufferTypeOK
  <2> QED
    BY <2>1
<1>2. ASSUME NEW s \in Readings, Offer(s) PROVE QueueInOrder'
  <2>1. /\ msg_queue \in Seq(Readings)
        /\ msg_queue' = Append(msg_queue, s)
        /\ offered' = s /\ s > offered /\ s \in Nat /\ offered \in Nat
    BY <1>2 DEF Offer, TypeOK, BufferTypeOK, HistoryTypeOK, Readings
  <2>2. /\ Len(msg_queue') = Len(msg_queue) + 1
        /\ Len(msg_queue) \in Nat
        /\ \A i \in 1..Len(msg_queue) : msg_queue'[i] = msg_queue[i]
        /\ msg_queue'[Len(msg_queue) + 1] = s
    BY <2>1
  <2>3. \A i \in 1..Len(msg_queue) : msg_queue[i] \in Nat
    <3>1. \A i \in 1..Len(msg_queue) : msg_queue[i] \in Readings
      BY <2>1
    <3> QED
      BY <3>1 DEF Readings
  <2>4. \A i \in 1..Len(msg_queue') : msg_queue'[i] <= offered'
    BY <2>1, <2>2, <2>3
  <2>5. ASSUME NEW i \in 1..Len(msg_queue'), NEW j \in 1..Len(msg_queue'), i < j
        PROVE  msg_queue'[i] < msg_queue'[j]
    <3>1. i \in 1..Len(msg_queue) /\ msg_queue'[i] = msg_queue[i]
      BY <2>2, <2>5
    <3>2. CASE j \in 1..Len(msg_queue)
      BY <2>2, <2>5, <3>1, <3>2
    <3>3. CASE j = Len(msg_queue) + 1
      BY <2>1, <2>2, <2>3, <3>1, <3>3
    <3> QED
      BY <2>2, <3>2, <3>3
  <2> QED
    BY <2>4, <2>5
<1>3. CASE Restart
  BY <1>3 DEF Restart
<1>4. CASE UNCHANGED <<msg_queue, offered>>
  BY <1>4
<1> QED
  BY <1>1, <1>2, <1>3, <1>4
  DEF Next, vars, SenderStep, CreateSocket, QueueIsEmpty, Connect, ConnectFails,
      SendDatagram, ReceiveReply, ReceiveTimesOut, LoopEnds, TurnLedOff,
      WakeUp, NetworkStep, DeliverReply, LoseReply, ServerAnswers, LoseDatagram

LEMMA ExchangeNext ==
  ASSUME TypeOK, OrderInv, [Next]_vars PROVE ExchangeInv'
<1> USE DEF OrderInv, ExchangeInv, InExchange
<1>0. recorded_data \in Nat
  BY DEF TypeOK, TaskTypeOK
<1>1. CASE Dequeue
  <2>1. /\ Head(msg_queue) = msg_queue[1]
        /\ msg_queue[1] \in Readings
        /\ 1 \in 1..Len(msg_queue)
        /\ Len(msg_queue') = Len(msg_queue) - 1
        /\ \A i \in 1..Len(msg_queue') : msg_queue'[i] = msg_queue[i + 1]
    BY <1>1 DEF Dequeue, Dequeued, TypeOK, BufferTypeOK
  <2>2. outcome[msg_queue[1]] = "none"
    BY <2>1 DEF OutcomesArePast, Past, Readings
  <2>3. Past(recorded_data)'
    BY <1>1, <2>1 DEF Dequeue, Past, QueueInOrder, Readings
  <2> QED
    BY <1>1, <2>1, <2>2, <2>3 DEF Dequeue, history
<1>2. CASE Connect
  BY <1>0, <1>2, PastStays DEF Connect, history
<1>3. CASE SendDatagram
  BY <1>0, <1>3, PastStays DEF SendDatagram, KeepsSending, AfterSend, history
<1>4. CASE ReceiveReply
  <2>1. recorded_data \in Readings /\ outcome \in [Readings -> Verdicts \cup {"none"}]
    BY <1>4 DEF ReceiveReply, TypeOK, TaskTypeOK, HistoryTypeOK, Readings
  <2> QED
    BY <1>0, <1>4, <2>1, PastStays DEF ReceiveReply
<1>5. CASE ReceiveTimesOut
  BY <1>0, <1>5, PastStays DEF ReceiveTimesOut
<1>6. CASE UNCHANGED <<pc, recorded_data, udp_sent, outcome>>
  BY <1>0, <1>6, PastStays
<1>7. CASE ~InExchange'
  BY <1>7
<1> QED
  BY <1>1, <1>2, <1>3, <1>4, <1>5, <1>6, <1>7
  DEF Next, vars, task, history, SenderStep, CreateSocket, QueueIsEmpty,
      ConnectFails, LoopEnds, TurnLedOff, WakeUp, NetworkStep, DeliverReply,
      LoseReply, ServerAnswers, LoseDatagram, Restart, Offer

LEMMA OutcomesNext ==
  ASSUME TypeOK, OrderInv, [Next]_vars PROVE OutcomesArePast'
<1> SUFFICES ASSUME NEW r \in Readings, outcome'[r] # "none" PROVE Past(r)'
  BY DEF OutcomesArePast
<1>0. r \in Nat /\ (Past(r) => Past(r)')
  BY PastStays DEF Readings, OrderInv
<1>1. CASE outcome'[r] = outcome[r]
  BY <1>0, <1>1 DEF OrderInv, OutcomesArePast
<1>2. CASE outcome'[r] # outcome[r]
  <2>1. (ConnectFails \/ ReceiveReply \/ LoopEnds) /\ r = recorded_data
    BY <1>2
    DEF Next, vars, history, SenderStep, CreateSocket, Dequeue, QueueIsEmpty,
        Connect, SendDatagram, ReceiveTimesOut, ConnectFails, ReceiveReply,
        LoopEnds, TurnLedOff, WakeUp, NetworkStep, DeliverReply, LoseReply,
        ServerAnswers, LoseDatagram, Restart, Offer, TypeOK, HistoryTypeOK
  <2>2. InExchange
    BY <2>1 DEF ConnectFails, ReceiveReply, LoopEnds, InExchange
  <2> QED
    BY <1>0, <2>1, <2>2 DEF OrderInv, ExchangeInv
<1> QED
  BY <1>1, <1>2

LEMMA OrderInit == Init => OrderInv
  BY DEF Init, OrderInv, QueueInOrder, ExchangeInv, OutcomesArePast,
         InExchange

LEMMA OrderNext == TypeOK /\ OrderInv /\ [Next]_vars => OrderInv'
  BY QueueInOrderNext, ExchangeNext, OutcomesNext DEF OrderInv

LEMMA OrderCorrect == Spec => []OrderInv
  BY OrderInit, OrderNext, TypeCorrect, PTL DEF Spec
-----------------------------------------------------------------------------
(* DataServer implements Courier.                                          *)

LEMMA CourierInit == Init => Abstract!Init
  BY DEF Init, Abstract!Init, Busy, Abstract!Readings, Readings

LEMMA CourierStep ==
  ASSUME TypeOK, OrderInv, [Next]_vars PROVE [Abstract!Next]_(Abstract!vars)
<1> USE DEF Abstract!vars, Busy
<1>0. /\ recorded_data \in Nat
      /\ InExchange => recorded_data \in Readings
      /\ outcome \in [Readings -> Verdicts \cup {"none"}]
  BY DEF TypeOK, TaskTypeOK, HistoryTypeOK, InExchange, Readings
<1>1. CASE Dequeue
  <2>1. /\ msg_queue # <<>>
        /\ Head(msg_queue) = msg_queue[1]
        /\ msg_queue[1] \in Readings
        /\ 1 \in 1..Len(msg_queue)
    BY <1>1 DEF Dequeue, TypeOK, BufferTypeOK
  <2>2. outcome[msg_queue[1]] = "none"
    BY <2>1 DEF OrderInv, OutcomesArePast, Past, Readings
  <2>3. Abstract!Begin
    BY <1>1, <2>1, <2>2 DEF Dequeue, Dequeued, history, Abstract!Begin
  <2> QED
    BY <2>3 DEF Abstract!Next
<1>2. ASSUME NEW r \in Readings, Offer(r) PROVE Abstract!Next
  <2>1. Abstract!Accept(r)
    BY <1>2 DEF Offer, task, history, Abstract!Accept
  <2> QED
    BY <2>1 DEF Abstract!Next, Abstract!Readings, Readings
<1>3. CASE Restart
  <2>1. Abstract!Restart
    BY <1>3 DEF Restart, history, Abstract!Restart
  <2> QED
    BY <2>1 DEF Abstract!Next
<1>4. CASE ConnectFails
  <2>1. Abstract!Settle("unconnected")
    BY <1>0, <1>4
    DEF ConnectFails, OrderInv, ExchangeInv, InExchange, Readings,
        Abstract!Settle
  <2> QED
    BY <2>1 DEF Abstract!Next, Verdicts
<1>5. CASE ReceiveReply
  <2>1. CASE Head(recvmbox).text = "ACK"
    <3>1. /\ recorded_data \in Nat \ {0}
          /\ outcome[recorded_data] = "none"
      BY <1>0, <1>5 DEF ReceiveReply, OrderInv, ExchangeInv, InExchange, Readings
    <3>2. /\ outcome' = [outcome EXCEPT ![recorded_data] = "acked"]
          /\ pc = "recv" /\ pc' = "attempt"
          /\ UNCHANGED <<recorded_data, offered, msg_queue>>
      BY <1>5, <2>1 DEF ReceiveReply
    <3>3. outcome'[recorded_data] = "acked"
      BY <1>0, <1>5, <3>2 DEF ReceiveReply, InExchange
    <3>4. Abstract!Settle("acked")
      BY <3>1, <3>2, <3>3 DEF Abstract!Settle
    <3> QED
      BY <3>4 DEF Abstract!Next, Verdicts
  <2>2. CASE Head(recvmbox).text # "ACK"
    BY <1>5, <2>2 DEF ReceiveReply
  <2> QED
    BY <2>1, <2>2
<1>6. CASE LoopEnds
  <2>1. CASE udp_sent
    BY <1>0, <1>6, <2>1 DEF LoopEnds, OrderInv, ExchangeInv
  <2>2. CASE ~udp_sent
    <3>1. Abstract!Settle("failed")
      BY <1>0, <1>6, <2>2
      DEF LoopEnds, OrderInv, ExchangeInv, InExchange, Readings,
          Abstract!Settle
    <3> QED
      BY <3>1 DEF Abstract!Next, Verdicts
  <2> QED
    BY <2>1, <2>2
<1>7. CASE CreateSocket \/ QueueIsEmpty \/ Connect \/ SendDatagram
             \/ ReceiveTimesOut \/ TurnLedOff \/ WakeUp
  BY <1>7 DEF CreateSocket, QueueIsEmpty, Connect, SendDatagram, AfterSend,
              ReceiveTimesOut, TurnLedOff, WakeUp, history
<1>8. CASE NetworkStep
  BY <1>8 DEF NetworkStep, DeliverReply, LoseReply, ServerAnswers,
              LoseDatagram, task, history
<1>9. CASE UNCHANGED vars
  BY <1>9 DEF vars, task, history
<1> QED
  BY <1>1, <1>2, <1>3, <1>4, <1>5, <1>6, <1>7, <1>8, <1>9
  DEF Next, SenderStep

(* The delivery path keeps Courier's promises, whatever the network does   *)
(* and however often the device restarts: data_server.c delivers readings  *)
(* in order, one at a time, and concludes once about each.                 *)
THEOREM CourierImplemented == Spec => ImplementsCourier
<1>1. Spec => []TypeOK /\ []OrderInv
  BY TypeCorrect, OrderCorrect
<1>2. []TypeOK /\ []OrderInv /\ [][Next]_vars => [][Abstract!Next]_(Abstract!vars)
  BY CourierStep, PTL
<1> QED
  BY <1>1, <1>2, CourierInit, PTL DEF Spec, ImplementsCourier, Abstract!Spec
-----------------------------------------------------------------------------
(* Acknowledgements come from datagrams the server took, of readings that  *)
(* are past.                                                               *)

NetworkInv ==
  /\ \A d \in toServer \cup served : Past(d.reading)
  /\ \A m \in toDevice : m.to \in served
  /\ \A i \in 1..Len(recvmbox) : recvmbox[i].to \in served

LEMMA NetworkInit == Init => NetworkInv
  BY DEF Init, NetworkInv

LEMMA NetworkNext ==
  ASSUME TypeOK, OrderInv, NetworkInv, [Next]_vars PROVE NetworkInv'
<1>1. \A d \in toServer \cup served : Past(d.reading)'
  <2> SUFFICES ASSUME NEW d \in toServer \cup served PROVE Past(d.reading)'
    OBVIOUS
  <2>1. d.reading \in Nat
    BY DEF TypeOK, NetworkTypeOK, Datagrams, Readings
  <2> QED
    BY <2>1, PastStays DEF NetworkInv, OrderInv
<1>2. CASE SendDatagram
  <2>1. Past(recorded_data)'
    BY <1>2, PastStays
    DEF SendDatagram, OrderInv, ExchangeInv, InExchange, TypeOK, TaskTypeOK
  <2>2. UNCHANGED <<served, toDevice, recvmbox>>
    BY <1>2 DEF SendDatagram
  <2>3. \A d \in toServer' : d \in toServer \/ d.reading = recorded_data
    BY <1>2 DEF SendDatagram
  <2>4. recorded_data' = recorded_data
    BY <1>2 DEF SendDatagram
  <2>5. \A d \in toServer' \cup served' : Past(d.reading)'
    BY <1>1, <2>1, <2>2, <2>3, <2>4
  <2> QED
    BY <2>2, <2>5 DEF NetworkInv
<1>3. CASE ReceiveReply
  <2>1. /\ recvmbox \in Seq(Replies) /\ recvmbox # <<>>
        /\ recvmbox' = Tail(recvmbox)
    BY <1>3 DEF ReceiveReply, Received, TypeOK, BufferTypeOK
  <2>2. \A i \in 1..Len(recvmbox') : /\ i + 1 \in 1..Len(recvmbox)
                                     /\ recvmbox'[i] = recvmbox[i + 1]
    BY <2>1
  <2> QED
    BY <1>1, <1>3, <2>2 DEF ReceiveReply, NetworkInv, network
<1>4. ASSUME NEW m \in toDevice, DeliverReply(m) PROVE NetworkInv'
  <2>1. m.to \in served /\ UNCHANGED <<toServer, served>>
    BY <1>4 DEF NetworkInv, DeliverReply
  <2>2. recvmbox \in Seq(Replies) /\ m \in Replies
    BY DEF TypeOK, BufferTypeOK, NetworkTypeOK
  <2>3. \A i \in 1..Len(recvmbox') :
           \/ i \in 1..Len(recvmbox) /\ recvmbox'[i] = recvmbox[i]
           \/ recvmbox'[i] = m
    BY <1>4, <2>2 DEF DeliverReply
  <2>4. toDevice' \subseteq toDevice
    BY <1>4 DEF DeliverReply
  <2> QED
    BY <1>1, <2>1, <2>3, <2>4 DEF NetworkInv
<1>5. ASSUME NEW d \in toServer, ServerAnswers(d) PROVE NetworkInv'
  <2>1. /\ toServer' \subseteq toServer
        /\ served' = served \cup {d}
        /\ \A m \in toDevice' : m \in toDevice \/ m.to = d
        /\ UNCHANGED recvmbox
    BY <1>5 DEF ServerAnswers
  <2> QED
    BY <1>1, <2>1 DEF NetworkInv
<1>6. CASE Restart
  BY <1>1, <1>6 DEF Restart, network, NetworkInv
<1>7. CASE /\ toServer' \subseteq toServer
           /\ toDevice' \subseteq toDevice
           /\ UNCHANGED <<served, recvmbox>>
  BY <1>1, <1>7 DEF NetworkInv
<1> QED
  BY <1>2, <1>3, <1>4, <1>5, <1>6, <1>7
  DEF Next, vars, network, SenderStep, CreateSocket, Dequeue, QueueIsEmpty,
      Connect, ConnectFails, ReceiveTimesOut, LoopEnds, TurnLedOff, WakeUp,
      NetworkStep, LoseReply, LoseDatagram, Offer

LEMMA AckIsBackedNext ==
  ASSUME TypeOK, OrderInv, NetworkInv, AckIsBacked, [Next]_vars
  PROVE  AckIsBacked'
<1> SUFFICES ASSUME NEW r \in Readings, outcome'[r] = "acked"
             PROVE  ackedBy'[r] \in served' /\ ackedBy'[r].reading <= r
  BY DEF AckIsBacked
<1> USE DEF TypeOK, HistoryTypeOK
<1>1. served \subseteq served'
  BY DEF Next, vars, network, SenderStep, CreateSocket, Dequeue, QueueIsEmpty,
      Connect, ConnectFails, SendDatagram, ReceiveReply, ReceiveTimesOut,
      LoopEnds, TurnLedOff, WakeUp, NetworkStep, DeliverReply, LoseReply,
      ServerAnswers, LoseDatagram, Restart, Offer
<1>2. CASE ReceiveReply /\ r = recorded_data /\ Head(recvmbox).text = "ACK"
  <2>1. Head(recvmbox) = recvmbox[1] /\ 1 \in 1..Len(recvmbox)
    BY <1>2 DEF ReceiveReply, BufferTypeOK
  <2>2. ackedBy'[r] = recvmbox[1].to
    BY <1>2, <2>1 DEF ReceiveReply
  <2>3. recvmbox[1].to \in served
    BY <2>1 DEF NetworkInv
  <2>4. recvmbox[1].to.reading <= recorded_data
    BY <1>2, <2>3 DEF NetworkInv, Past, ReceiveReply, InExchange
  <2> QED
    BY <1>1, <1>2, <2>2, <2>3, <2>4
<1>3. CASE outcome'[r] = outcome[r] /\ ackedBy'[r] = ackedBy[r]
  BY <1>1, <1>3 DEF AckIsBacked
<1>4. CASE ReceiveReply /\ ~(r = recorded_data /\ Head(recvmbox).text = "ACK")
  BY <1>3, <1>4 DEF ReceiveReply
<1>5. CASE ConnectFails \/ LoopEnds
  BY <1>3, <1>5 DEF ConnectFails, LoopEnds
<1> QED
  BY <1>2, <1>3, <1>4, <1>5
  DEF Next, vars, network, history, SenderStep, CreateSocket, Dequeue,
      QueueIsEmpty, Connect, SendDatagram, ReceiveTimesOut, TurnLedOff, WakeUp,
      NetworkStep, DeliverReply, LoseReply, ServerAnswers, LoseDatagram,
      Restart, Offer

(* No acknowledgement is invented or comes from the future: a reading is   *)
(* reported as sent (data_server.c:115) only on a reply of the server to   *)
(* that reading or an earlier one.                                         *)
THEOREM AcksAreBacked == Spec => []AckIsBacked
<1>1. Init => AckIsBacked
  BY DEF Init, AckIsBacked
<1>2. Spec => []NetworkInv
  BY NetworkInit, NetworkNext, TypeCorrect, OrderCorrect, PTL DEF Spec
<1> QED
  BY <1>1, <1>2, AckIsBackedNext, TypeCorrect, OrderCorrect, PTL DEF Spec
-----------------------------------------------------------------------------
(* How many replies can be outstanding.                                    *)

FiniteInv == IsFiniteSet(toServer) /\ IsFiniteSet(toDevice)

LEMMA FiniteNext == ASSUME FiniteInv, [Next]_vars PROVE FiniteInv'
<1> USE FS_AddElement, FS_RemoveElement DEF FiniteInv
<1>1. CASE SendDatagram
  BY <1>1 DEF SendDatagram
<1>2. CASE NetworkStep
  BY <1>2 DEF NetworkStep, DeliverReply, LoseReply, ServerAnswers, LoseDatagram
<1>3. CASE UNCHANGED <<toServer, toDevice>>
  BY <1>3
<1> QED
  BY <1>1, <1>2, <1>3
  DEF Next, vars, network, SenderStep, CreateSocket, Dequeue, QueueIsEmpty,
      Connect, ConnectFails, ReceiveReply, ReceiveTimesOut, LoopEnds,
      TurnLedOff, WakeUp, Restart, Offer

(* What adding or removing one element does to a finite set's size.        *)
LEMMA Sizes ==
  ASSUME NEW S, IsFiniteSet(S), NEW x
  PROVE  /\ Cardinality(S) \in Nat
         /\ Cardinality(S \cup {x}) \in Nat
         /\ Cardinality(S \cup {x}) <= Cardinality(S) + 1
         /\ x \in S => /\ Cardinality(S \ {x}) = Cardinality(S) - 1
                       /\ Cardinality(S \ {x}) \in Nat
<1>1. Cardinality(S) \in Nat
  BY FS_CardinalityType
<1>2. IsFiniteSet(S \cup {x}) /\ IsFiniteSet(S \ {x})
  BY FS_AddElement, FS_RemoveElement
<1>3. Cardinality(S \cup {x}) \in Nat /\ Cardinality(S \ {x}) \in Nat
  BY <1>2, FS_CardinalityType
<1>4. Cardinality(S \cup {x}) <= Cardinality(S) + 1
  <2>1. CASE x \in S
    <3>1. S \cup {x} = S
      BY <2>1
    <3> QED
      BY <1>1, <3>1
  <2>2. CASE x \notin S
    <3>1. Cardinality(S \cup {x}) = Cardinality(S) + 1
      BY <2>2, FS_AddElement
    <3> QED
      BY <1>1, <3>1
  <2> QED
    BY <2>1, <2>2
<1>5. x \in S => Cardinality(S \ {x}) = Cardinality(S) - 1
  BY FS_RemoveElement
<1> QED
  BY <1>1, <1>3, <1>4, <1>5

(* The readings reported as sent, or being sent, that the server has not   *)
(* and cannot get.  The bound is not inductive for those already reported: *)
(* a reading is lost first and reported on a stale reply later.            *)
InHand(r) ==
  r = recorded_data /\ pc \in {"attempt", "recv"} /\ udp_attempts > 0

Gone(r) == \A d \in toServer \cup served : d.reading # r

Missing == {r \in Readings : (outcome[r] = "acked" \/ InHand(r)) /\ Gone(r)}

LossInv ==
  Cardinality(Missing) + Outstanding
    <= timeouts + resets + duplicates + Awaited

LEMMA ReadingsAreFinite ==
  ASSUME NEW S \in SUBSET Readings
  PROVE  IsFiniteSet(S) /\ Cardinality(S) \in Nat
<1>1. MaxReading \in Int /\ 1 \in Int
  BY DataServerAssumption
<1>2. IsFiniteSet(Readings)
  BY <1>1, FS_Interval DEF Readings
<1> QED
  BY <1>2, FS_Subset, FS_CardinalityType

LEMMA FewerReadings ==
  ASSUME NEW S \in SUBSET Readings, NEW T \in SUBSET S
  PROVE  Cardinality(T) <= Cardinality(S)
BY ReadingsAreFinite, FS_Subset

LEMMA OneMoreReading ==
  ASSUME NEW S \in SUBSET Readings, NEW T \in SUBSET Readings, NEW x \in Readings,
         T \subseteq S \cup {x}
  PROVE  Cardinality(T) <= Cardinality(S) + 1
<1>1. S \cup {x} \in SUBSET Readings
  OBVIOUS
<1>2. Cardinality(T) <= Cardinality(S \cup {x})
  BY <1>1, FewerReadings
<1>3. Cardinality(S \cup {x}) <= Cardinality(S) + 1
  BY ReadingsAreFinite, Sizes
<1>4. /\ Cardinality(S) \in Nat /\ Cardinality(T) \in Nat
      /\ Cardinality(S \cup {x}) \in Nat
  BY <1>1, ReadingsAreFinite
<1> QED
  BY <1>2, <1>3, <1>4

(* Only a datagram that is lost, at once or on its way, costs a reading;   *)
(* every other step leaves at most as many missing.                        *)
LEMMA MissingNext ==
  ASSUME TypeOK, [Next]_vars
  PROVE  \/ Missing' \subseteq Missing
         \/ SendDatagram /\ toServer' = toServer
         \/ \E d \in toServer : LoseDatagram(d)
<1> SUFFICES ASSUME NEW r \in Readings, r \in Missing', r \notin Missing,
                    ~(SendDatagram /\ toServer' = toServer),
                    \A d \in toServer : ~LoseDatagram(d)
             PROVE  FALSE
  BY DEF Missing
<1>1. outcome'[r] = "acked" \/ InHand(r)'
  BY DEF Missing
<1>2. \A d \in toServer' \cup served' : d.reading # r
  BY DEF Missing, Gone
<1>3. outcome \in [Readings -> Verdicts \cup {"none"}]
  BY DEF TypeOK, HistoryTypeOK
<1>4. toServer \cup served \subseteq toServer' \cup served'
  BY DEF Next, vars, network, NetworkStep, SenderStep, CreateSocket, Dequeue,
         QueueIsEmpty, Connect, ConnectFails, SendDatagram, ReceiveReply,
         ReceiveTimesOut, LoopEnds, TurnLedOff, WakeUp, DeliverReply,
         LoseReply, ServerAnswers, Restart, Offer
<1>5. outcome[r] # "acked" /\ ~InHand(r)
  BY <1>2, <1>4 DEF Missing, Gone
<1>6. CASE SendDatagram
  <2> DEFINE d == [reading |-> recorded_data, attempt |-> udp_attempts + 1]
  <2>1. d \in toServer'
    BY <1>6 DEF SendDatagram
  <2>2. recorded_data # r
    <3>1. d.reading = recorded_data
      OBVIOUS
    <3> QED
      BY <1>2, <2>1, <3>1
  <2> QED
    BY <1>1, <1>5, <1>6, <2>2 DEF SendDatagram, history, InHand
<1>7. CASE ReceiveReply
  <2>1. outcome'[r] = "acked" => outcome[r] = "acked" \/ r = recorded_data
    BY <1>3, <1>7 DEF ReceiveReply
  <2>2. r = recorded_data => InHand(r)
    BY <1>7 DEF ReceiveReply, InHand, TypeOK, TaskTypeOK
  <2>3. r # recorded_data => ~InHand(r)'
    BY <1>7 DEF ReceiveReply, InHand
  <2> QED
    BY <1>1, <1>5, <2>1, <2>2, <2>3
<1>8. CASE ConnectFails \/ LoopEnds
  <2>1. outcome'[r] = "acked" => outcome[r] = "acked"
    BY <1>3, <1>8 DEF ConnectFails, LoopEnds
  <2>2. ~InHand(r)'
    BY <1>8 DEF ConnectFails, LoopEnds, InHand
  <2> QED
    BY <1>1, <1>5, <2>1, <2>2
<1>9. CASE ReceiveTimesOut
  <2>1. InHand(r)' => InHand(r)
    BY <1>9 DEF ReceiveTimesOut, InHand
  <2> QED
    BY <1>1, <1>5, <1>9, <2>1 DEF ReceiveTimesOut
<1>10. CASE Connect
  <2>1. ~InHand(r)'
    BY <1>10 DEF Connect, InHand
  <2> QED
    BY <1>1, <1>5, <1>10, <2>1 DEF Connect, history
<1>11. CASE outcome' = outcome /\ pc' \notin {"attempt", "recv"}
  BY <1>1, <1>5, <1>11 DEF InHand
<1>12. CASE outcome' = outcome /\ UNCHANGED <<pc, recorded_data, udp_attempts>>
  BY <1>1, <1>5, <1>12 DEF InHand
<1> QED
  BY <1>6, <1>7, <1>8, <1>9, <1>10, <1>11, <1>12
  DEF Next, vars, task, history, SenderStep, CreateSocket, Dequeue,
      QueueIsEmpty, TurnLedOff, WakeUp, NetworkStep, DeliverReply, LoseReply,
      ServerAnswers, Restart, Offer

LEMMA LossNext ==
  ASSUME TypeOK, FiniteInv, LossInv, [Next]_vars PROVE LossInv'
<1> DEFINE M == Cardinality(Missing)
<1> DEFINE O == Outstanding
           W == Awaited
<1> USE DEF Outstanding, Awaited
<1>0. /\ Cardinality(toServer) \in Nat
      /\ Cardinality(toDevice) \in Nat
      /\ Len(recvmbox) \in Nat
      /\ timeouts \in Nat /\ resets \in Nat /\ duplicates \in Nat
  BY FS_CardinalityType DEF FiniteInv, TypeOK, BufferTypeOK, HistoryTypeOK
<1>m. Missing \in SUBSET Readings /\ Missing' \in SUBSET Readings
  BY DEF Missing
<1>n. M \in Nat /\ M' \in Nat
  BY <1>m, ReadingsAreFinite
<1>1. Missing' \subseteq Missing => M' <= M
  BY <1>m, FewerReadings
<1>2. M + Outstanding <= timeouts + resets + duplicates + Awaited
  BY DEF LossInv
<1> HIDE DEF M
<1> SUFFICES M' + Outstanding' <= timeouts' + resets' + duplicates' + Awaited'
  BY DEF LossInv, M
<1>3. CASE SendDatagram
  <2>0. /\ toDevice' = toDevice /\ recvmbox' = recvmbox
        /\ timeouts' = timeouts /\ resets' = resets /\ duplicates' = duplicates
        /\ pc = "attempt" /\ pc' = "recv"
    BY <1>3 DEF SendDatagram, AfterSend, history
  <2>1. CASE toServer' = toServer
    <3>1. recorded_data \in Readings
      BY <1>3 DEF SendDatagram, TypeOK, TaskTypeOK, Readings
    <3>2. Missing' \subseteq Missing \cup {recorded_data}
      BY <1>3, <2>1 DEF SendDatagram, Missing, InHand, Gone, history
    <3>3. M' <= M + 1
      BY <1>m, <3>1, <3>2, OneMoreReading DEF M
    <3> QED
      BY <1>0, <1>n, <1>2, <2>0, <2>1, <3>3
  <2>2. CASE toServer' # toServer
    <3>0. PICK x : toServer' = toServer \cup {x}
      BY <1>3, <2>2 DEF SendDatagram
    <3>1. /\ Cardinality(toServer') \in Nat
          /\ Cardinality(toServer') <= Cardinality(toServer) + 1
      BY <3>0, Sizes DEF FiniteInv
    <3>2. M' <= M
      BY <1>1, <1>3, <2>2, MissingNext
         DEF SendDatagram, LoseDatagram, task
    <3> QED
      BY <1>0, <1>n, <1>2, <2>0, <3>1, <3>2
  <2> QED
    BY <2>1, <2>2
<1>4. ASSUME NEW d \in toServer, LoseDatagram(d)
      PROVE  M' + Outstanding' <= timeouts' + resets' + duplicates' + Awaited'
  <2>1. Cardinality(toServer') = Cardinality(toServer) - 1
    BY <1>4, Sizes DEF LoseDatagram, FiniteInv
  <2>2. d.reading \in Readings
    BY DEF TypeOK, NetworkTypeOK, Datagrams
  <2>3. Missing' \subseteq Missing \cup {d.reading}
    BY <1>4 DEF LoseDatagram, Missing, InHand, Gone, task, history
  <2>4. M' <= M + 1
    BY <1>m, <2>2, <2>3, OneMoreReading DEF M
  <2> QED
    BY <1>0, <1>n, <1>2, <1>4, <2>1, <2>4 DEF LoseDatagram, task, history
<1>5. CASE Missing' \subseteq Missing
  <2>0. M' <= M
    BY <1>1, <1>5
  <2>1. CASE ReceiveReply
    <3>1. Len(recvmbox') = Len(recvmbox) - 1
      BY <2>1 DEF ReceiveReply, Received, TypeOK, BufferTypeOK
    <3> QED
      BY <1>0, <1>n, <1>2, <2>0, <2>1, <3>1 DEF ReceiveReply, network
  <2>2. CASE ReceiveTimesOut
    BY <1>0, <1>n, <1>2, <2>0, <2>2 DEF ReceiveTimesOut, network
  <2>3. ASSUME NEW m \in toDevice, DeliverReply(m)
        PROVE  M' + Outstanding' <= timeouts' + resets' + duplicates' + Awaited'
    <3>1. \/ /\ Cardinality(toDevice') = Cardinality(toDevice) - 1
             /\ Cardinality(toDevice') \in Nat
             /\ duplicates' = duplicates
          \/ /\ Cardinality(toDevice') = Cardinality(toDevice)
             /\ duplicates' = duplicates + 1
      BY <2>3, Sizes DEF DeliverReply, FiniteInv
    <3>2. Len(recvmbox') \in Nat /\ Len(recvmbox') <= Len(recvmbox) + 1
      BY <1>0, <2>3 DEF DeliverReply, TypeOK, BufferTypeOK, NetworkTypeOK
    <3>3. /\ toServer' = toServer /\ timeouts' = timeouts
          /\ resets' = resets /\ pc' = pc
      BY <2>3 DEF DeliverReply, task, history
    <3>4. O' \in Nat /\ O \in Nat /\ W \in Nat /\ W' = W
      BY <1>0, <3>1, <3>2, <3>3
    <3>5. \/ duplicates' = duplicates /\ O' <= O
          \/ duplicates' = duplicates + 1 /\ O' <= O + 1
      BY <1>0, <3>1, <3>2, <3>3
    <3>a. M + O <= timeouts + resets + duplicates + W
      BY <1>2
    <3> HIDE DEF O, W
    <3>6. M' + O' <= timeouts' + resets' + duplicates' + W'
      BY <1>0, <1>n, <2>0, <3>a, <3>3, <3>4, <3>5
    <3> QED
      BY <3>6 DEF O, W
  <2>4. ASSUME NEW d \in toServer, ServerAnswers(d)
        PROVE  M' + Outstanding' <= timeouts' + resets' + duplicates' + Awaited'
    <3>1. \/ /\ Cardinality(toServer') = Cardinality(toServer) - 1
             /\ Cardinality(toServer') \in Nat
             /\ duplicates' = duplicates
          \/ /\ Cardinality(toServer') = Cardinality(toServer)
             /\ duplicates' = duplicates + 1
      BY <2>4, Sizes DEF ServerAnswers, FiniteInv
    <3>2. /\ Cardinality(toDevice') \in Nat
          /\ Cardinality(toDevice') <= Cardinality(toDevice) + 1
      BY <2>4, Sizes DEF ServerAnswers, FiniteInv
    <3>3. /\ recvmbox' = recvmbox /\ timeouts' = timeouts
          /\ resets' = resets /\ pc' = pc
      BY <2>4 DEF ServerAnswers, task, history
    <3>4. O' \in Nat /\ O \in Nat /\ W \in Nat /\ W' = W
      BY <1>0, <3>1, <3>2, <3>3
    <3>5. \/ duplicates' = duplicates /\ O' <= O
          \/ duplicates' = duplicates + 1 /\ O' <= O + 1
      BY <1>0, <3>1, <3>2, <3>3
    <3>a. M + O <= timeouts + resets + duplicates + W
      BY <1>2
    <3> HIDE DEF O, W
    <3>6. M' + O' <= timeouts' + resets' + duplicates' + W'
      BY <1>0, <1>n, <2>0, <3>a, <3>3, <3>4, <3>5
    <3> QED
      BY <3>6 DEF O, W
  <2>5. ASSUME NEW m \in toDevice, LoseReply(m)
        PROVE  M' + Outstanding' <= timeouts' + resets' + duplicates' + Awaited'
    <3>1. Cardinality(toDevice') = Cardinality(toDevice) - 1
      BY <2>5, Sizes DEF LoseReply, FiniteInv
    <3> QED
      BY <1>0, <1>n, <1>2, <2>0, <2>5, <3>1 DEF LoseReply, task, history
  <2>6. CASE Restart
    <3>1. Len(recvmbox') = 0
      BY <2>6 DEF Restart
    <3> QED
      BY <1>0, <1>n, <1>2, <2>0, <2>6, <3>1 DEF Restart, network, history
  <2>7. CASE /\ UNCHANGED <<toServer, toDevice, recvmbox, timeouts, resets,
                            duplicates>>
             /\ (pc = "recv" <=> pc' = "recv")
    BY <1>0, <1>n, <1>2, <2>0, <2>7
  <2> QED
    BY <1>3, <1>4, <2>1, <2>2, <2>3, <2>4, <2>5, <2>6, <2>7
    DEF Next, vars, task, network, history, SenderStep, CreateSocket, Dequeue,
        QueueIsEmpty, Connect, ConnectFails, LoopEnds, TurnLedOff, WakeUp,
        NetworkStep, Offer
<1> QED
  BY <1>3, <1>4, <1>5, MissingNext

LEMMA LossCorrect == Spec => [](TypeOK /\ FiniteInv /\ LossInv)
<1>1. Init => FiniteInv
  BY FS_EmptySet DEF Init, FiniteInv
<1>2. Init => LossInv
  <2> SUFFICES ASSUME Init PROVE LossInv
    OBVIOUS
  <2>1. Missing = {}
    BY DEF Init, Missing, InHand
  <2> QED
    BY <2>1, FS_EmptySet DEF Init, LossInv, Outstanding, Awaited
<1> QED
  BY <1>1, <1>2, FiniteNext, LossNext, TypeCorrect, PTL DEF Spec

(* Stale replies never multiply: the readings the device logs as sent      *)
(* (data_server.c:115) although the server never gets them are at most the *)
(* waits that timed out (data_server.c:108), the restarts and the          *)
(* duplications, for every number of readings and attempts.                *)
THEOREM SilentLossIsBounded == Spec => []SilentLossBound
<1>1. ASSUME TypeOK, FiniteInv, LossInv PROVE SilentLossBound
  <2>1. Missing \in SUBSET Readings /\ ReportedAndGone \in SUBSET Missing
    BY DEF Missing, ReportedAndGone, Gone
  <2>2. Cardinality(ReportedAndGone) <= Cardinality(Missing)
    BY <2>1, FewerReadings
  <2>3. Cardinality(ReportedAndGone) \in Nat /\ Cardinality(Missing) \in Nat
    BY <2>1, ReadingsAreFinite
  <2>4. Outstanding \in Nat
    <3>1. /\ Cardinality(toServer) \in Nat
          /\ Cardinality(toDevice) \in Nat
          /\ Len(recvmbox) \in Nat
      BY <1>1, FS_CardinalityType DEF FiniteInv, TypeOK, BufferTypeOK
    <3> QED
      BY <3>1 DEF Outstanding
  <2>5. /\ timeouts \in Nat /\ resets \in Nat /\ duplicates \in Nat
        /\ Awaited \in Nat
    BY <1>1 DEF TypeOK, HistoryTypeOK, Awaited
  <2> QED
    BY <1>1, <2>2, <2>3, <2>4, <2>5 DEF LossInv, SilentLossBound
<1> QED
  BY <1>1, LossCorrect, PTL
-----------------------------------------------------------------------------
(* On a prompt network, everything on its way answers the current reading. *)

Prompt == timeouts = 0 /\ resets = 0 /\ duplicates = 0

AboutCurrent ==
  /\ \A d \in toServer : d.reading = recorded_data
  /\ \A m \in toDevice : m.to.reading = recorded_data
  /\ \A i \in 1..Len(recvmbox) : recvmbox[i].to.reading = recorded_data

PromptInv == Prompt /\ pc = "recv" => AboutCurrent

LEMMA PromptStays == TypeOK /\ [Next]_vars /\ Prompt' => Prompt
  BY DEF Prompt, TypeOK, HistoryTypeOK, Next, vars, network, history,
         SenderStep, CreateSocket, Dequeue, QueueIsEmpty, Connect,
         ConnectFails, SendDatagram, ReceiveReply, ReceiveTimesOut, LoopEnds,
         TurnLedOff, WakeUp, NetworkStep, DeliverReply, LoseReply,
         ServerAnswers, LoseDatagram, Restart, Offer

LEMMA NothingOutstanding ==
  ASSUME TypeOK, FiniteInv, LossInv, Prompt, pc # "recv"
  PROVE  toServer = {} /\ toDevice = {} /\ recvmbox = <<>>
<1>1. /\ Cardinality(toServer) \in Nat
      /\ Cardinality(toDevice) \in Nat
      /\ Len(recvmbox) \in Nat
  BY FS_CardinalityType DEF FiniteInv, TypeOK, BufferTypeOK
<1>2. Cardinality(Missing) \in Nat
  BY ReadingsAreFinite DEF Missing
<1>3. Cardinality(toServer) = 0 /\ Cardinality(toDevice) = 0 /\ Len(recvmbox) = 0
  BY <1>1, <1>2 DEF LossInv, Prompt, Outstanding, Awaited
<1> QED
  BY <1>3, FS_EmptySet DEF FiniteInv, TypeOK, BufferTypeOK

LEMMA PromptNext ==
  ASSUME TypeOK, FiniteInv, LossInv, PromptInv, [Next]_vars
  PROVE  PromptInv'
<1> SUFFICES ASSUME Prompt', pc' = "recv" PROVE AboutCurrent'
  BY DEF PromptInv
<1>0. Prompt
  BY PromptStays
<1>1. CASE SendDatagram
  <2>1. toServer = {} /\ toDevice = {} /\ recvmbox = <<>>
    BY <1>0, <1>1, NothingOutstanding DEF SendDatagram
  <2> QED
    BY <1>1, <2>1 DEF SendDatagram, AboutCurrent
<1>2. CASE pc = "recv" /\ UNCHANGED recorded_data
  <2>1. AboutCurrent
    BY <1>0, <1>2 DEF PromptInv
  <2>2. ASSUME NEW m \in toDevice, DeliverReply(m) PROVE AboutCurrent'
    <3>1. recvmbox \in Seq(Replies) /\ m \in Replies
      BY DEF TypeOK, BufferTypeOK, NetworkTypeOK
    <3>2. \A i \in 1..Len(recvmbox') :
             \/ i \in 1..Len(recvmbox) /\ recvmbox'[i] = recvmbox[i]
             \/ recvmbox'[i] = m
      BY <2>2, <3>1 DEF DeliverReply
    <3>3. toDevice' \subseteq toDevice /\ toServer' = toServer
      BY <2>2 DEF DeliverReply
    <3> QED
      BY <1>2, <2>1, <3>2, <3>3 DEF AboutCurrent
  <2>3. ASSUME NEW d \in toServer, ServerAnswers(d) PROVE AboutCurrent'
    <3>1. /\ \A m \in toDevice' : m \in toDevice \/ m.to = d
          /\ toServer' \subseteq toServer
          /\ recvmbox' = recvmbox
      BY <2>3 DEF ServerAnswers
    <3> QED
      BY <1>2, <2>1, <3>1 DEF AboutCurrent
  <2>4. CASE /\ toServer' \subseteq toServer
             /\ toDevice' \subseteq toDevice
             /\ recvmbox' = recvmbox
    BY <1>2, <2>1, <2>4 DEF AboutCurrent
  <2> QED
    BY <1>2, <2>2, <2>3, <2>4
    DEF Next, vars, network, task, SenderStep, CreateSocket, Dequeue,
        QueueIsEmpty, Connect, ConnectFails, SendDatagram, AfterSend,
        ReceiveReply, ReceiveTimesOut, LoopEnds, TurnLedOff, WakeUp,
        NetworkStep, LoseReply, LoseDatagram, Restart, Offer
<1> QED
  BY <1>1, <1>2
  DEF Next, vars, task, SenderStep, CreateSocket, Dequeue, QueueIsEmpty,
      Connect, ConnectFails, ReceiveReply, ReceiveTimesOut, LoopEnds,
      TurnLedOff, WakeUp, NetworkStep, DeliverReply, LoseReply, ServerAnswers,
      LoseDatagram, Restart, Offer

LEMMA HonestNext ==
  ASSUME TypeOK, NetworkInv, PromptInv, PromptNetworkIsHonest, [Next]_vars
  PROVE  PromptNetworkIsHonest'
<1> SUFFICES ASSUME Prompt', NEW r \in Readings, outcome'[r] = "acked"
             PROVE  ackedBy'[r] \in served' /\ ackedBy'[r].reading = r
  BY DEF PromptNetworkIsHonest, Prompt
<1>0. Prompt
  BY PromptStays
<1> USE DEF TypeOK, HistoryTypeOK
<1>1. served \subseteq served'
  BY DEF Next, vars, network, SenderStep, CreateSocket, Dequeue, QueueIsEmpty,
      Connect, ConnectFails, SendDatagram, ReceiveReply, ReceiveTimesOut,
      LoopEnds, TurnLedOff, WakeUp, NetworkStep, DeliverReply, LoseReply,
      ServerAnswers, LoseDatagram, Restart, Offer
<1>2. CASE ReceiveReply /\ r = recorded_data /\ Head(recvmbox).text = "ACK"
  <2>1. Head(recvmbox) = recvmbox[1] /\ 1 \in 1..Len(recvmbox)
    BY <1>2 DEF ReceiveReply, BufferTypeOK
  <2>2. ackedBy'[r] = recvmbox[1].to
    BY <1>2, <2>1 DEF ReceiveReply
  <2>3. recvmbox[1].to \in served /\ recvmbox[1].to.reading = recorded_data
    BY <1>0, <1>2, <2>1 DEF NetworkInv, PromptInv, AboutCurrent, ReceiveReply
  <2> QED
    BY <1>1, <1>2, <2>2, <2>3
<1>3. CASE outcome'[r] = outcome[r] /\ ackedBy'[r] = ackedBy[r]
  BY <1>0, <1>1, <1>3 DEF PromptNetworkIsHonest, Prompt
<1>4. CASE ReceiveReply /\ ~(r = recorded_data /\ Head(recvmbox).text = "ACK")
  BY <1>3, <1>4 DEF ReceiveReply
<1>5. CASE ConnectFails \/ LoopEnds
  BY <1>3, <1>5 DEF ConnectFails, LoopEnds
<1> QED
  BY <1>2, <1>3, <1>4, <1>5
  DEF Next, vars, network, history, SenderStep, CreateSocket, Dequeue,
      QueueIsEmpty, Connect, SendDatagram, ReceiveTimesOut, TurnLedOff, WakeUp,
      NetworkStep, DeliverReply, LoseReply, ServerAnswers, LoseDatagram,
      Restart, Offer

(* "Data sent successfully" is true as long as no wait has timed out, the  *)
(* device has not restarted and nothing was duplicated: the server has a   *)
(* datagram with the reading the device reports as sent.                   *)
THEOREM PromptAcksAreHonest == Spec => []PromptNetworkIsHonest
<1>1. Init => PromptInv /\ PromptNetworkIsHonest
  BY DEF Init, PromptInv, PromptNetworkIsHonest
<1>3. Spec => []NetworkInv
  BY NetworkInit, NetworkNext, TypeCorrect, OrderCorrect, PTL DEF Spec
<1>4. Spec => []PromptInv
  BY <1>1, LossCorrect, PromptNext, PTL DEF Spec
<1> QED
  BY <1>1, <1>3, <1>4, HonestNext, TypeCorrect, PTL DEF Spec
-----------------------------------------------------------------------------
(* Without duplication each datagram is in one place only: on its way, in  *)
(* one reply, or used up.                                                  *)

(* A datagram of the reading in hand that is under way bears the number of *)
(* an attempt already made.                                                *)
AttemptsAreCounted ==
  \A d \in toServer \cup served : d.reading = recorded_data =>
    /\ pc # "connect"
    /\ pc \in {"attempt", "recv"} => d.attempt <= udp_attempts

(* The places a reply can be in are distinct, and none holds a reply to a  *)
(* datagram that is still to be answered or has acknowledged something.    *)
OneCopy ==
  /\ \A d \in toServer : d \notin served
  /\ \A m, n \in toDevice : m.to = n.to => m = n
  /\ \A i, j \in 1..Len(recvmbox) : recvmbox[i].to = recvmbox[j].to => i = j
  /\ \A m \in toDevice, i \in 1..Len(recvmbox) : recvmbox[i].to # m.to
  /\ \A r \in Readings : outcome[r] = "acked" =>
        /\ \A m \in toDevice : m.to # ackedBy[r]
        /\ \A i \in 1..Len(recvmbox) : recvmbox[i].to # ackedBy[r]

OnceInv == duplicates = 0 => OneCopy

LEMMA AttemptsNext ==
  ASSUME TypeOK, OrderInv, NetworkInv, AttemptsAreCounted, [Next]_vars
  PROVE  AttemptsAreCounted'
<1> SUFFICES ASSUME NEW d \in (toServer \cup served)', d.reading = recorded_data'
             PROVE  /\ pc' # "connect"
                    /\ pc' \in {"attempt", "recv"} => d.attempt <= udp_attempts'
  BY DEF AttemptsAreCounted
<1> USE DEF AttemptsAreCounted
<1>1. CASE Dequeue
  <2>1. d \in toServer \cup served /\ Past(d.reading)
    BY <1>1 DEF Dequeue, network, NetworkInv
  <2>2. recorded_data' = msg_queue[1] /\ 1 \in 1..Len(msg_queue)
    BY <1>1 DEF Dequeue, TypeOK, BufferTypeOK
  <2>3. msg_queue[1] \in Nat
    <3>1. msg_queue[1] \in Readings
      BY <2>2 DEF TypeOK, BufferTypeOK
    <3> QED
      BY <3>1 DEF Readings
  <2>4. d.reading \in Nat
    BY <2>1 DEF TypeOK, NetworkTypeOK, Datagrams, Readings
  <2>5. d.reading < msg_queue[1]
    BY <2>1, <2>2 DEF Past
  <2>6. d.reading # msg_queue[1]
    BY ONLY <2>3, <2>4, <2>5
  <2> QED
    BY <2>2, <2>6
<1>2. CASE SendDatagram
  <2>1. udp_attempts \in Nat /\ udp_attempts' = udp_attempts + 1 /\ pc = "attempt"
        /\ pc' = "recv" /\ recorded_data' = recorded_data
    BY <1>2 DEF SendDatagram, AfterSend, TypeOK, TaskTypeOK
  <2>2. CASE d \in toServer \cup served
    <3>1. d.attempt <= udp_attempts /\ d.attempt \in Nat
      BY <2>1, <2>2 DEF TypeOK, NetworkTypeOK, Datagrams
    <3> QED
      BY <2>1, <3>1
  <2>3. CASE d = [reading |-> recorded_data, attempt |-> udp_attempts + 1]
    BY <2>1, <2>3
  <2> QED
    BY <1>2, <2>2, <2>3 DEF SendDatagram
<1>3. CASE NetworkStep
  <2>1. d \in toServer \cup served
    BY <1>3 DEF NetworkStep, DeliverReply, LoseReply, ServerAnswers, LoseDatagram
  <2> QED
    BY <1>3, <2>1 DEF NetworkStep, DeliverReply, LoseReply, ServerAnswers,
                      LoseDatagram, task
<1>4. CASE Connect
  BY <1>4 DEF Connect, network
<1>5. CASE Restart
  BY <1>5 DEF Restart
<1>6. CASE /\ UNCHANGED <<recorded_data, toServer, served>>
           /\ pc' # "connect" \/ pc = "connect"
           /\ pc' \in {"attempt", "recv"} =>
                 pc \in {"attempt", "recv"} /\ UNCHANGED udp_attempts
  BY <1>6
<1>7. CASE CreateSocket \/ QueueIsEmpty \/ ConnectFails \/ LoopEnds \/ TurnLedOff
           \/ WakeUp
  BY <1>6, <1>7 DEF CreateSocket, QueueIsEmpty, ConnectFails, LoopEnds,
                    TurnLedOff, WakeUp, network
<1>8. CASE ReceiveReply \/ ReceiveTimesOut
  BY <1>6, <1>8 DEF ReceiveReply, ReceiveTimesOut, network
<1>9. CASE UNCHANGED <<task, network>>
  BY <1>6, <1>9 DEF task, network
<1> QED
  BY <1>1, <1>2, <1>3, <1>4, <1>5, <1>7, <1>8, <1>9
  DEF Next, vars, SenderStep, Offer

LEMMA OneCopyNext ==
  ASSUME TypeOK, OrderInv, NetworkInv, AckIsBacked, AttemptsAreCounted, OneCopy,
         [Next]_vars, duplicates = 0, duplicates' = 0
  PROVE  OneCopy'
<1> USE DEF OneCopy
<1>1. CASE SendDatagram
  <2> DEFINE new == [reading |-> recorded_data, attempt |-> udp_attempts + 1]
  <2>1. new \notin served
    <3> SUFFICES ASSUME new \in served PROVE FALSE
      OBVIOUS
    <3>1. new.attempt <= udp_attempts
      BY <1>1 DEF SendDatagram, AttemptsAreCounted
    <3> QED
      BY <3>1 DEF TypeOK, TaskTypeOK
  <2>2. \A d \in toServer' : d \notin served'
    BY <1>1, <2>1 DEF SendDatagram
  <2> QED
    BY <1>1, <2>2 DEF SendDatagram, history
<1>2. CASE ReceiveReply
  <2>1. /\ recvmbox \in Seq(Replies) /\ recvmbox # <<>>
        /\ recvmbox' = Tail(recvmbox) /\ Head(recvmbox) = recvmbox[1]
        /\ 1 \in 1..Len(recvmbox)
    BY <1>2 DEF ReceiveReply, Received, TypeOK, BufferTypeOK
  <2>2. \A i \in 1..Len(recvmbox') : /\ i + 1 \in 1..Len(recvmbox)
                                     /\ i + 1 # 1
                                     /\ recvmbox'[i] = recvmbox[i + 1]
    BY <2>1
  <2>3. UNCHANGED <<toServer, toDevice, served>>
    BY <1>2 DEF ReceiveReply, network
  <2>4. \A i, j \in 1..Len(recvmbox') : recvmbox'[i].to = recvmbox'[j].to => i = j
    <3> SUFFICES ASSUME NEW i \in 1..Len(recvmbox'), NEW j \in 1..Len(recvmbox'),
                        recvmbox'[i].to = recvmbox'[j].to
                 PROVE  i = j
      OBVIOUS
    <3>1. i + 1 = j + 1
      BY <2>2
    <3> QED
      BY <3>1
  <2>5. ASSUME NEW r \in Readings, outcome'[r] = "acked"
        PROVE  /\ \A m \in toDevice' : m.to # ackedBy'[r]
               /\ \A i \in 1..Len(recvmbox') : recvmbox'[i].to # ackedBy'[r]
    <3>1. CASE r = recorded_data /\ Head(recvmbox).text = "ACK"
      <4>1. ackedBy'[r] = recvmbox[1].to
        BY <1>2, <2>1, <3>1 DEF ReceiveReply, TypeOK, HistoryTypeOK
      <4> QED
        BY <2>1, <2>2, <2>3, <4>1
    <3>2. CASE ~(r = recorded_data /\ Head(recvmbox).text = "ACK")
      <4>1. outcome'[r] = outcome[r] /\ ackedBy'[r] = ackedBy[r]
        BY <1>2, <3>2 DEF ReceiveReply, TypeOK, HistoryTypeOK
      <4> QED
        BY <2>2, <2>3, <2>5, <4>1
    <3> QED
      BY <3>1, <3>2
  <2> QED
    BY <2>2, <2>3, <2>4, <2>5
<1>3. ASSUME NEW m \in toDevice, DeliverReply(m) PROVE OneCopy'
  <2>1. /\ toDevice' = toDevice \ {m}
        /\ UNCHANGED <<toServer, served, outcome, ackedBy>>
    BY <1>3 DEF DeliverReply, history
  <2>2. CASE recvmbox' = recvmbox
    BY <2>1, <2>2
  <2>3. CASE recvmbox' = Append(recvmbox, m)
    <3>1. recvmbox \in Seq(Replies) /\ m \in Replies
      BY DEF TypeOK, BufferTypeOK, NetworkTypeOK
    <3>2. \A i \in 1..Len(recvmbox') :
             \/ i \in 1..Len(recvmbox) /\ recvmbox'[i] = recvmbox[i]
             \/ i = Len(recvmbox) + 1 /\ recvmbox'[i] = m
      BY <2>3, <3>1
    <3>3. \A i, j \in 1..Len(recvmbox') : recvmbox'[i].to = recvmbox'[j].to => i = j
      BY <3>2
    <3>4. \A n \in toDevice', i \in 1..Len(recvmbox') : recvmbox'[i].to # n.to
      BY <2>1, <3>2
    <3>5. \A r \in Readings : outcome'[r] = "acked" =>
             /\ \A n \in toDevice' : n.to # ackedBy'[r]
             /\ \A i \in 1..Len(recvmbox') : recvmbox'[i].to # ackedBy'[r]
      BY <2>1, <3>2
    <3> QED
      BY <2>1, <3>3, <3>4, <3>5
  <2> QED
    BY <1>3, <2>2, <2>3 DEF DeliverReply
<1>4. ASSUME NEW d \in toServer, ServerAnswers(d) PROVE OneCopy'
  <2>1. PICK t \in ReplyTexts : toDevice' = toDevice \cup {[to |-> d, text |-> t]}
    BY <1>4 DEF ServerAnswers
  <2>2. /\ toServer' = toServer \ {d} /\ served' = served \cup {d}
        /\ UNCHANGED <<recvmbox, outcome, ackedBy>>
    BY <1>4 DEF ServerAnswers, history
  <2>3. d \notin served
    OBVIOUS
  <2>4. \A m \in toDevice' : (m \in toDevice /\ m.to # d)
                             \/ (m = [to |-> d, text |-> t] /\ m.to = d)
    BY <2>1, <2>3 DEF NetworkInv
  <2>5. \A i \in 1..Len(recvmbox) : recvmbox[i].to # d
    BY <2>3 DEF NetworkInv
  <2>6. \A r \in Readings : outcome[r] = "acked" => ackedBy[r] # d
    BY <2>3 DEF AckIsBacked
  <2>7. \A m, n \in toDevice' : m.to = n.to => m = n
    BY <2>4
  <2>8. \A m \in toDevice', i \in 1..Len(recvmbox') : recvmbox'[i].to # m.to
    BY <2>2, <2>4, <2>5
  <2>9. \A r \in Readings : outcome'[r] = "acked" =>
           /\ \A m \in toDevice' : m.to # ackedBy'[r]
           /\ \A i \in 1..Len(recvmbox') : recvmbox'[i].to # ackedBy'[r]
    BY <2>2, <2>4, <2>6
  <2> QED
    BY <2>2, <2>7, <2>8, <2>9
<1>5. CASE Restart
  BY <1>5 DEF Restart, network, history
<1>6. CASE ConnectFails \/ LoopEnds
  <2>1. UNCHANGED <<toServer, toDevice, served, recvmbox, ackedBy>>
    BY <1>6 DEF ConnectFails, LoopEnds, network
  <2>2. \A r \in Readings : outcome'[r] = "acked" => outcome[r] = "acked"
    BY <1>6 DEF ConnectFails, LoopEnds, TypeOK, HistoryTypeOK
  <2> QED
    BY <2>1, <2>2
<1>7. CASE /\ toServer' \subseteq toServer
           /\ toDevice' \subseteq toDevice
           /\ UNCHANGED <<served, recvmbox, outcome, ackedBy>>
  BY <1>7
<1> QED
  BY <1>1, <1>2, <1>3, <1>4, <1>5, <1>6, <1>7
  DEF Next, vars, network, history, SenderStep, CreateSocket, Dequeue,
      QueueIsEmpty, Connect, ReceiveTimesOut, TurnLedOff, WakeUp, NetworkStep,
      LoseReply, LoseDatagram, Offer

LEMMA AckUsedOnceNext ==
  ASSUME TypeOK, OneCopy, AckUsedOnce, [Next]_vars, duplicates = 0
  PROVE  AckUsedOnce'
<1> SUFFICES ASSUME NEW r \in Readings, NEW s \in Readings,
                    outcome'[r] = "acked", outcome'[s] = "acked",
                    ackedBy'[r] = ackedBy'[s]
             PROVE  r = s
  BY DEF AckUsedOnce
<1>1. \A q \in Readings : outcome'[q] = "acked" =>
         \/ outcome[q] = "acked" /\ ackedBy'[q] = ackedBy[q]
         \/ /\ q = recorded_data
            /\ ackedBy'[q] = recvmbox[1].to
            /\ 1 \in 1..Len(recvmbox)
  <2>1. CASE ReceiveReply
    <3>1. Head(recvmbox) = recvmbox[1] /\ 1 \in 1..Len(recvmbox)
      BY <2>1 DEF ReceiveReply, TypeOK, BufferTypeOK
    <3> QED
      BY <2>1, <3>1 DEF ReceiveReply, TypeOK, HistoryTypeOK
  <2>2. CASE ConnectFails \/ LoopEnds
    BY <2>2 DEF ConnectFails, LoopEnds, TypeOK, HistoryTypeOK
  <2> QED
    BY <2>1, <2>2
    DEF Next, vars, network, history, SenderStep, CreateSocket, Dequeue,
        QueueIsEmpty, Connect, SendDatagram, ReceiveTimesOut, TurnLedOff, WakeUp,
        NetworkStep, DeliverReply, LoseReply, ServerAnswers, LoseDatagram,
        Restart, Offer
<1>2. \A q \in Readings : outcome[q] = "acked" /\ 1 \in 1..Len(recvmbox) =>
         ackedBy[q] # recvmbox[1].to
  BY DEF OneCopy
<1>3. \A p, q \in Readings :
         outcome[p] = "acked" /\ outcome[q] = "acked" /\ ackedBy[p] = ackedBy[q]
         => p = q
  BY DEF AckUsedOnce
<1> QED
  BY <1>1, <1>2, <1>3

LEMMA DuplicatesStay == TypeOK /\ [Next]_vars /\ duplicates' = 0 => duplicates = 0
  BY DEF TypeOK, HistoryTypeOK, Next, vars, network, SenderStep, CreateSocket,
      Dequeue, QueueIsEmpty, Connect, ConnectFails, SendDatagram, ReceiveReply,
      ReceiveTimesOut, LoopEnds, TurnLedOff, WakeUp, NetworkStep, DeliverReply,
      LoseReply, ServerAnswers, LoseDatagram, Restart, Offer

(* While the network duplicates nothing, no reply acknowledges two         *)
(* readings (data_server.c:112): the device never reports more readings as *)
(* sent than the server took datagrams.                                    *)
THEOREM AcksAreUsedOnce == Spec => []AckUsedOnce
<1>1. Init => AttemptsAreCounted /\ OnceInv /\ AckUsedOnce
  BY DEF Init, AttemptsAreCounted, OnceInv, OneCopy, AckUsedOnce
<1>2. Spec => []NetworkInv
  BY NetworkInit, NetworkNext, TypeCorrect, OrderCorrect, PTL DEF Spec
<1>3. Spec => []AttemptsAreCounted
  BY <1>1, <1>2, AttemptsNext, TypeCorrect, OrderCorrect, PTL DEF Spec
<1>4. TypeOK /\ OrderInv /\ NetworkInv /\ AckIsBacked /\ AttemptsAreCounted
        /\ OnceInv /\ [Next]_vars => OnceInv'
  BY OneCopyNext, DuplicatesStay DEF OnceInv
<1>5. TypeOK /\ OnceInv /\ AckUsedOnce /\ [Next]_vars => AckUsedOnce'
  BY AckUsedOnceNext, DuplicatesStay DEF OnceInv, AckUsedOnce
<1>6. Spec => []OnceInv
  BY <1>1, <1>2, <1>3, <1>4, TypeCorrect, OrderCorrect, AcksAreBacked, PTL DEF Spec
<1> QED
  BY <1>1, <1>5, <1>6, TypeCorrect, PTL DEF Spec
-----------------------------------------------------------------------------
(* How far an exchange is from its end: the steps the task has yet to make *)
(* at most.                                                                *)

Attempts == (UDP_MAX_ATTEMPTS - udp_attempts) + (UDP_MAX_ATTEMPTS - udp_attempts)

StepsLeft ==
  CASE pc = "connect" -> UDP_MAX_ATTEMPTS + UDP_MAX_ATTEMPTS + 3
    [] pc = "recv" -> Attempts + 3
    [] pc = "attempt" -> IF udp_sent THEN 2 ELSE Attempts + 2
    [] pc = "finish" -> 1
    [] OTHER -> 0

LitInExchange == led = "on" => pc \in {"connect", "attempt", "recv", "finish"}

LEMMA LitNext == LitInExchange /\ [Next]_vars => LitInExchange'
  BY DEF LitInExchange, Next, vars, task, SenderStep, CreateSocket, Dequeue,
         QueueIsEmpty, Connect, ConnectFails, SendDatagram, AfterSend,
         ReceiveReply, ReceiveTimesOut, LoopEnds, TurnLedOff, WakeUp,
         NetworkStep, DeliverReply, LoseReply, ServerAnswers, LoseDatagram,
         Restart, Offer

LEMMA LeftIsBounded ==
  ASSUME TypeOK
  PROVE  /\ StepsLeft \in 0..(UDP_MAX_ATTEMPTS + UDP_MAX_ATTEMPTS + 3)
         /\ pc \in {"connect", "attempt", "recv", "finish"} => StepsLeft > 0
<1>1. /\ UDP_MAX_ATTEMPTS \in Nat /\ udp_attempts \in Nat
      /\ udp_attempts <= UDP_MAX_ATTEMPTS
  BY DataServerAssumption DEF TypeOK, TaskTypeOK
<1>2. Attempts \in 0..(UDP_MAX_ATTEMPTS + UDP_MAX_ATTEMPTS)
  BY <1>1 DEF Attempts
<1> HIDE DEF Attempts
<1> QED
  BY <1>1, <1>2 DEF StepsLeft

LEMMA StepsShorten ==
  ASSUME TypeOK, pc \in {"connect", "attempt", "recv", "finish"}, SenderStep
  PROVE  StepsLeft' < StepsLeft
<1>1. /\ UDP_MAX_ATTEMPTS \in Nat /\ udp_attempts \in Nat
      /\ udp_attempts <= UDP_MAX_ATTEMPTS
      /\ udp_sent \in BOOLEAN
  BY DataServerAssumption DEF TypeOK, TaskTypeOK
<1>2. Attempts \in Nat
  BY <1>1 DEF Attempts
<1>3. CASE Connect \/ ConnectFails
  BY <1>1, <1>3 DEF Connect, ConnectFails, StepsLeft, Attempts
<1>4. CASE SendDatagram
  <2>1. Attempts' = Attempts - 2
    BY <1>1, <1>4 DEF SendDatagram, KeepsSending, Attempts
  <2>2. StepsLeft = Attempts + 2 /\ StepsLeft' = Attempts' + 3
    BY <1>4 DEF SendDatagram, AfterSend, KeepsSending, StepsLeft
  <2> QED
    BY <1>2, <2>1, <2>2
<1>5. CASE ReceiveReply \/ ReceiveTimesOut
  <2>1. Attempts' = Attempts
    BY <1>5 DEF ReceiveReply, ReceiveTimesOut, Attempts
  <2>2. StepsLeft = Attempts + 3 /\ StepsLeft' \in {2, Attempts' + 2}
    BY <1>5 DEF ReceiveReply, ReceiveTimesOut, StepsLeft
  <2> QED
    BY <1>2, <2>1, <2>2
<1>6. CASE LoopEnds
  <2>1. StepsLeft \in {2, Attempts + 2} /\ StepsLeft' = 1
    BY <1>6 DEF LoopEnds, StepsLeft
  <2> QED
    BY <1>2, <2>1
<1>7. CASE TurnLedOff
  BY <1>7 DEF TurnLedOff, StepsLeft
<1> QED
  BY <1>3, <1>4, <1>5, <1>6, <1>7
  DEF SenderStep, CreateSocket, Dequeue, QueueIsEmpty, WakeUp

(* What LedGoesOff needs beside fairness, for every number of attempts: an *)
(* exchange (data_server.c:73-132) has at most 2 * UDP_MAX_ATTEMPTS + 3    *)
(* steps, each step of the task is one less, and nothing the network, the  *)
(* server or the sensor task does adds any.                                *)
THEOREM ExchangesEnd ==
  Spec => /\ [](/\ StepsLeft \in 0..(UDP_MAX_ATTEMPTS + UDP_MAX_ATTEMPTS + 3)
                /\ led = "on" => StepsLeft > 0)
          /\ [][/\ led = "on" /\ SenderStep => StepsLeft' < StepsLeft
                /\ NetworkStep \/ (\E r \in Readings : Offer(r))
                     => StepsLeft' = StepsLeft]_vars
<1>1. Init => LitInExchange
  BY DEF Init, LitInExchange
<1>2. TypeOK /\ LitInExchange =>
        /\ StepsLeft \in 0..(UDP_MAX_ATTEMPTS + UDP_MAX_ATTEMPTS + 3)
        /\ led = "on" => StepsLeft > 0
  BY LeftIsBounded DEF LitInExchange
<1>3. TypeOK /\ LitInExchange /\ [Next]_vars =>
        [/\ led = "on" /\ SenderStep => StepsLeft' < StepsLeft
         /\ NetworkStep \/ (\E r \in Readings : Offer(r))
              => StepsLeft' = StepsLeft]_vars
  <2>1. NetworkStep \/ (\E r \in Readings : Offer(r)) => UNCHANGED task
    BY DEF NetworkStep, DeliverReply, LoseReply, ServerAnswers, LoseDatagram,
           Offer
  <2>2. UNCHANGED task => StepsLeft' = StepsLeft
    BY DEF task, StepsLeft, Attempts
  <2> QED
    BY <2>1, <2>2, StepsShorten DEF LitInExchange
<1> QED
  BY <1>1, <1>2, <1>3, LitNext, TypeCorrect, PTL DEF Spec

LEMMA Differences ==
  \A a, b \in Nat : b <= a => a - b \in Nat
  OBVIOUS

LEMMA LessInSums ==
  \A a, b, c \in Nat : a < b => a + c < b + c
  OBVIOUS

(* How far the task is from its next look at the queue, and a reading that *)
(* waits at place i from its turn.                                         *)
StepsToPoll ==
  CASE pc = "poll" -> 0
    [] pc \in {"socket", "sleep"} -> 1
    [] OTHER -> StepsLeft + 1

Cycle == UDP_MAX_ATTEMPTS + UDP_MAX_ATTEMPTS + 5

StepsAhead(i) == StepsToPoll + (i - 1) * Cycle

LEMMA CycleIsLong ==
  TypeOK => Cycle \in Nat /\ StepsToPoll \in Nat /\ StepsToPoll < Cycle
<1> SUFFICES ASSUME TypeOK
             PROVE  Cycle \in Nat /\ StepsToPoll \in Nat /\ StepsToPoll < Cycle
  OBVIOUS
<1>1. StepsLeft \in 0..(UDP_MAX_ATTEMPTS + UDP_MAX_ATTEMPTS + 3)
  BY LeftIsBounded
<1>2. UDP_MAX_ATTEMPTS \in Nat
  BY DataServerAssumption
<1> QED
  BY <1>1, <1>2 DEF StepsToPoll, Cycle

(* A step other than the look at the queue brings the task nearer to it.   *)
LEMMA PollComesNearer ==
  ASSUME TypeOK, pc # "poll", SenderStep
  PROVE  /\ StepsToPoll' \in Nat /\ StepsToPoll' < StepsToPoll
         /\ UNCHANGED msg_queue
<1>1. UNCHANGED msg_queue
  BY DEF SenderStep, CreateSocket, Dequeue, QueueIsEmpty, Connect, ConnectFails,
         SendDatagram, ReceiveReply, ReceiveTimesOut, LoopEnds, TurnLedOff, WakeUp
<1>2. CASE pc \in {"socket", "sleep"}
  <2>1. pc' = "poll"
    BY <1>2 DEF SenderStep, CreateSocket, Dequeue, QueueIsEmpty, Connect,
                ConnectFails, SendDatagram, ReceiveReply, ReceiveTimesOut,
                LoopEnds, TurnLedOff, WakeUp
  <2> QED
    BY <1>1, <1>2, <2>1 DEF StepsToPoll
<1>3. CASE pc \in {"connect", "attempt", "recv", "finish"}
  <2>1. StepsLeft' < StepsLeft
    BY <1>3, StepsShorten
  <2>2. pc' \in {"attempt", "recv", "finish", "sleep"}
    BY <1>3 DEF SenderStep, CreateSocket, Dequeue, QueueIsEmpty, Connect,
                ConnectFails, SendDatagram, AfterSend, ReceiveReply,
                ReceiveTimesOut, LoopEnds, TurnLedOff, WakeUp
  <2>3. StepsLeft \in Nat /\ StepsLeft > 0
    BY <1>3, LeftIsBounded, DataServerAssumption
  <2>4. StepsToPoll = StepsLeft + 1
    BY <1>3 DEF StepsToPoll
  <2>5. IF pc' = "sleep" THEN StepsToPoll' = 1 ELSE StepsToPoll' = StepsLeft' + 1
    BY <2>2 DEF StepsToPoll
  <2>6. StepsLeft' \in Nat
    <3>1. TypeOK'
      BY TypeNext DEF Next
    <3>2. /\ UDP_MAX_ATTEMPTS \in Nat /\ udp_attempts' \in Nat
          /\ udp_attempts' <= UDP_MAX_ATTEMPTS
      BY <3>1, DataServerAssumption DEF TypeOK, TaskTypeOK
    <3>3. UDP_MAX_ATTEMPTS - udp_attempts' \in Nat
      BY <3>2, Differences
    <3>4. Attempts' = (UDP_MAX_ATTEMPTS - udp_attempts')
                        + (UDP_MAX_ATTEMPTS - udp_attempts')
      BY DEF Attempts
    <3>5. Attempts' \in Nat
      BY <3>3, <3>4
    <3> QED
      BY <3>2, <3>5 DEF StepsLeft
  <2> QED
    BY <1>1, <2>1, <2>3, <2>4, <2>5, <2>6
<1> QED
  BY <1>2, <1>3 DEF TypeOK, TaskTypeOK

(* What EveryReadingIsSettled needs beside fairness and the end of each    *)
(* exchange: the reading at place i of the queue is taken up after at most *)
(* StepsAhead(i) + 1 steps of the task (data_server.c:63), whatever still  *)
(* comes into the queue and whatever the network does.                     *)
THEOREM QueueMoves ==
  Spec =>
    [][\A i \in 1..Len(msg_queue) :
         /\ StepsAhead(i) \in Nat
         /\ SenderStep /\ StepsAhead(i) = 0 => recorded_data' = msg_queue[i]
         /\ SenderStep /\ StepsAhead(i) > 0 =>
              \E j \in 1..Len(msg_queue') :
                 msg_queue'[j] = msg_queue[i] /\ StepsAhead(j)' < StepsAhead(i)
         /\ NetworkStep \/ (\E r \in Readings : Offer(r)) =>
              msg_queue'[i] = msg_queue[i] /\ StepsAhead(i)' = StepsAhead(i)]_vars
<1>1. ASSUME TypeOK, NEW i \in 1..Len(msg_queue)
      PROVE  StepsAhead(i) \in Nat /\ (StepsAhead(i) = 0 <=> pc = "poll" /\ i = 1)
  <2>1. Cycle \in Nat /\ StepsToPoll \in Nat /\ Cycle >= 5
    BY <1>1, CycleIsLong, DataServerAssumption DEF Cycle
  <2>2. i \in Nat /\ i >= 1
    BY <1>1 DEF TypeOK, BufferTypeOK
  <2>3. StepsToPoll = 0 <=> pc = "poll"
    <3>1. StepsLeft \in Nat
      BY <1>1, LeftIsBounded, DataServerAssumption
    <3> QED
      BY <3>1 DEF StepsToPoll
  <2>4. (i - 1) * Cycle \in Nat /\ ((i - 1) * Cycle = 0 <=> i = 1)
    <3> HIDE DEF Cycle
    <3> QED
      BY <2>1, <2>2
  <2> QED
    BY <2>1, <2>3, <2>4 DEF StepsAhead
<1>2. ASSUME TypeOK, NEW i \in 1..Len(msg_queue), SenderStep
      PROVE  /\ StepsAhead(i) = 0 => recorded_data' = msg_queue[i]
             /\ StepsAhead(i) > 0 =>
                  \E j \in 1..Len(msg_queue') :
                     msg_queue'[j] = msg_queue[i] /\ StepsAhead(j)' < StepsAhead(i)
  <2>1. msg_queue \in Seq(Readings) /\ i \in Nat /\ i >= 1 /\ i <= Len(msg_queue)
    BY <1>2 DEF TypeOK, BufferTypeOK
  <2>2. Cycle \in Nat /\ StepsToPoll \in Nat
    BY <1>2, CycleIsLong
  <2>3. CASE pc = "poll"
    <3>1. Dequeue
      BY <1>2, <2>1, <2>3 DEF SenderStep, CreateSocket, QueueIsEmpty, Connect,
         ConnectFails, SendDatagram, ReceiveReply, ReceiveTimesOut, LoopEnds,
         TurnLedOff, WakeUp
    <3>2. /\ recorded_data' = msg_queue[1] /\ msg_queue' = Tail(msg_queue)
          /\ pc' = "connect"
      BY <2>1, <3>1 DEF Dequeue, Dequeued
    <3>3. CASE i = 1
      BY <1>1, <1>2, <2>3, <3>2, <3>3
    <3>4. CASE i # 1
      <4>1. /\ i - 1 \in 1..Len(msg_queue')
            /\ msg_queue'[i - 1] = msg_queue[i]
        BY <2>1, <3>2, <3>4
      <4>2. StepsToPoll = 0
        BY <2>3 DEF StepsToPoll
      <4>3. StepsAhead(i - 1)' < StepsAhead(i)
        <5> DEFINE X == (i - 1) * Cycle
                   Y == (i - 1 - 1) * Cycle
        <5>1. StepsAhead(i) = StepsToPoll + X /\ StepsAhead(i - 1)' = StepsToPoll' + Y
          BY DEF StepsAhead, Cycle
        <5>2. X = Y + Cycle /\ Y \in Int
          <6> HIDE DEF Cycle
          <6> QED
            BY <2>1, <2>2
        <5>3. StepsToPoll' = Cycle - 1
          BY <2>2, <3>2, DataServerAssumption DEF StepsToPoll, StepsLeft, Cycle
        <5> HIDE DEF X, Y
        <5> QED
          BY <2>2, <4>2, <5>1, <5>2, <5>3
      <4>4. ~(StepsAhead(i) = 0)
        BY <1>1, <1>2, <3>4
      <4> QED
        BY <4>1, <4>3, <4>4
    <3> QED
      BY <3>3, <3>4
  <2>4. CASE pc # "poll"
    <3>1. /\ StepsToPoll' \in Nat /\ StepsToPoll' < StepsToPoll
          /\ UNCHANGED msg_queue
      BY <1>2, <2>4, PollComesNearer
    <3>2. StepsAhead(i)' < StepsAhead(i)
      <4> DEFINE X == (i - 1) * Cycle
      <4>1. StepsAhead(i)' = StepsToPoll' + X /\ StepsAhead(i) = StepsToPoll + X
        BY DEF StepsAhead, Cycle
      <4>2. X \in Nat
        <5> HIDE DEF Cycle
        <5> QED
          BY <2>1, <2>2
      <4>3. /\ StepsToPoll \in Nat /\ StepsToPoll' \in Nat
            /\ StepsToPoll' < StepsToPoll
        BY <2>2, <3>1
      <4> HIDE DEF X
      <4>4. StepsToPoll' + X < StepsToPoll + X
        BY <4>2, <4>3, LessInSums
      <4> QED
        BY <4>1, <4>4
    <3> QED
      BY <1>1, <1>2, <2>4, <3>1, <3>2
  <2> QED
    BY <2>3, <2>4
<1>3. ASSUME TypeOK, NEW i \in 1..Len(msg_queue),
             NetworkStep \/ (\E r \in Readings : Offer(r))
      PROVE  msg_queue'[i] = msg_queue[i] /\ StepsAhead(i)' = StepsAhead(i)
  <2>1. UNCHANGED task
    BY <1>3 DEF NetworkStep, DeliverReply, LoseReply, ServerAnswers, LoseDatagram,
                Offer
  <2>2. StepsAhead(i)' = StepsAhead(i)
    BY <2>1 DEF task, StepsAhead, StepsToPoll, StepsLeft, Attempts, Cycle
  <2>3. CASE NetworkStep
    <3>1. UNCHANGED msg_queue
      BY <2>3 DEF NetworkStep, DeliverReply, LoseReply, ServerAnswers, LoseDatagram
    <3> QED
      BY <2>2, <3>1
  <2>4. ASSUME NEW r \in Readings, Offer(r)
        PROVE  msg_queue'[i] = msg_queue[i]
    <3>1. msg_queue \in Seq(Readings) /\ msg_queue' = Append(msg_queue, r)
      BY <1>3, <2>4 DEF TypeOK, BufferTypeOK, Offer
    <3> QED
      BY <1>3, <3>1, <2>4
  <2> QED
    BY <1>3, <2>2, <2>3, <2>4
<1>4. TypeOK /\ [Next]_vars =>
        [\A i \in 1..Len(msg_queue) :
           /\ StepsAhead(i) \in Nat
           /\ SenderStep /\ StepsAhead(i) = 0 => recorded_data' = msg_queue[i]
           /\ SenderStep /\ StepsAhead(i) > 0 =>
                \E j \in 1..Len(msg_queue') :
                   msg_queue'[j] = msg_queue[i] /\ StepsAhead(j)' < StepsAhead(i)
           /\ NetworkStep \/ (\E r \in Readings : Offer(r)) =>
                msg_queue'[i] = msg_queue[i] /\ StepsAhead(i)' = StepsAhead(i)]_vars
  BY <1>1, <1>2, <1>3
<1> QED
  BY <1>4, TypeCorrect, PTL DEF Spec
=============================================================================
