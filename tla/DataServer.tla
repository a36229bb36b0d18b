------------------------------ MODULE DataServer ------------------------------
(***************************************************************************)
(* The sender task send_data_to_server (main/data_server.c), the UDP       *)
(* socket it owns, the network and the server.                             *)
(*                                                                         *)
(* The task polls the message queue.  It sends a reading it finds there,   *)
(* waits UDP_TIMEOUT for one datagram, and sends again until it has read   *)
(* the text "ACK" or has used UDP_MAX_ATTEMPTS.  Neither the datagram nor  *)
(* the reply carries a number: the model gives both the reading and the    *)
(* attempt they belong to, as history that the device never looks at.      *)
(*                                                                         *)
(* The network may lose, delay, reorder and (MaxDuplicates times)          *)
(* duplicate.  The device may restart at any time (MaxResets times): a     *)
(* power cycle, or a panic of any task.  Time is not counted here: a delay *)
(* ends at some point, and a wait for a reply may time out whenever the    *)
(* socket holds none.                                                      *)
(***************************************************************************)
EXTENDS Naturals, Sequences, FiniteSets, Functions

CONSTANTS
  MaxReading,        \* bound: readings are 1..MaxReading
  UDP_MAX_ATTEMPTS,  \* constants.c
  QUEUE_LENGTH,      \* constants.c
  RECVMBOX_SIZE,     \* CONFIG_LWIP_UDP_RECVMBOX_SIZE of sdkconfig
  ReplyTexts,        \* what the server may answer
  MaxResets,         \* bound: restarts of the device
  MaxDuplicates      \* bound: datagrams the network delivers twice

ASSUME DataServerAssumption ==
  /\ MaxReading \in Nat
  /\ UDP_MAX_ATTEMPTS \in Nat
  /\ QUEUE_LENGTH \in Nat \ {0}
  /\ RECVMBOX_SIZE \in Nat \ {0}
  /\ MaxResets \in Nat
  /\ MaxDuplicates \in Nat

VARIABLES
  pc,             \* where the sender task is
  recorded_data,  \* the reading it works on, 0 after a start
  udp_attempts,
  udp_sent,
  led,            \* the status LED
  msg_queue,      \* the queue between the sensor task and this one
  recvmbox,       \* replies the socket holds until recvfrom takes them
  toServer,       \* datagrams on their way to the server
  toDevice,       \* replies on their way to the device
  served,         \* history: datagrams the server has taken
  outcome,        \* history: what the task concluded about each reading
  ackedBy,        \* history: the datagram whose reply was read as the ACK
  timeouts,       \* history: how many waits for a reply timed out
  offered,        \* the last reading put into the queue
  resets,
  duplicates

task == <<pc, recorded_data, udp_attempts, udp_sent>>
network == <<toServer, toDevice, served, duplicates>>
history == <<outcome, ackedBy, timeouts>>
vars == <<task, led, msg_queue, recvmbox, network, history, offered, resets>>

Readings == 1..MaxReading
Datagrams == [reading : Readings, attempt : 1..UDP_MAX_ATTEMPTS]
Replies == [to : Datagrams, text : ReplyTexts]
NoDatagram == [reading |-> 0, attempt |-> 0]
Verdicts == {"acked", "failed", "unconnected"}

Init ==
  /\ pc = "socket"
  /\ recorded_data = 0
  /\ udp_attempts = 0
  /\ udp_sent = FALSE
  /\ led = "off"
  /\ msg_queue = <<>>
  /\ recvmbox = <<>>
  /\ toServer = {}
  /\ toDevice = {}
  /\ served = {}
  /\ outcome = [r \in Readings |-> "none"]
  /\ ackedBy = [r \in Readings |-> NoDatagram]
  /\ timeouts = 0
  /\ offered = 0
  /\ resets = 0
  /\ duplicates = 0
-----------------------------------------------------------------------------
(* The sender task.                                                        *)

(* socket, setsockopt and bind succeed.                                    *)
CreateSocket ==
  /\ pc = "socket"
  /\ pc' = "poll"
  /\ UNCHANGED <<recorded_data, udp_attempts, udp_sent, led, msg_queue,
                 recvmbox, network, history, offered, resets>>

(* xQueueReceive removes the reading it returns.  Slip: xQueuePeek.         *)
DequeuedByPeek(queue) == queue
Dequeued(queue) == Tail(queue)

(* xQueueReceive finds a reading; the LED goes on for the exchange.        *)
Dequeue ==
  /\ pc = "poll"
  /\ msg_queue # <<>>
  /\ recorded_data' = Head(msg_queue)
  /\ msg_queue' = Dequeued(msg_queue)
  /\ led' = "on"
  /\ pc' = "connect"
  /\ UNCHANGED <<udp_attempts, udp_sent, recvmbox, network, history, offered,
                 resets>>

(* xQueueReceive with no block time returns at once on an empty queue.     *)
QueueIsEmpty ==
  /\ pc = "poll"
  /\ msg_queue = <<>>
  /\ pc' = "sleep"
  /\ UNCHANGED <<recorded_data, udp_attempts, udp_sent, led, msg_queue,
                 recvmbox, network, history, offered, resets>>

(* The reading is encoded and the socket is bound to the server's address; *)
(* replies the socket already holds stay in it.                            *)
Connect ==
  /\ pc = "connect"
  /\ udp_attempts' = 0
  /\ udp_sent' = FALSE
  /\ pc' = "attempt"
  /\ UNCHANGED <<recorded_data, led, msg_queue, recvmbox, network, history,
                 offered, resets>>

(* The task goes to sleep without a look at the LED.                       *)
ConnectFailsEarly ==
  /\ pc = "connect"
  /\ udp_attempts' = 0
  /\ udp_sent' = FALSE
  /\ outcome' = [outcome EXCEPT ![recorded_data] = "unconnected"]
  /\ pc' = "sleep"
  /\ UNCHANGED <<recorded_data, led, msg_queue, recvmbox, network, ackedBy,
                 timeouts, offered, resets>>

ConnectFails ==
  /\ pc = "connect"
  /\ udp_attempts' = 0
  /\ udp_sent' = FALSE
  /\ outcome' = [outcome EXCEPT ![recorded_data] = "unconnected"]
  /\ pc' = "finish"
  /\ UNCHANGED <<recorded_data, led, msg_queue, recvmbox, network, ackedBy,
                 timeouts, offered, resets>>

(* The condition of the retransmission loop, and an off-by-one in it.      *)
KeepsSendingOnceMore == ~udp_sent /\ udp_attempts <= UDP_MAX_ATTEMPTS
KeepsSending == ~udp_sent /\ udp_attempts < UDP_MAX_ATTEMPTS

(* Every sendto is followed by a wait.  Slip: all attempts go out first.   *)
AfterSendInBulk ==
  IF udp_attempts + 1 < UDP_MAX_ATTEMPTS THEN "attempt" ELSE "recv"
AfterSend == "recv"

(* sendto; its result is not looked at, so a datagram that could not be    *)
(* sent counts as an attempt as well.                                      *)
SendDatagram ==
  /\ pc = "attempt"
  /\ KeepsSending
  /\ udp_attempts' = udp_attempts + 1
  /\ \/ toServer' = toServer \cup
          {[reading |-> recorded_data, attempt |-> udp_attempts + 1]}
     \/ toServer' = toServer
  /\ pc' = AfterSend
  /\ UNCHANGED <<recorded_data, udp_sent, led, msg_queue, recvmbox, toDevice,
                 served, duplicates, history, offered, resets>>

(* recvfrom removes the datagram it returns.  Slip: MSG_PEEK.              *)
ReceivedByPeek(mbox) == mbox
Received(mbox) == Tail(mbox)

(* recvfrom takes the oldest datagram the socket holds, whichever message  *)
(* it answers; only the text "ACK" ends the exchange.                      *)
ReceiveReply ==
  /\ pc = "recv"
  /\ recvmbox # <<>>
  /\ recvmbox' = Received(recvmbox)
  /\ \/ /\ Head(recvmbox).text = "ACK"
        /\ udp_sent' = TRUE
        /\ outcome' = [outcome EXCEPT ![recorded_data] = "acked"]
        /\ ackedBy' = [ackedBy EXCEPT ![recorded_data] = Head(recvmbox).to]
     \/ /\ Head(recvmbox).text # "ACK"
        /\ UNCHANGED <<udp_sent, outcome, ackedBy>>
  /\ pc' = "attempt"
  /\ UNCHANGED <<recorded_data, udp_attempts, led, msg_queue, network,
                 timeouts, offered, resets>>

(* SO_RCVTIMEO runs out while the socket holds nothing.  Slip: ack_buffer, *)
(* which may hold an earlier reply, is compared although nothing came.     *)
ReceiveTimesOutYetCompares ==
  /\ pc = "recv"
  /\ recvmbox = <<>>
  /\ timeouts' = timeouts + 1
  /\ pc' = "attempt"
  /\ udp_sent' = TRUE
  /\ outcome' = [outcome EXCEPT ![recorded_data] = "acked"]
  /\ UNCHANGED <<recorded_data, udp_attempts, led, msg_queue, recvmbox,
                 network, ackedBy, offered, resets>>

ReceiveTimesOut ==
  /\ pc = "recv"
  /\ recvmbox = <<>>
  /\ timeouts' = timeouts + 1
  /\ pc' = "attempt"
  /\ UNCHANGED <<recorded_data, udp_attempts, udp_sent, led, msg_queue,
                 recvmbox, network, outcome, ackedBy, offered, resets>>

(* The loop ends: acknowledged, or out of attempts.                        *)
LoopEnds ==
  /\ pc = "attempt"
  /\ ~KeepsSending
  /\ outcome' = IF udp_sent THEN outcome
                ELSE [outcome EXCEPT ![recorded_data] = "failed"]
  /\ pc' = "finish"
  /\ UNCHANGED <<recorded_data, udp_attempts, udp_sent, led, msg_queue,
                 recvmbox, network, ackedBy, timeouts, offered, resets>>

TurnLedOff ==
  /\ pc = "finish"
  /\ led' = "off"
  /\ pc' = "sleep"
  /\ UNCHANGED <<recorded_data, udp_attempts, udp_sent, msg_queue, recvmbox,
                 network, history, offered, resets>>

(* vTaskDelay of SEND_DATA_SECONDS ends.                                   *)
WakeUp ==
  /\ pc = "sleep"
  /\ pc' = "poll"
  /\ UNCHANGED <<recorded_data, udp_attempts, udp_sent, led, msg_queue,
                 recvmbox, network, history, offered, resets>>

SenderStep ==
  \/ CreateSocket \/ Dequeue \/ QueueIsEmpty \/ Connect \/ ConnectFails
  \/ SendDatagram \/ ReceiveReply \/ ReceiveTimesOut \/ LoopEnds
  \/ TurnLedOff \/ WakeUp
-----------------------------------------------------------------------------
(* The socket's receive side, the network and the server.                  *)

(* lwIP queues a reply for the socket, or drops it when there is no socket *)
(* yet or its mailbox is full.                                             *)
DeliverReply(m) ==
  /\ m \in toDevice
  /\ \/ toDevice' = toDevice \ {m} /\ UNCHANGED duplicates
     \/ /\ duplicates < MaxDuplicates
        /\ duplicates' = duplicates + 1
        /\ UNCHANGED toDevice
  /\ recvmbox' = IF pc # "socket" /\ Len(recvmbox) < RECVMBOX_SIZE
                 THEN Append(recvmbox, m) ELSE recvmbox
  /\ UNCHANGED <<task, led, msg_queue, toServer, served, history, offered,
                 resets>>

(* The server takes a datagram and answers it.                             *)
ServerAnswers(d) ==
  /\ d \in toServer
  /\ \/ toServer' = toServer \ {d} /\ UNCHANGED duplicates
     \/ /\ duplicates < MaxDuplicates
        /\ duplicates' = duplicates + 1
        /\ UNCHANGED toServer
  /\ served' = served \cup {d}
  /\ \E t \in ReplyTexts : toDevice' = toDevice \cup {[to |-> d, text |-> t]}
  /\ UNCHANGED <<task, led, msg_queue, recvmbox, history, offered, resets>>

LoseDatagram(d) ==
  /\ d \in toServer
  /\ toServer' = toServer \ {d}
  /\ UNCHANGED <<task, led, msg_queue, recvmbox, toDevice, served, duplicates,
                 history, offered, resets>>

LoseReply(m) ==
  /\ m \in toDevice
  /\ toDevice' = toDevice \ {m}
  /\ UNCHANGED <<task, led, msg_queue, recvmbox, toServer, served, duplicates,
                 history, offered, resets>>

NetworkStep ==
  \/ \E m \in toDevice : DeliverReply(m) \/ LoseReply(m)
  \/ \E d \in toServer : ServerAnswers(d) \/ LoseDatagram(d)
-----------------------------------------------------------------------------
(* The device restarts: RAM, the queue and the socket are gone, app_main   *)
(* has cleared the LED and started the task again.  What is on the wire    *)
(* and the server's state survive.                                         *)
Restart ==
  /\ resets < MaxResets
  /\ resets' = resets + 1
  /\ pc' = "socket"
  /\ recorded_data' = 0
  /\ udp_attempts' = 0
  /\ udp_sent' = FALSE
  /\ led' = "off"
  /\ msg_queue' = <<>>
  /\ recvmbox' = <<>>
  /\ UNCHANGED <<network, history, offered>>

(* The environment of the task: the sensor task puts a reading later than  *)
(* every earlier one into the queue when there is room.                    *)
Offer(r) ==
  /\ r > offered
  /\ Len(msg_queue) < QUEUE_LENGTH
  /\ offered' = r
  /\ msg_queue' = Append(msg_queue, r)
  /\ UNCHANGED <<task, led, recvmbox, network, history, resets>>

Next ==
  \/ SenderStep
  \/ NetworkStep
  \/ Restart
  \/ \E r \in Readings : Offer(r)

Spec == Init /\ [][Next]_vars

(* FreeRTOS keeps running the task, the only one pinned to CORE_1, and     *)
(* every call in it returns; nothing is assumed of the network.            *)
FairSpec == Spec /\ WF_vars(SenderStep)
-----------------------------------------------------------------------------
(* The types of the variables, part by part: the task works on a reading   *)
(* from its dequeueing to the end of the exchange, never makes more than   *)
(* UDP_MAX_ATTEMPTS, and neither buffer outgrows its size.                 *)
TaskTypeOK ==
  /\ pc \in {"socket", "poll", "connect", "attempt", "recv", "finish", "sleep"}
  /\ recorded_data \in 0..MaxReading
  /\ pc \in {"connect", "attempt", "recv", "finish"} => recorded_data # 0
  /\ udp_attempts \in 0..UDP_MAX_ATTEMPTS
  /\ pc = "recv" => udp_attempts > 0
  /\ udp_sent \in BOOLEAN
  /\ led \in {"on", "off"}

BufferTypeOK ==
  /\ msg_queue \in Seq(Readings)
  /\ Len(msg_queue) <= QUEUE_LENGTH
  /\ recvmbox \in Seq(Replies)
  /\ Len(recvmbox) <= RECVMBOX_SIZE

NetworkTypeOK ==
  /\ toServer \in SUBSET Datagrams
  /\ toDevice \in SUBSET Replies
  /\ served \in SUBSET Datagrams

HistoryTypeOK ==
  /\ outcome \in [Readings -> Verdicts \cup {"none"}]
  /\ ackedBy \in [Readings -> Datagrams \cup {NoDatagram}]
  /\ timeouts \in Nat
  /\ offered \in 0..MaxReading
  /\ resets \in 0..MaxResets
  /\ duplicates \in 0..MaxDuplicates

TypeOK == TaskTypeOK /\ BufferTypeOK /\ NetworkTypeOK /\ HistoryTypeOK

(* A reading is reported as sent only on the strength of a datagram the    *)
(* server took, and that datagram carried this reading or an earlier one:  *)
(* whatever is lost, delayed, repeated or left over from before a restart, *)
(* no acknowledgement is invented or comes from the future.                *)
AckIsBacked ==
  \A r \in Readings : outcome[r] = "acked" =>
     ackedBy[r] \in served /\ ackedBy[r].reading <= r

(* While the network duplicates nothing, one datagram acknowledges at most *)
(* one reading: the device cannot report more readings as sent than the    *)
(* server took datagrams.                                                  *)
AckUsedOnce ==
  duplicates = 0 =>
    \A r, s \in Readings :
      /\ outcome[r] = "acked" /\ outcome[s] = "acked"
      /\ ackedBy[r] = ackedBy[s]
      => r = s

(* The readings reported as sent that the server has not and cannot get,   *)
(* the datagrams and replies on their way, and whether the task waits.     *)
ReportedAndGone ==
  {r \in Readings : /\ outcome[r] = "acked"
                    /\ \A d \in toServer \cup served : d.reading # r}
Outstanding == Cardinality(toServer) + Cardinality(toDevice) + Len(recvmbox)
Awaited == IF pc = "recv" THEN 1 ELSE 0

(* A late reply acknowledges the next reading, whose own reply then is one *)
(* too many for the reading after it, so that one late reply can shift     *)
(* every acknowledgement that follows.  Yet it never multiplies: each wait *)
(* that timed out, each restart and each duplication is the cause of at    *)
(* most one reading reported as sent that the server never gets, or of one *)
(* message that may still cost one.                                        *)
SilentLossBound ==
  Cardinality(ReportedAndGone) + Outstanding
    <= timeouts + resets + duplicates + Awaited

(* As long as every reply arrived within UDP_TIMEOUT and the device never  *)
(* restarted, "Data sent successfully" is true: the server has a datagram  *)
(* with that very reading.                                                 *)
PromptNetworkIsHonest ==
  timeouts = 0 /\ resets = 0 /\ duplicates = 0 =>
    \A r \in Readings : outcome[r] = "acked" =>
       ackedBy[r] \in served /\ ackedBy[r].reading = r

(* The delivery path keeps the promises of the abstract specification:     *)
(* readings leave in order, one at a time, each with one final verdict.    *)
Busy == pc \in {"connect", "attempt", "recv"} /\ outcome[recorded_data] = "none"

Abstract == INSTANCE Courier WITH
  Capacity <- QUEUE_LENGTH,
  accepted <- offered,
  pending <- msg_queue,
  active <- IF Busy THEN recorded_data ELSE 0,
  verdict <- outcome

ImplementsCourier == Abstract!Spec

(* The LED never stays on: every exchange ends, answered or not.           *)
LedGoesOff == (led = "on") ~> (led = "off")

(* data_server.c:115 logs "ACK received. Data sent successfully.": a       *)
(* reading reported as sent has reached the server.                        *)
AckMeansReceived ==
  \A r \in Readings : outcome[r] = "acked" => \E d \in served : d.reading = r

(* README.md:60: a simple reply, "OK" for example, acknowledges the        *)
(* message it answers.                                                     *)
AnyReplyAcknowledges ==
  [][/\ pc = "recv" /\ pc' = "attempt"
     /\ recvmbox # <<>> /\ Head(recvmbox).to.reading = recorded_data
     => udp_sent']_vars
=============================================================================
