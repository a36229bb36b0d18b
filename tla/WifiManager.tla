----------------------------- MODULE WifiManager -----------------------------
(***************************************************************************)
(* main/wifi_manager.c and what it runs against: the event loop task that  *)
(* calls its handler, the Wi-Fi driver, the network interface with its     *)
(* DHCP client, and the main task that blocks in wifi_manager_start.       *)
(*                                                                         *)
(* The driver and lwIP post events from tasks of their own; the event loop *)
(* handles them one at a time, in order, this module's handler first and   *)
(* the default handler of the interface after it.  An event is therefore   *)
(* old when it is handled: the radio may have moved on.                    *)
(*                                                                         *)
(* Four kinds of event make a handler do something.  Others pass through   *)
(* the same queue: what else the driver reports, for the handler is        *)
(* registered for every WIFI_EVENT, and IP_EVENT_STA_LOST_IP.  They take   *)
(* places, are handed to the handlers and match no branch, so they are     *)
(* only counted.                                                           *)
(*                                                                         *)
(* esp_wifi_connect is taken to start an attempt whenever the radio is     *)
(* idle, and every attempt to end in a connection or in a disconnection    *)
(* event.                                                                  *)
(***************************************************************************)
EXTENDS Naturals, Sequences, FiniteSets, Functions

CONSTANTS
  WIFI_MAX_RETRY,   \* constants.c
  EVENT_QUEUE_SIZE, \* CONFIG_ESP_SYSTEM_EVENT_QUEUE_SIZE of sdkconfig
  OTHER_EVENTS      \* bound: events of no consequence that wait at one time

ASSUME WifiManagerAssumption == /\ WIFI_MAX_RETRY \in Nat
                                /\ EVENT_QUEUE_SIZE \in Nat \ {0}
                                /\ OTHER_EVENTS \in Nat

VARIABLES
  main,      \* where app_main is in wifi_manager_start
  wakeBits,  \* the bits xEventGroupWaitBits returns to it
  bits,      \* wifi_event_group
  wifi_connect_retries,
  events,    \* the queue of the default event loop, without the others
  handling,  \* the event whose default handler has still to run, or "none"
  radio,     \* the station, as the driver sees it
  dhcp,      \* the DHCP client: "down" while the interface is down
  losses,    \* history: disconnections handled since start or last address
  others,    \* how many other events wait in the same queue
  ip_lost_timer  \* timer_running of the interface

vars == <<main, wakeBits, bits, wifi_connect_retries, events, handling, radio,
          dhcp, losses, others, ip_lost_timer>>

Bits == {"CONNECTED", "FAIL"}
Events == {"STA_START", "STA_CONNECTED", "STA_DISCONNECTED", "GOT_IP"}

Init ==
  /\ main = "init"
  /\ wakeBits = {}
  /\ bits = {}
  /\ wifi_connect_retries = 0
  /\ events = <<>>
  /\ handling = "none"
  /\ radio = "off"
  /\ dhcp = "down"
  /\ losses = 0
  /\ others = 0
  /\ ip_lost_timer = FALSE
-----------------------------------------------------------------------------
(* wifi_manager_start, in the main task.                                   *)

HasRoom == Len(events) + others < EVENT_QUEUE_SIZE

(* The handlers are registered; esp_wifi_start makes the driver post       *)
(* STA_START.                                                              *)
Start ==
  /\ main = "init"
  /\ HasRoom
  /\ main' = "started"
  /\ radio' = "idle"
  /\ events' = Append(events, "STA_START")
  /\ UNCHANGED <<wakeBits, bits, wifi_connect_retries, handling, dhcp, losses,
                 others, ip_lost_timer>>

(* Either bit ends the wait (xWaitForAllBits is pdFALSE), and the bits stay *)
(* set (xClearOnExit is pdFALSE).  Slips: pdTRUE for one or the other.     *)
SatisfiedByAll(b) == b = Bits
Satisfied(b) == b # {}
LeftAfterClear(b) == {}
LeftAfter(b) == b

(* xEventGroupWaitBits: returns at once when a bit is set, else blocks.    *)
WaitBits ==
  /\ main = "started"
  /\ IF Satisfied(bits)
     THEN /\ main' = "woken"
          /\ wakeBits' = bits
          /\ bits' = LeftAfter(bits)
     ELSE main' = "waiting" /\ UNCHANGED <<wakeBits, bits>>
  /\ UNCHANGED <<wifi_connect_retries, events, handling, radio, dhcp, losses,
                 others, ip_lost_timer>>

(* ESP_OK or ESP_FAIL, from the bits the wait returned.                    *)
Return ==
  /\ main = "woken"
  /\ main' = IF "CONNECTED" \in wakeBits THEN "ok" ELSE "fail"
  /\ UNCHANGED <<wakeBits, bits, wifi_connect_retries, events, handling, radio,
                 dhcp, losses, others, ip_lost_timer>>

(* ESP_ERROR_CHECK in app_main aborts on ESP_FAIL, which restarts the      *)
(* chip; a panic or a power cycle may do so at any time.                   *)
Reboot ==
  /\ main # "init"
  /\ main' = "init"
  /\ wakeBits' = {}
  /\ bits' = {}
  /\ wifi_connect_retries' = 0
  /\ events' = <<>>
  /\ handling' = "none"
  /\ radio' = "off"
  /\ dhcp' = "down"
  /\ losses' = 0
  /\ others' = 0
  /\ ip_lost_timer' = FALSE
-----------------------------------------------------------------------------
(* The event loop task: wifi_event_handler, then the default handler.      *)

(* xEventGroupSetBits; a waiter gets the bits as they are at that moment.  *)
SetBit(b) ==
  LET set == bits \cup {b} IN
  IF main = "waiting" /\ Satisfied(set)
  THEN main' = "woken" /\ wakeBits' = set /\ bits' = LeftAfter(set)
  ELSE bits' = set /\ UNCHANGED <<main, wakeBits>>

NoBit == UNCHANGED <<main, wakeBits, bits>>

(* esp_wifi_connect has an effect only on an idle station.                 *)
Connecting == IF radio = "idle" THEN "connecting" ELSE radio

MayRetryOnceMore == wifi_connect_retries <= WIFI_MAX_RETRY
MayRetry == wifi_connect_retries < WIFI_MAX_RETRY

(* Slip: esp_wifi_connect is called before the retries are looked at.      *)
OnDisconnectedAlwaysConnects ==
  /\ losses' = losses + 1
  /\ radio' = Connecting
  /\ IF MayRetry
     THEN wifi_connect_retries' = wifi_connect_retries + 1 /\ NoBit
     ELSE SetBit("FAIL") /\ UNCHANGED wifi_connect_retries

(* Slip: the retry is counted, but not made.                               *)
OnDisconnectedOnlyCounts ==
  /\ losses' = losses + 1
  /\ IF MayRetry
     THEN wifi_connect_retries' = wifi_connect_retries + 1 /\ NoBit
     ELSE SetBit("FAIL") /\ UNCHANGED wifi_connect_retries
  /\ UNCHANGED radio

OnDisconnected ==
  /\ losses' = losses + 1
  /\ IF MayRetry
     THEN /\ radio' = Connecting
          /\ wifi_connect_retries' = wifi_connect_retries + 1
          /\ NoBit
     ELSE /\ SetBit("FAIL")
          /\ UNCHANGED <<radio, wifi_connect_retries>>

(* Slip: the retries are never given back.                                 *)
OnGotIpKeepsRetries ==
  /\ losses' = 0
  /\ SetBit("CONNECTED")
  /\ UNCHANGED <<wifi_connect_retries, radio>>

OnGotIp ==
  /\ wifi_connect_retries' = 0
  /\ losses' = 0
  /\ SetBit("CONNECTED")
  /\ UNCHANGED radio

OnStart ==
  /\ radio' = Connecting
  /\ NoBit
  /\ UNCHANGED <<wifi_connect_retries, losses>>

(* The loop takes the oldest event and calls wifi_event_handler with it;   *)
(* STA_CONNECTED reaches the handler and matches none of its branches.     *)
HandleEvent ==
  /\ handling = "none"
  /\ events # <<>>
  /\ handling' = Head(events)
  /\ events' = Tail(events)
  /\ \/ Head(events) = "STA_START" /\ OnStart
     \/ Head(events) = "STA_DISCONNECTED" /\ OnDisconnected
     \/ Head(events) = "GOT_IP" /\ OnGotIp
     \/ /\ Head(events) = "STA_CONNECTED"
        /\ NoBit
        /\ UNCHANGED <<wifi_connect_retries, losses, radio>>
  /\ UNCHANGED <<dhcp, others, ip_lost_timer>>

(* What the default handler of an event does with the interface: up, with  *)
(* DHCP started unless it runs already, or down, with DHCP stopped.  Slip: *)
(* the interface stays up.                                                 *)
InterfaceStaysUpAfter(e) ==
  IF e = "STA_CONNECTED" /\ dhcp = "down" THEN "asking" ELSE dhcp
InterfaceAfter(e) ==
  CASE e = "STA_CONNECTED" /\ dhcp = "down" -> "asking"
    [] e = "STA_DISCONNECTED" -> "down"
    [] OTHER -> dhcp

(* Taking the interface down, and starting DHCP, start the timer that will *)
(* report a lost address, unless it runs already.                          *)
StartsIpLostTimer(e) ==
  e = "STA_DISCONNECTED" \/ (e = "STA_CONNECTED" /\ dhcp = "down")

HandleByDefault ==
  /\ handling # "none"
  /\ dhcp' = InterfaceAfter(handling)
  /\ handling' = "none"
  /\ ip_lost_timer' = (ip_lost_timer \/ StartsIpLostTimer(handling))
  /\ UNCHANGED <<main, wakeBits, bits, wifi_connect_retries, events, radio,
                 losses, others>>
-----------------------------------------------------------------------------
(* The Wi-Fi driver, which waits for room in the queue to post an event.   *)

Associate ==
  /\ radio = "connecting"
  /\ HasRoom
  /\ radio' = "connected"
  /\ events' = Append(events, "STA_CONNECTED")
  /\ UNCHANGED <<main, wakeBits, bits, wifi_connect_retries, handling, dhcp,
                 losses, others, ip_lost_timer>>

(* An attempt fails, or the access point is lost.                          *)
Disconnect ==
  /\ radio \in {"connecting", "connected"}
  /\ HasRoom
  /\ radio' = "idle"
  /\ events' = Append(events, "STA_DISCONNECTED")
  /\ UNCHANGED <<main, wakeBits, bits, wifi_connect_retries, handling, dhcp,
                 losses, others, ip_lost_timer>>

(* The DHCP client, in lwIP's task: an answer arrives over the link, and   *)
(* is taken up later.  A later lease may bring another address; leases are *)
(* long, so the previous one has been handled by then.                     *)
LongBound == dhcp = "bound" /\ "GOT_IP" \notin Range(events)

AnswerArrives ==
  /\ radio = "connected"
  /\ dhcp \in {"asking", "expired"} \/ LongBound
  /\ dhcp' = "answered"
  /\ UNCHANGED <<main, wakeBits, bits, wifi_connect_retries, events, handling,
                 radio, losses, others, ip_lost_timer>>

(* The lease runs out or is refused: the address is gone, the client asks  *)
(* again, and the timer that will report the loss is started.              *)
LoseAddress ==
  /\ LongBound
  /\ dhcp' = "expired"
  /\ ip_lost_timer' = TRUE
  /\ UNCHANGED <<main, wakeBits, bits, wifi_connect_retries, events, handling,
                 radio, losses, others>>

(* It gets the same address again, which the interface still has on        *)
(* record: nothing is posted.                                              *)
SameAddress ==
  /\ radio = "connected"
  /\ dhcp = "expired"
  /\ dhcp' = "bound"
  /\ UNCHANGED <<main, wakeBits, bits, wifi_connect_retries, events, handling,
                 radio, losses, others, ip_lost_timer>>

(* What the client does once it has posted.  Slip: it posts again.         *)
AfterLeaseAgain == "answered"
AfterLease == "bound"

(* The event is posted without a wait: a full queue loses it.              *)
Lease ==
  /\ dhcp = "answered"
  /\ dhcp' = AfterLease
  /\ events' = IF HasRoom THEN Append(events, "GOT_IP") ELSE events
  /\ UNCHANGED <<main, wakeBits, bits, wifi_connect_retries, handling, radio,
                 losses, others, ip_lost_timer>>
-----------------------------------------------------------------------------
(* The other events of the queue.                                          *)

MayWait == others < OTHER_EVENTS
OnlyOthers == UNCHANGED <<main, wakeBits, bits, wifi_connect_retries, events,
                          handling, radio, dhcp, losses>>

(* The driver reports something else: a beacon missed, another channel.    *)
PostOther ==
  /\ radio # "off"
  /\ HasRoom
  /\ MayWait
  /\ others' = others + 1
  /\ OnlyOthers
  /\ UNCHANGED ip_lost_timer

(* The timer fires.  Without an address STA_LOST_IP is posted, and no wait *)
(* made for room; an answer may or may not have become the address yet.    *)
IpLost ==
  /\ ip_lost_timer
  /\ ip_lost_timer' = FALSE
  /\ \/ dhcp \in {"answered", "bound"} /\ UNCHANGED others
     \/ /\ dhcp # "bound"
        /\ MayWait
        /\ others' = IF HasRoom THEN others + 1 ELSE others
  /\ OnlyOthers

(* The loop takes another event between two of its own: no handler does    *)
(* anything with it.  Where it stood among them is left open.              *)
HandleOther ==
  /\ handling = "none"
  /\ others > 0
  /\ others' = others - 1
  /\ OnlyOthers
  /\ UNCHANGED ip_lost_timer
-----------------------------------------------------------------------------
MainStep == Start \/ WaitBits \/ Return
EventLoopStep == HandleEvent \/ HandleByDefault
DriverStep == Associate \/ Disconnect
DhcpStep == AnswerArrives \/ LoseAddress \/ SameAddress \/ Lease
OtherEventStep == PostOther \/ IpLost \/ HandleOther

Next == MainStep \/ EventLoopStep \/ DriverStep \/ DhcpStep \/ OtherEventStep
          \/ Reboot

Spec == Init /\ [][Next]_vars

(* The tasks run, an attempt to connect ends one way or the other, and the *)
(* DHCP client of a link that lasts gets an answer.  An event waits only   *)
(* for those before it, which are finitely many: those counted in others   *)
(* do not keep the loop from it.                                           *)
FairSpec ==
  /\ Spec
  /\ WF_vars(MainStep)
  /\ WF_vars(EventLoopStep)
  /\ WF_vars(radio = "connecting" /\ DriverStep)
  /\ WF_vars(AnswerArrives /\ dhcp = "asking")
  /\ WF_vars(Lease)

(* The same next to a DHCP server that may not answer.                     *)
FairSpecWithoutAnswer ==
  /\ Spec
  /\ WF_vars(MainStep)
  /\ WF_vars(EventLoopStep)
  /\ WF_vars(radio = "connecting" /\ DriverStep)
  /\ WF_vars(Lease)
-----------------------------------------------------------------------------
TypeOK ==
  /\ main \in {"init", "started", "waiting", "woken", "ok", "fail"}
  /\ wakeBits \in SUBSET Bits
  /\ bits \in SUBSET Bits
  /\ wifi_connect_retries \in 0..WIFI_MAX_RETRY
  /\ events \in Seq(Events)
  /\ handling \in Events \cup {"none"}
  /\ radio \in {"off", "idle", "connecting", "connected"}
  /\ dhcp \in {"down", "asking", "answered", "bound", "expired"}
  /\ losses \in 0..(WIFI_MAX_RETRY + 1)
  /\ others \in 0..OTHER_EVENTS
  /\ ip_lost_timer \in BOOLEAN

(* The events that make the handler call esp_wifi_connect or give up.      *)
Prompts == {"STA_START", "STA_DISCONNECTED"}
Prompting == {i \in 1..Len(events) : events[i] \in Prompts}
GivenUp == "FAIL" \in bits

(* A running station has exactly one thing that moves it on: an attempt or *)
(* a connection, or one event that will start an attempt, or it was given  *)
(* up for good.  Never two: esp_wifi_connect is never called on a busy     *)
(* station.  Never none: it is never forgotten.                            *)
OneDriver ==
  /\ radio = "off" => Prompting = {} /\ ~GivenUp
  /\ radio = "idle" => IF GivenUp THEN Prompting = {}
                       ELSE \E i \in 1..Len(events) : Prompting = {i}
  /\ radio \in {"connecting", "connected"} => Prompting = {} /\ ~GivenUp

(* The station is given up only after WIFI_MAX_RETRY + 1 disconnections    *)
(* with no address in between: an address gives the whole budget back.     *)
GivesUpLate ==
  [][~GivenUp /\ GivenUp' => losses' = WIFI_MAX_RETRY + 1]_vars

(* Once every event is handled, the interface is up exactly when the radio *)
(* is connected, however far behind the handlers were in between.          *)
Quiet == events = <<>> /\ handling = "none"

InterfaceFollowsRadio == Quiet => (dhcp # "down" <=> radio = "connected")

(* Once every event is handled, a station that has an address has          *)
(* WIFI_CONNECTED_BIT: no GOT_IP is lost.                                  *)
AddressIsReported == Quiet /\ dhcp = "bound" => "CONNECTED" \in bits

(* Of the events the handlers act on, never more than four wait, renewals  *)
(* of the lease included.  A queue with four places more than the other    *)
(* events take is never too full for the post that does not wait.          *)
QueueStaysShort == Len(events) + others <= 4 + OTHER_EVENTS

(* wifi_manager_start returns, however often the access point refuses the  *)
(* station or drops it, as long as a link that lasts gets a DHCP answer    *)
(* (FairSpec).                                                             *)
StartReturns == (main = "waiting") ~> (main \in {"woken", "ok", "fail", "init"})

(* "Blocks until connection is established or fails after a set number of  *)
(* retries" (wifi_manager.h:16): an established connection ends the wait.  *)
BlocksUntilConnected ==
  (main = "waiting" /\ radio = "connected")
    ~> (main # "waiting" \/ radio # "connected")

(* The station never idles for good unless it was given up.                *)
IdleStationIsDriven == (radio = "idle") ~> (radio # "idle" \/ GivenUp)
=============================================================================
