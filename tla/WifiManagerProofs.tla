--------------------------- MODULE WifiManagerProofs ---------------------------
(***************************************************************************)
(* Theorems about the Wi-Fi manager, for every number of retries and every *)
(* size of the event queue, with any number of other events in it.         *)
(***************************************************************************)
EXTENDS WifiManager, SequenceTheorems, TLAPS

(* What of TypeOK is inductive by itself: everything but the bound on      *)
(* losses, which needs to know that a station is given up once only.       *)
BasicTypes ==
  /\ main \in {"init", "started", "waiting", "woken", "ok", "fail"}
  /\ wakeBits \in SUBSET Bits
  /\ bits \in SUBSET Bits
  /\ wifi_connect_retries \in 0..WIFI_MAX_RETRY
  /\ events \in Seq(Events)
  /\ handling \in Events \cup {"none"}
  /\ radio \in {"off", "idle", "connecting", "connected"}
  /\ dhcp \in {"down", "asking", "answered", "bound", "expired"}

(* The radio is off until app_main has called esp_wifi_start.              *)
OffAtFirst == main = "init" => radio = "off"

(* A disconnection costs one retry each until the station is given up; an  *)
(* address still in the queue then may clear the count of losses.          *)
LossesAreCounted ==
  /\ ~GivenUp => losses = wifi_connect_retries
  /\ GivenUp => losses \in {0, WIFI_MAX_RETRY + 1}

DriverInv == BasicTypes /\ OffAtFirst /\ OneDriver /\ LossesAreCounted

LEMMA ZeroRetries == 0 \in 0..WIFI_MAX_RETRY /\ WIFI_MAX_RETRY \in Nat
  BY WifiManagerAssumption

-----------------------------------------------------------------------------
(* What posting and taking an event do to the prompting events.            *)

LEMMA PostPrompt ==
  ASSUME events \in Seq(Events), NEW e \in Events, events' = Append(events, e)
  PROVE  Prompting' = IF e \in Prompts THEN Prompting \cup {Len(events) + 1}
                                       ELSE Prompting
<1>1. /\ Len(events) \in Nat
      /\ Len(events') = Len(events) + 1
      /\ events'[Len(events) + 1] = e
      /\ \A i \in 1..Len(events) : events'[i] = events[i]
  OBVIOUS
<1>2. 1..Len(events') = 1..Len(events) \cup {Len(events) + 1}
  BY <1>1
<1>3. Len(events) + 1 \notin 1..Len(events)
  BY <1>1
<1>4. Prompting' = {i \in 1..Len(events') : events'[i] \in Prompts}
  BY DEF Prompting, Prompts
<1> QED
  BY <1>1, <1>2, <1>3, <1>4 DEF Prompting

LEMMA TakePrompt ==
  ASSUME events \in Seq(Events), events # <<>>, events' = Tail(events)
  PROVE  /\ Head(events) \in Events
         /\ Head(events) \in Prompts <=> 1 \in Prompting
         /\ \A i \in Nat : i \in Prompting' <=> i + 1 \in Prompting /\ i # 0
         /\ Prompting \subseteq Nat \ {0} /\ Prompting' \subseteq Nat \ {0}
<1>1. /\ Len(events) \in Nat \ {0}
      /\ Len(events') = Len(events) - 1
      /\ Head(events) = events[1]
      /\ Head(events) \in Events
      /\ \A i \in 1..Len(events') : events'[i] = events[i + 1]
  OBVIOUS
<1>2. Prompting' = {i \in 1..Len(events') : events'[i] \in Prompts}
  BY DEF Prompting, Prompts
<1>3. Head(events) \in Prompts <=> 1 \in Prompting
  BY <1>1 DEF Prompting
<1>4. \A i \in Nat : i \in Prompting' <=> i + 1 \in Prompting /\ i # 0
  BY <1>1, <1>2 DEF Prompting
<1>5. Prompting \subseteq Nat \ {0} /\ Prompting' \subseteq Nat \ {0}
  BY <1>1, <1>2 DEF Prompting
<1> QED
  BY <1>1, <1>3, <1>4, <1>5
-----------------------------------------------------------------------------
(* The events that no handler acts on touch nothing but their own count    *)
(* and the timer.                                                          *)
LEMMA OthersAlone ==
  OtherEventStep =>
    UNCHANGED <<main, wakeBits, bits, wifi_connect_retries, events, handling,
                radio, dhcp, losses>>
  BY DEF OtherEventStep, PostOther, IpLost, HandleOther, OnlyOthers

LEMMA BasicTypesNext ==
  ASSUME BasicTypes, [Next]_vars PROVE BasicTypes'
<1> USE ZeroRetries DEF BasicTypes
<1>1. CASE MainStep
  <2>1. CASE Start
    BY <2>1 DEF Start, Events
  <2>2. CASE WaitBits
    BY <2>2 DEF WaitBits, LeftAfter
  <2>3. CASE Return
    BY <2>3 DEF Return
  <2> QED
    BY <1>1, <2>1, <2>2, <2>3 DEF MainStep
<1>2. CASE HandleEvent
  <2>1. /\ Head(events) \in Events
        /\ events' \in Seq(Events)
    BY <1>2 DEF HandleEvent
  <2>2. ASSUME NEW b \in Bits, SetBit(b)
        PROVE  /\ main' \in {main, "woken"}
               /\ wakeBits' \in SUBSET Bits
               /\ bits' \in SUBSET Bits
    BY <2>2 DEF SetBit, LeftAfter
  <2>3. CASE OnStart
    BY <1>2, <2>1, <2>3 DEF HandleEvent, OnStart, NoBit, Connecting
  <2>4. CASE OnDisconnected
    <3>1. CASE MayRetry
      BY <1>2, <2>1, <2>4, <3>1
      DEF HandleEvent, OnDisconnected, NoBit, Connecting, MayRetry
    <3>2. CASE ~MayRetry
      <4>1. SetBit("FAIL") /\ UNCHANGED <<radio, wifi_connect_retries, dhcp>>
        BY <1>2, <2>4, <3>2 DEF HandleEvent, OnDisconnected
      <4>2. "FAIL" \in Bits /\ handling' = Head(events)
        BY <1>2 DEF HandleEvent, Bits
      <4> QED
        BY <2>1, <2>2, <4>1, <4>2
    <3> QED
      BY <3>1, <3>2
  <2>5. CASE OnGotIp
    BY <1>2, <2>1, <2>2, <2>5 DEF HandleEvent, OnGotIp, Bits
  <2>6. CASE NoBit /\ UNCHANGED <<wifi_connect_retries, losses, radio>>
    BY <1>2, <2>1, <2>6 DEF HandleEvent, NoBit
  <2> QED
    BY <1>2, <2>3, <2>4, <2>5, <2>6 DEF HandleEvent
<1>3. CASE HandleByDefault
  BY <1>3 DEF HandleByDefault, InterfaceAfter
<1>4. CASE DriverStep
  BY <1>4 DEF DriverStep, Associate, Disconnect, Events
<1>5. CASE DhcpStep
  BY <1>5 DEF DhcpStep, AnswerArrives, LoseAddress, SameAddress, LongBound, Lease,
              AfterLease, Events
<1>6. CASE OtherEventStep
  BY <1>6, OthersAlone
<1>7. CASE Reboot
  BY <1>7 DEF Reboot, Bits
<1>8. CASE UNCHANGED vars
  BY <1>8 DEF vars
<1> QED
  BY <1>1, <1>2, <1>3, <1>4, <1>5, <1>6, <1>7, <1>8 DEF Next, EventLoopStep

LEMMA OffAtFirstNext ==
  ASSUME OffAtFirst, [Next]_vars PROVE OffAtFirst'
  BY OthersAlone
     DEF OffAtFirst, Next, vars, MainStep, Start, WaitBits, Return,
         EventLoopStep, HandleEvent, HandleByDefault, OnStart, OnDisconnected,
         OnGotIp, SetBit, NoBit, Connecting, DriverStep, Associate, Disconnect,
         DhcpStep, AnswerArrives, LoseAddress, SameAddress, Lease, Reboot

(* What setting a bit does to GivenUp.                                     *)
LEMMA SetBitGivesUp ==
  ASSUME NEW b \in Bits, SetBit(b) PROVE GivenUp' <=> GivenUp \/ b = "FAIL"
  BY DEF SetBit, LeftAfter, GivenUp

(* One event is handled: an event that prompts finds the station idle and  *)
(* not given up, and is the last of its kind.                              *)
LEMMA HandleNext ==
  ASSUME DriverInv, HandleEvent PROVE OneDriver' /\ LossesAreCounted'
<1> USE ZeroRetries
<1>1. /\ events \in Seq(Events)
      /\ events # <<>>
      /\ events' = Tail(events)
  BY DEF DriverInv, BasicTypes, HandleEvent
<1>2. /\ Head(events) \in Prompts <=> 1 \in Prompting
      /\ \A i \in Nat : i \in Prompting' <=> i + 1 \in Prompting /\ i # 0
      /\ Prompting \subseteq Nat \ {0} /\ Prompting' \subseteq Nat \ {0}
  BY <1>1, TakePrompt
<1>3. wifi_connect_retries \in 0..WIFI_MAX_RETRY
  BY DEF DriverInv, BasicTypes
<1>4. CASE Head(events) \in Prompts
  <2>1. /\ radio = "idle"
        /\ ~GivenUp
        /\ Prompting = {1}
        /\ losses = wifi_connect_retries
    BY <1>2, <1>4 DEF DriverInv, BasicTypes, OneDriver, LossesAreCounted
  <2>2. Prompting' = {}
    BY <1>2, <2>1
  <2>3. CASE OnStart
    <3>1. ~GivenUp' /\ radio' = "connecting"
      BY <2>1, <2>3 DEF OnStart, NoBit, GivenUp, Connecting
    <3> QED
      BY <2>1, <2>2, <2>3, <3>1 DEF OnStart, OneDriver, LossesAreCounted
  <2>4. CASE OnDisconnected /\ MayRetry
    <3>1. ~GivenUp' /\ radio' = "connecting"
      BY <2>1, <2>4 DEF OnDisconnected, NoBit, GivenUp, Connecting
    <3>2. losses' = losses + 1 /\ wifi_connect_retries' = wifi_connect_retries + 1
      BY <2>4 DEF OnDisconnected
    <3> QED
      BY <2>1, <2>2, <3>1, <3>2 DEF OneDriver, LossesAreCounted
  <2>5. CASE OnDisconnected /\ ~MayRetry
    <3>1. GivenUp' /\ radio' = "idle"
      BY <2>1, <2>5, SetBitGivesUp DEF OnDisconnected, Bits
    <3>2. losses' = WIFI_MAX_RETRY + 1
      BY <1>3, <2>1, <2>5 DEF OnDisconnected, MayRetry
    <3> QED
      BY <2>2, <3>1, <3>2 DEF OneDriver, LossesAreCounted
  <2> QED
    BY <1>4, <2>3, <2>4, <2>5 DEF HandleEvent, Prompts
<1>5. CASE Head(events) \notin Prompts
  <2>1. GivenUp' = GivenUp /\ radio' = radio
    BY <1>5, SetBitGivesUp
    DEF HandleEvent, OnGotIp, NoBit, GivenUp, Bits, Prompts
  <2>2. OneDriver'
    <3>1. CASE Prompting = {}
      <4>1. Prompting' = {}
        BY <1>2, <3>1
      <4> QED
        BY <2>1, <3>1, <4>1 DEF DriverInv, OneDriver
    <3>2. CASE Prompting # {}
      <4>1. /\ radio = "idle" /\ ~GivenUp
            /\ \E i \in 1..Len(events) : Prompting = {i}
        BY <3>2 DEF DriverInv, BasicTypes, OneDriver
      <4>2. PICK i \in 1..Len(events) : Prompting = {i}
        BY <4>1
      <4>3. /\ i \in Nat /\ i # 1 /\ i # 0 /\ i - 1 \in Nat
            /\ Len(events') = Len(events) - 1 /\ Len(events) \in Nat
        BY <1>1, <1>2, <1>5, <4>2
      <4>4. i - 1 \in 1..Len(events')
        BY <1>1, <4>2, <4>3
      <4>5. Prompting' = {i - 1}
        <5>1. ASSUME NEW j \in Nat PROVE j \in Prompting' <=> j = i - 1
          <6>1. j \in Prompting' <=> j + 1 \in Prompting /\ j # 0
            BY <1>2
          <6>2. j + 1 \in Prompting <=> j + 1 = i
            BY <4>2
          <6> QED
            BY <4>3, <6>1, <6>2
        <5> QED
          BY <1>2, <4>3, <5>1
      <4> QED
        BY <2>1, <4>1, <4>4, <4>5 DEF OneDriver
    <3> QED
      BY <3>1, <3>2
  <2>3. LossesAreCounted'
    BY <1>5, <2>1 DEF HandleEvent, OnGotIp, DriverInv, LossesAreCounted, Prompts
  <2> QED
    BY <2>2, <2>3
<1> QED
  BY <1>4, <1>5

LEMMA DriverInit == Init => DriverInv
  BY ZeroRetries
  DEF Init, DriverInv, BasicTypes, OffAtFirst, OneDriver, Prompting, GivenUp,
      LossesAreCounted

LEMMA DriverNext == ASSUME DriverInv, [Next]_vars PROVE DriverInv'
<1>1. BasicTypes' /\ OffAtFirst'
  BY BasicTypesNext, OffAtFirstNext DEF DriverInv
<1>2. events \in Seq(Events) /\ Len(events) \in Nat
  BY DEF DriverInv, BasicTypes
<1>3. CASE HandleEvent
  BY <1>1, <1>3, HandleNext DEF DriverInv
<1>4. CASE Start
  <2>1. Prompting' = Prompting \cup {Len(events) + 1}
    BY <1>2, <1>4, PostPrompt DEF Start, Events, Prompts
  <2>2. radio = "off" /\ Prompting = {} /\ ~GivenUp
    BY <1>4 DEF Start, DriverInv, OffAtFirst, OneDriver
  <2>3. Len(events) + 1 \in 1..Len(events') /\ radio' = "idle" /\ ~GivenUp'
    BY <1>2, <1>4, <2>2 DEF Start, GivenUp
  <2>4. OneDriver'
    BY <2>1, <2>2, <2>3 DEF OneDriver
  <2> QED
    BY <1>1, <1>4, <2>2, <2>4
    DEF Start, DriverInv, LossesAreCounted, GivenUp
<1>5. CASE Disconnect
  <2>1. Prompting' = Prompting \cup {Len(events) + 1}
    BY <1>2, <1>5, PostPrompt DEF Disconnect, Events, Prompts
  <2>2. Prompting = {} /\ ~GivenUp
    BY <1>5 DEF Disconnect, DriverInv, OneDriver
  <2>3. Len(events) + 1 \in 1..Len(events') /\ radio' = "idle" /\ ~GivenUp'
    BY <1>2, <1>5, <2>2 DEF Disconnect, GivenUp
  <2>4. OneDriver'
    BY <2>1, <2>2, <2>3 DEF OneDriver
  <2> QED
    BY <1>1, <1>5, <2>2, <2>4
    DEF Disconnect, DriverInv, LossesAreCounted, GivenUp
<1>6. CASE Associate
  <2>1. Prompting' = Prompting
    BY <1>2, <1>6, PostPrompt DEF Associate, Events, Prompts
  <2> QED
    BY <1>1, <1>6, <2>1
    DEF Associate, DriverInv, OneDriver, LossesAreCounted, GivenUp
<1>7. CASE Lease
  <2>1. CASE events' = Append(events, "GOT_IP")
    <3>1. /\ Prompting' = Prompting
          /\ \A i \in 1..Len(events) : i \in 1..Len(events')
      BY <1>2, <2>1, PostPrompt DEF Events, Prompts
    <3> QED
      BY <1>1, <1>7, <3>1
      DEF Lease, DriverInv, OneDriver, LossesAreCounted, GivenUp
  <2>2. CASE events' = events
    BY <1>1, <1>7, <2>2
    DEF Lease, DriverInv, OneDriver, Prompting, LossesAreCounted, GivenUp
  <2> QED
    BY <1>7, <2>1, <2>2 DEF Lease
<1>8. CASE WaitBits
  BY <1>1, <1>8
  DEF WaitBits, LeftAfter, DriverInv, OneDriver, Prompting, LossesAreCounted,
      GivenUp
<1>9. CASE Reboot
  BY <1>1, <1>9
  DEF Reboot, DriverInv, OneDriver, Prompting, LossesAreCounted, GivenUp
<1>10. CASE UNCHANGED <<bits, wifi_connect_retries, events, radio, losses>>
  BY <1>1, <1>10
  DEF DriverInv, OneDriver, Prompting, LossesAreCounted, GivenUp
<1> QED
  BY <1>3, <1>4, <1>5, <1>6, <1>7, <1>8, <1>9, <1>10, OthersAlone
  DEF Next, vars, MainStep, Return, EventLoopStep, HandleByDefault,
      DriverStep, DhcpStep, AnswerArrives, LoseAddress, SameAddress

LEMMA DriverInvCorrect == Spec => []DriverInv
  BY DriverInit, DriverNext, PTL DEF Spec

OtherTypes == others \in 0..OTHER_EVENTS /\ ip_lost_timer \in BOOLEAN

LEMMA OtherTypesCorrect == Spec => []OtherTypes
<1> USE WifiManagerAssumption
<1>1. Init => OtherTypes
  <2>1. Init => others \in 0..OTHER_EVENTS
    BY DEF Init
  <2>2. Init => ip_lost_timer \in BOOLEAN
    BY Zenon DEF Init
  <2> QED
    BY <2>1, <2>2, Zenon DEF OtherTypes
<1>2. ASSUME OtherTypes, [Next]_vars PROVE OtherTypes'
  <2>1. CASE OtherEventStep
    <3>1. ASSUME NEW n \in 0..OTHER_EVENTS
          PROVE  /\ n < OTHER_EVENTS => n + 1 \in 0..OTHER_EVENTS
                 /\ n > 0 => n - 1 \in 0..OTHER_EVENTS
      OBVIOUS
    <3> QED
      BY <1>2, <2>1, <3>1, Zenon
      DEF OtherTypes, OtherEventStep, PostOther, IpLost, HandleOther, MayWait
  <2>2. CASE HandleByDefault
    BY <1>2, <2>2, Zenon DEF OtherTypes, HandleByDefault
  <2>3. CASE LoseAddress
    BY <1>2, <2>3, Zenon DEF OtherTypes, LoseAddress
  <2>4. CASE Reboot
    <3>1. 0 \in 0..OTHER_EVENTS
      OBVIOUS
    <3> QED
      BY <2>4, <3>1, Zenon DEF OtherTypes, Reboot
  <2>5. CASE UNCHANGED <<others, ip_lost_timer>>
    BY <1>2, <2>5, Zenon DEF OtherTypes
  <2> QED
    BY <1>2, <2>1, <2>2, <2>3, <2>4, <2>5
    DEF Next, vars, MainStep, Start, WaitBits, Return, EventLoopStep, HandleEvent,
        DriverStep, Associate, Disconnect, DhcpStep, AnswerArrives, SameAddress,
        Lease
<1> QED
  BY <1>1, <1>2, PTL DEF Spec
-----------------------------------------------------------------------------
(* The variables keep their types; wifi_connect_retries never passes       *)
(* WIFI_MAX_RETRY, and never more than one disconnection beyond it is      *)
(* handled (wifi_manager.c:29).                                            *)
THEOREM TypeCorrect == Spec => []TypeOK
<1>1. DriverInv /\ OtherTypes => TypeOK
  BY ZeroRetries DEF DriverInv, BasicTypes, LossesAreCounted, OtherTypes, TypeOK
<1> QED
  BY <1>1, DriverInvCorrect, OtherTypesCorrect, PTL

(* The handler never calls esp_wifi_connect on a busy station, and never   *)
(* leaves an idle one alone unless it gave it up.                          *)
THEOREM StationHasOneDriver == Spec => []OneDriver
<1>1. DriverInv => OneDriver
  BY DEF DriverInv
<1> QED
  BY <1>1, DriverInvCorrect, PTL

(* WIFI_FAIL_BIT is set only when WIFI_MAX_RETRY + 1 disconnections have   *)
(* been handled since the start or the last address.                       *)
THEOREM StationIsGivenUpLate == Spec => GivesUpLate
<1>1. ASSUME DriverInv, [Next]_vars, ~GivenUp, GivenUp'
      PROVE  losses' = WIFI_MAX_RETRY + 1
  <2> USE ZeroRetries
  <2>1. HandleEvent /\ OnDisconnected /\ ~MayRetry
    BY <1>1, OthersAlone
    DEF Next, vars, GivenUp, MainStep, Start, WaitBits, LeftAfter, Return,
        EventLoopStep, HandleEvent, HandleByDefault, OnStart, OnGotIp, NoBit,
        OnDisconnected, SetBit, DriverStep, Associate, Disconnect, DhcpStep,
        AnswerArrives, LoseAddress, SameAddress, Lease, Reboot
  <2>2. /\ losses = wifi_connect_retries
        /\ wifi_connect_retries \in 0..WIFI_MAX_RETRY
    BY <1>1 DEF DriverInv, BasicTypes, LossesAreCounted
  <2> QED
    BY <2>1, <2>2 DEF OnDisconnected, MayRetry
<1>2. DriverInv /\ [Next]_vars
        => [~GivenUp /\ GivenUp' => losses' = WIFI_MAX_RETRY + 1]_vars
  BY <1>1
<1> QED
  BY <1>2, DriverInvCorrect, PTL DEF Spec, GivesUpLate
-----------------------------------------------------------------------------
(* The interface, the address and the queue: what the events still to be   *)
(* handled say of the radio and of DHCP.                                   *)

LinkEvents == {"STA_CONNECTED", "STA_DISCONNECTED"}
Waits(e) == \E i \in 1..Len(events) : events[i] = e
NoLinkAfter(i) == \A j \in 1..Len(events) : i < j => events[j] \notin LinkEvents

(* The last event about the link, handled or not, tells where the radio    *)
(* is; when none is left, the interface does.                              *)
LinkInv ==
  /\ \A i \in 1..Len(events) :
        events[i] \in LinkEvents /\ NoLinkAfter(i)
          => (events[i] = "STA_CONNECTED" <=> radio = "connected")
  /\ NoLinkAfter(0) =>
        IF handling \in LinkEvents
        THEN handling = "STA_CONNECTED" <=> radio = "connected"
        ELSE dhcp # "down" <=> radio = "connected"

(* What may wait in the queue beside what: an attempt begins only when the *)
(* connection before it has been handled, so there is one STA_CONNECTED,   *)
(* and the interface is still up from before only until the disconnection  *)
(* in hand has brought it down.                                            *)
ShapeInv ==
  /\ radio = "off" => events = <<>> /\ handling = "none" /\ dhcp = "down"
  /\ Waits("STA_START") => Len(events) = 1 /\ handling = "none" /\ dhcp = "down"
  /\ \A i, j \in 1..Len(events) :
        events[i] = "STA_CONNECTED" /\ events[j] \in Prompts => i < j
  /\ \A i, j \in 1..Len(events) :
        events[i] = "STA_CONNECTED" /\ events[j] = "STA_CONNECTED" => i = j
  /\ handling = "STA_CONNECTED" => ~Waits("STA_CONNECTED") /\ dhcp = "down"
  /\ radio = "connecting" =>
        /\ handling # "STA_CONNECTED" /\ ~Waits("STA_CONNECTED")
        /\ dhcp = "down" \/ handling = "STA_DISCONNECTED"
  /\ Waits("STA_CONNECTED") /\ dhcp # "down" => handling = "STA_DISCONNECTED"

GotIpsAfter(i) == {j \in 1..Len(events) : i < j /\ events[j] = "GOT_IP"}
AtMostOne(S) == \A j, k \in S : j = k
AtMostTwo(S) == \A j, k, l \in S : j = k \/ k = l \/ j = l
Renewing == dhcp \in {"asking", "answered", "expired"}

(* Each connection leaves at most one GOT_IP in the queue, and one that    *)
(* begins finds at most one of the connection before it.                   *)
GotIpInv ==
  /\ AtMostTwo(GotIpsAfter(0))
  /\ Renewing => AtMostOne(GotIpsAfter(0))
  /\ handling = "STA_CONNECTED" => AtMostOne(GotIpsAfter(0))
  /\ \A i \in 1..Len(events) : events[i] = "STA_CONNECTED" =>
        /\ AtMostOne(GotIpsAfter(i))
        /\ Renewing => GotIpsAfter(i) = {}

LEMMA Posting ==
  ASSUME events \in Seq(Events), NEW e, events' = Append(events, e)
  PROVE  /\ Len(events) \in Nat /\ Len(events') = Len(events) + 1
         /\ events'[Len(events) + 1] = e
         /\ \A i \in 1..Len(events) : i \in 1..Len(events') /\ events'[i] = events[i]
         /\ \A i \in 1..Len(events') : i \in Nat /\
               (i \in 1..Len(events) \/ i = Len(events) + 1)
  OBVIOUS

LEMMA Taking ==
  ASSUME events \in Seq(Events), events # <<>>, events' = Tail(events)
  PROVE  /\ Len(events) \in Nat /\ Len(events') = Len(events) - 1
         /\ 1 \in 1..Len(events) /\ events[1] = Head(events)
         /\ Head(events) \in Events
         /\ \A i \in 1..Len(events') : /\ i \in Nat /\ i > 0
                                       /\ i + 1 \in 1..Len(events)
                                       /\ events'[i] = events[i + 1]
  OBVIOUS

LEMMA OneEarlier ==
  ASSUME NEW n \in Nat, NEW m, m = n - 1, NEW i \in Nat, NEW j \in 1..n, i + 1 < j
  PROVE  j - 1 \in 1..m /\ i < j - 1 /\ (j - 1) + 1 = j
  OBVIOUS

(* What handling an event does to the radio.                               *)
LEMMA HandledRadio ==
  ASSUME HandleEvent
  PROVE  /\ radio' = radio \/ (radio = "idle" /\ radio' = "connecting"
                               /\ Head(events) \in Prompts)
         /\ dhcp' = dhcp /\ handling' = Head(events) /\ handling = "none"
         /\ events' = Tail(events) /\ events # <<>>
  BY DEF HandleEvent, OnStart, OnDisconnected, OnGotIp, Connecting, Prompts

LEMMA LinkNext ==
  ASSUME BasicTypes, OffAtFirst, LinkInv, [Next]_vars PROVE LinkInv'
<1> USE DEF LinkInv, NoLinkAfter, LinkEvents
<1>1. events \in Seq(Events) /\ Len(events) \in Nat
  BY DEF BasicTypes
<1>2. CASE HandleEvent
  <2>1. /\ radio' = "connected" <=> radio = "connected"
        /\ dhcp' = dhcp /\ handling' = events[1] /\ handling = "none"
        /\ 1 \in 1..Len(events)
    BY <1>1, <1>2, HandledRadio, Taking
  <2>2. /\ Len(events') = Len(events) - 1
        /\ \A i \in 1..Len(events') : /\ i \in Nat /\ i > 0
                                      /\ i + 1 \in 1..Len(events)
                                      /\ events'[i] = events[i + 1]
    BY <1>1, <1>2, HandledRadio, Taking
  <2>3. ASSUME NEW i \in 1..Len(events'), NoLinkAfter(i)' PROVE NoLinkAfter(i + 1)
    <3> SUFFICES ASSUME NEW j \in 1..Len(events), i + 1 < j
                 PROVE  events[j] \notin LinkEvents
      OBVIOUS
    <3>1. j - 1 \in 1..Len(events') /\ i < j - 1 /\ (j - 1) + 1 = j
      <4>1. i \in Nat
        BY <2>2
      <4> QED
        BY ONLY <4>1, <1>1, <2>2, OneEarlier, i + 1 < j, j \in 1..Len(events)
    <3>2. events'[j - 1] \notin LinkEvents /\ events'[j - 1] = events[j]
      <4> DEFINE k == j - 1
      <4>1. k \in 1..Len(events') /\ i < k /\ k + 1 = j
        BY <3>1
      <4> HIDE DEF k
      <4>2. events'[k] \notin LinkEvents /\ events'[k] = events[j]
        BY <2>2, <2>3, <4>1
      <4> QED
        BY <4>2 DEF k
    <3> QED
      BY <3>2
  <2>4. ASSUME NoLinkAfter(0)' PROVE NoLinkAfter(1)
    <3> SUFFICES ASSUME NEW j \in 1..Len(events), 1 < j
                 PROVE  events[j] \notin LinkEvents
      OBVIOUS
    <3>1. j - 1 \in 1..Len(events') /\ 0 < j - 1 /\ (j - 1) + 1 = j
      <4>1. 0 \in Nat /\ 0 + 1 < j
        OBVIOUS
      <4> QED
        BY ONLY <4>1, <1>1, <2>2, OneEarlier, j \in 1..Len(events)
    <3>2. events'[j - 1] \notin LinkEvents /\ events'[j - 1] = events[j]
      <4> DEFINE k == j - 1
      <4>1. k \in 1..Len(events') /\ 0 < k /\ k + 1 = j
        BY <3>1
      <4> HIDE DEF k
      <4>2. events'[k] \notin LinkEvents /\ events'[k] = events[j]
        BY <2>2, <2>4, <4>1
      <4> QED
        BY <4>2 DEF k
    <3> QED
      BY <3>2
  <2>5. ASSUME NEW i \in 1..Len(events'), events'[i] \in LinkEvents, NoLinkAfter(i)'
        PROVE  events'[i] = "STA_CONNECTED" <=> radio' = "connected"
    BY <2>1, <2>2, <2>3, <2>5
  <2>6. ASSUME NoLinkAfter(0)'
        PROVE  IF handling' \in LinkEvents
               THEN handling' = "STA_CONNECTED" <=> radio' = "connected"
               ELSE dhcp' # "down" <=> radio' = "connected"
    <3>1. CASE events[1] \in LinkEvents
      BY <2>1, <2>4, <2>6, <3>1
    <3>2. CASE events[1] \notin LinkEvents
      <4>1. NoLinkAfter(0)
        <5> SUFFICES ASSUME NEW j \in 1..Len(events) PROVE events[j] \notin LinkEvents
          OBVIOUS
        <5>1. j = 1 \/ 1 < j
          BY <1>1
        <5> QED
          BY <2>4, <2>6, <3>2, <5>1
      <4> QED
        BY <2>1, <3>2, <4>1
    <3> QED
      BY <3>1, <3>2
  <2> QED
    BY <2>5, <2>6
<1>3. ASSUME NEW e \in Events, events' = Append(events, e), handling' = handling,
             \/ e \in LinkEvents /\ (e = "STA_CONNECTED" <=> radio' = "connected")
             \/ /\ e \notin LinkEvents
                /\ radio' = "connected" <=> radio = "connected"
                /\ dhcp' # "down" <=> dhcp # "down"
      PROVE  LinkInv'
  <2> DEFINE n == Len(events)
  <2>1. /\ n \in Nat /\ Len(events') = n + 1 /\ events'[n + 1] = e
        /\ \A i \in 1..n : i \in 1..Len(events') /\ events'[i] = events[i]
        /\ \A i \in 1..Len(events') : i \in Nat /\ (i \in 1..n \/ i = n + 1)
        /\ n + 1 \in 1..Len(events')
    BY <1>1, <1>3, Posting
  <2>2. \A i \in 0..n : i < n + 1
    BY <2>1
  <2>3. \A i \in 1..n : i \in 0..n
    BY <2>1
  <2> HIDE DEF n
  <2>4. CASE e \in LinkEvents
    BY <1>3, <2>1, <2>2, <2>3, <2>4
  <2>5. CASE e \notin LinkEvents
    <3>1. \A i \in 0..n : NoLinkAfter(i)' => NoLinkAfter(i)
      BY <2>1 DEF n
    <3> QED
      BY <1>3, <2>1, <2>3, <2>5, <3>1 DEF n
  <2> QED
    BY <2>4, <2>5
<1>4. CASE HandleByDefault
  BY <1>4 DEF HandleByDefault, InterfaceAfter
<1>5. CASE AnswerArrives \/ LoseAddress \/ SameAddress
  BY <1>5 DEF AnswerArrives, LoseAddress, SameAddress, LongBound
<1>6. CASE Start \/ Associate \/ Disconnect \/ Lease
  <2>1. CASE Start
    BY <1>3, <2>1 DEF Start, Events, OffAtFirst
  <2>2. CASE Associate
    BY <1>3, <2>2 DEF Associate, Events
  <2>3. CASE Disconnect
    BY <1>3, <2>3 DEF Disconnect, Events
  <2>4. CASE Lease
    BY <1>3, <2>4 DEF Lease, AfterLease, Events
  <2> QED
    BY <1>6, <2>1, <2>2, <2>3, <2>4
<1>7. CASE Reboot
  BY <1>7 DEF Reboot
<1>8. CASE UNCHANGED <<events, handling, radio, dhcp>>
  BY <1>8
<1> QED
  BY <1>2, <1>4, <1>5, <1>6, <1>7, <1>8, OthersAlone
  DEF Next, vars, MainStep, WaitBits, Return, EventLoopStep, DriverStep, DhcpStep

LEMMA LinkCorrect == Spec => []LinkInv
<1>1. Init => LinkInv
  BY DEF Init, LinkInv, NoLinkAfter, LinkEvents
<1>2. DriverInv => BasicTypes /\ OffAtFirst
  BY DEF DriverInv
<1> QED
  BY <1>1, <1>2, LinkNext, DriverInvCorrect, PTL DEF Spec

(* However far behind the handlers were: once every event is handled, the  *)
(* default handlers have brought the interface to where the radio is       *)
(* (wifi_manager.c:27 reconnects before they run).                         *)
THEOREM InterfaceCatchesUp == Spec => []InterfaceFollowsRadio
<1>1. LinkInv => InterfaceFollowsRadio
  BY DEF LinkInv, NoLinkAfter, LinkEvents, InterfaceFollowsRadio, Quiet
<1> QED
  BY <1>1, LinkCorrect, PTL
-----------------------------------------------------------------------------
LEMMA Shifted ==
  \A i, j \in Nat : (i + 1 < j + 1 <=> i < j) /\ (i + 1 = j + 1 <=> i = j)
  OBVIOUS

LEMMA ShapeNext ==
  ASSUME BasicTypes, OffAtFirst, OneDriver, ShapeInv, [Next]_vars PROVE ShapeInv'
<1> USE DEF ShapeInv, Waits
<1>1. events \in Seq(Events) /\ Len(events) \in Nat
  BY DEF BasicTypes
<1>2. radio \in {"connecting", "connected"}
        => \A i \in 1..Len(events) : events[i] \notin Prompts
  BY DEF OneDriver, Prompting
<1>3. CASE HandleEvent
  <2>1. /\ radio' = radio \/ (radio = "idle" /\ radio' = "connecting"
                                /\ events[1] \in Prompts)
        /\ dhcp' = dhcp /\ handling' = events[1] /\ handling = "none"
        /\ 1 \in 1..Len(events)
    BY <1>1, <1>3, HandledRadio, Taking
  <2>2. /\ Len(events') = Len(events) - 1
        /\ \A i \in 1..Len(events') : /\ i \in Nat /\ i > 0
                                      /\ i + 1 \in 1..Len(events)
                                      /\ events'[i] = events[i + 1]
    BY <1>1, <1>3, HandledRadio, Taking
  <2>3. ASSUME NEW e, Waits(e)'
        PROVE  \E j \in 1..Len(events) : events[j] = e /\ j > 1
    <3>1. PICK i \in 1..Len(events') : events'[i] = e
      BY <2>3
    <3>2. i \in Nat /\ i > 0 /\ i + 1 \in 1..Len(events) /\ events[i + 1] = e
      BY <2>2, <3>1
    <3> QED
      BY <3>2
  <2>4. ASSUME NEW i \in 1..Len(events'), NEW j \in 1..Len(events'),
               events'[i] = "STA_CONNECTED", events'[j] \in Prompts
        PROVE  i < j
    <3>1. i + 1 < j + 1
      BY <2>2, <2>4
    <3>2. i \in Nat /\ j \in Nat
      BY <2>2
    <3> QED
      BY ONLY <3>1, <3>2, Shifted
  <2>5. ASSUME NEW i \in 1..Len(events'), NEW j \in 1..Len(events'),
               events'[i] = "STA_CONNECTED", events'[j] = "STA_CONNECTED"
        PROVE  i = j
    <3>1. i + 1 = j + 1
      BY <2>2, <2>5
    <3>2. i \in Nat /\ j \in Nat
      BY <2>2
    <3> QED
      BY ONLY <3>1, <3>2, Shifted
  <2>6. ~Waits("STA_START")'
    BY <1>1, <2>1, <2>3
  <2>7. handling' = "STA_CONNECTED" => ~Waits("STA_CONNECTED")' /\ dhcp' = "down"
    <3> SUFFICES ASSUME events[1] = "STA_CONNECTED"
                 PROVE  ~Waits("STA_CONNECTED")' /\ dhcp' = "down"
      BY <2>1
    <3>1. \A j \in 1..Len(events) : events[j] = "STA_CONNECTED" => j = 1
      BY <2>1
    <3>2. Waits("STA_CONNECTED")
      BY <2>1
    <3>3. dhcp' = "down"
      BY <2>1, <3>2
    <3>4. ~Waits("STA_CONNECTED")'
      <4> SUFFICES ASSUME Waits("STA_CONNECTED")' PROVE FALSE
        OBVIOUS
      <4>1. PICK j \in 1..Len(events) : events[j] = "STA_CONNECTED" /\ j > 1
        BY <2>3
      <4>2. j = 1
        BY <3>1, <4>1
      <4> QED
        BY <4>1, <4>2
    <3> QED
      BY <3>3, <3>4
  <2>8. radio' = "connecting" =>
          /\ handling' # "STA_CONNECTED" /\ ~Waits("STA_CONNECTED")'
          /\ dhcp' = "down" \/ handling' = "STA_DISCONNECTED"
    <3>1. CASE radio = "connecting"
      BY <2>1, <2>3, <3>1
    <3>2. CASE radio # "connecting" /\ radio' = "connecting"
      <4>1. events[1] \in Prompts /\ events[1] # "STA_CONNECTED"
        BY <2>1, <3>2 DEF Prompts
      <4>2. ~Waits("STA_CONNECTED")'
        BY <2>1, <2>3, <4>1
      <4> QED
        BY <2>1, <4>1, <4>2 DEF Prompts
    <3> QED
      BY <3>1, <3>2
  <2>9. Waits("STA_CONNECTED")' /\ dhcp' # "down" => handling' = "STA_DISCONNECTED"
    BY <2>1, <2>3
  <2>10. radio' # "off"
    BY <1>1, <2>1
  <2> QED
    BY <2>4, <2>5, <2>6, <2>7, <2>8, <2>9, <2>10 DEF Prompts
<1>4. CASE HandleByDefault
  <2>1. /\ UNCHANGED <<events, radio>> /\ handling # "none" /\ handling' = "none"
        /\ dhcp' = InterfaceAfter(handling)
    BY <1>4 DEF HandleByDefault
  <2> QED
    BY <2>1, Zenon DEF InterfaceAfter, Prompts
<1>5. ASSUME NEW e \in Events, events' = Append(events, e), handling' = handling,
             radio' # "off", dhcp' # "down" <=> dhcp # "down",
             \/ e = "STA_START" /\ events = <<>> /\ handling = "none"
                /\ dhcp = "down" /\ radio' = "idle"
             \/ /\ e = "STA_CONNECTED" /\ radio = "connecting"
                /\ radio' = "connected"
             \/ /\ e = "STA_DISCONNECTED" /\ radio \in {"connecting", "connected"}
                /\ radio' = "idle"
             \/ e = "GOT_IP" /\ radio' = radio /\ dhcp # "down"
      PROVE  ShapeInv'
  <2> DEFINE n == Len(events)
  <2>1. /\ n \in Nat /\ Len(events') = n + 1 /\ events'[n + 1] = e
        /\ \A i \in 1..n : i \in 1..Len(events') /\ events'[i] = events[i]
        /\ \A i \in 1..Len(events') : i \in Nat /\ (i \in 1..n \/ i = n + 1)
        /\ n + 1 \in 1..Len(events')
        /\ \A i \in 1..n : i < n + 1
    BY <1>1, <1>5, Posting
  <2>2. \A a : Waits(a)' => Waits(a) \/ a = e
    BY <2>1
  <2> HIDE DEF n
  <2>3. ASSUME NEW i \in 1..Len(events'), NEW j \in 1..Len(events'),
               events'[i] = "STA_CONNECTED", events'[j] \in Prompts
        PROVE  i < j
    <3>1. CASE i \in 1..n /\ j \in 1..n
      BY <2>1, <2>3, <3>1 DEF n
    <3>2. CASE i \in 1..n /\ j = n + 1
      BY <2>1, <3>2
    <3>3. CASE i = n + 1
      <4>1. e = "STA_CONNECTED"
        BY <2>1, <2>3, <3>3
      <4>2. j \in 1..n
        BY <2>1, <2>3, <4>1 DEF Prompts
      <4> QED
        BY <1>2, <1>5, <2>1, <2>3, <4>1, <4>2 DEF n
    <3> QED
      BY <2>1, <3>1, <3>2, <3>3
  <2>4. ASSUME NEW i \in 1..Len(events'), NEW j \in 1..Len(events'),
               events'[i] = "STA_CONNECTED", events'[j] = "STA_CONNECTED"
        PROVE  i = j
    <3>1. CASE i \in 1..n /\ j \in 1..n
      BY <2>1, <2>4, <3>1 DEF n
    <3>2. CASE i \in 1..n /\ j = n + 1
      BY <1>5, <2>1, <2>4, <3>2 DEF n
    <3>3. CASE i = n + 1 /\ j \in 1..n
      BY <1>5, <2>1, <2>4, <3>3 DEF n
    <3> QED
      BY <2>1, <3>1, <3>2, <3>3
  <2>5. Waits("STA_START")'
          => Len(events') = 1 /\ handling' = "none" /\ dhcp' = "down"
    <3> SUFFICES ASSUME Waits("STA_START")'
                 PROVE  Len(events') = 1 /\ handling' = "none" /\ dhcp' = "down"
      OBVIOUS
    <3>1. CASE e = "STA_START"
      BY <1>5, <2>1, <3>1 DEF n
    <3>2. CASE Waits("STA_START") /\ e # "STA_START"
      BY <1>2, <1>5, <3>2 DEF Prompts
    <3> QED
      BY <2>2, <3>1, <3>2
  <2>6. handling' = "STA_CONNECTED" => ~Waits("STA_CONNECTED")' /\ dhcp' = "down"
    BY <1>5, <2>2
  <2>7. radio' = "connecting" =>
          /\ handling' # "STA_CONNECTED" /\ ~Waits("STA_CONNECTED")'
          /\ dhcp' = "down" \/ handling' = "STA_DISCONNECTED"
    BY <1>5, <2>2
  <2>8. Waits("STA_CONNECTED")' /\ dhcp' # "down" => handling' = "STA_DISCONNECTED"
    BY <1>5, <2>2
  <2>9. radio' # "off"
    BY <1>5
  <2> QED
    BY <2>3, <2>4, <2>5, <2>6, <2>7, <2>8, <2>9 DEF Prompts
<1>6. CASE Start
  BY <1>1, <1>5, <1>6 DEF Start, Events, OffAtFirst
<1>7. CASE Associate
  BY <1>5, <1>7 DEF Associate, Events
<1>8. CASE Disconnect
  BY <1>5, <1>8 DEF Disconnect, Events
<1>9. CASE AnswerArrives \/ LoseAddress \/ SameAddress
  BY <1>9 DEF AnswerArrives, LoseAddress, SameAddress, LongBound, Prompts
<1>10. CASE Lease
  BY <1>5, <1>10 DEF Lease, AfterLease, Events, Prompts
<1>11. CASE Reboot
  BY <1>11 DEF Reboot, Prompts
<1>12. CASE UNCHANGED <<events, handling, radio, dhcp>>
  BY <1>12 DEF Prompts
<1> QED
  BY <1>3, <1>4, <1>6, <1>7, <1>8, <1>9, <1>10, <1>11, <1>12, OthersAlone
  DEF Next, vars, MainStep, WaitBits, Return, EventLoopStep, DriverStep, DhcpStep

LEMMA ShapeCorrect == Spec => []ShapeInv
<1>1. Init => ShapeInv
  BY DEF Init, ShapeInv, Waits
<1>2. DriverInv => BasicTypes /\ OffAtFirst /\ OneDriver
  BY DEF DriverInv
<1> QED
  BY <1>1, <1>2, ShapeNext, DriverInvCorrect, PTL DEF Spec
-----------------------------------------------------------------------------
LEMMA FewShifted ==
  ASSUME NEW S, NEW T \in SUBSET Nat, \A j \in T : j + 1 \in S
  PROVE  /\ AtMostOne(S) => AtMostOne(T)
         /\ AtMostTwo(S) => AtMostTwo(T)
         /\ S = {} => T = {}
  BY Shifted DEF AtMostOne, AtMostTwo

LEMMA FewOfFewer ==
  ASSUME NEW S, NEW T \in SUBSET S
  PROVE  /\ AtMostOne(S) => AtMostOne(T) /\ AtMostTwo(T)
         /\ AtMostTwo(S) => AtMostTwo(T)
  BY DEF AtMostOne, AtMostTwo

LEMMA FewAndOne ==
  ASSUME NEW S, NEW a
  PROVE  /\ AtMostOne(S) => AtMostTwo(S \cup {a})
         /\ S = {} => AtMostOne(S \cup {a})
  BY DEF AtMostOne, AtMostTwo

LEMMA GotIpNext ==
  ASSUME BasicTypes, OffAtFirst, ShapeInv, GotIpInv, [Next]_vars PROVE GotIpInv'
<1> USE DEF GotIpInv
<1>1. events \in Seq(Events) /\ Len(events) \in Nat
  BY DEF BasicTypes
<1>2. CASE HandleEvent
  <2>1. /\ dhcp' = dhcp /\ handling' = events[1] /\ handling = "none"
        /\ 1 \in 1..Len(events)
    BY <1>1, <1>2, HandledRadio, Taking
  <2>2. /\ Len(events') = Len(events) - 1
        /\ \A i \in 1..Len(events') : /\ i \in Nat /\ i > 0
                                      /\ i + 1 \in 1..Len(events)
                                      /\ events'[i] = events[i + 1]
    BY <1>1, <1>2, HandledRadio, Taking
  <2>3. ASSUME NEW i \in Nat
        PROVE  /\ GotIpsAfter(i)' \in SUBSET Nat
               /\ \A j \in GotIpsAfter(i)' : j + 1 \in GotIpsAfter(i + 1)
               /\ GotIpsAfter(i + 1) \in SUBSET GotIpsAfter(0)
    <3>1. GotIpsAfter(i)' = {j \in 1..Len(events') : i < j /\ events'[j] = "GOT_IP"}
      BY DEF GotIpsAfter
    <3>2. GotIpsAfter(i)' \in SUBSET Nat
      BY <2>2, <3>1
    <3>3. ASSUME NEW j \in GotIpsAfter(i)' PROVE j + 1 \in GotIpsAfter(i + 1)
      <4>1. j \in Nat /\ i < j /\ j + 1 \in 1..Len(events) /\ events[j + 1] = "GOT_IP"
        BY <2>2, <3>1
      <4>2. i + 1 < j + 1
        BY ONLY <4>1, i \in Nat, Shifted
      <4> QED
        BY <4>1, <4>2 DEF GotIpsAfter
    <3>4. GotIpsAfter(i + 1) \in SUBSET GotIpsAfter(0)
      BY <1>1 DEF GotIpsAfter
    <3> QED
      BY <3>2, <3>3, <3>4
  <2>4. ASSUME NEW i \in Nat
        PROVE  /\ AtMostOne(GotIpsAfter(i + 1)) => AtMostOne(GotIpsAfter(i)')
               /\ AtMostTwo(GotIpsAfter(i + 1)) => AtMostTwo(GotIpsAfter(i)')
               /\ GotIpsAfter(i + 1) = {} => GotIpsAfter(i)' = {}
    BY <2>3, FewShifted, Zenon
  <2>5. /\ AtMostOne(GotIpsAfter(0)) => AtMostOne(GotIpsAfter(0 + 1))
        /\ AtMostTwo(GotIpsAfter(0)) => AtMostTwo(GotIpsAfter(0 + 1))
    BY <2>3, FewOfFewer, 0 \in Nat
  <2>6. /\ AtMostTwo(GotIpsAfter(0)')
        /\ AtMostOne(GotIpsAfter(0)) => AtMostOne(GotIpsAfter(0)')
    BY <2>4, <2>5, 0 \in Nat
  <2>7. Renewing' => AtMostOne(GotIpsAfter(0)')
    BY <2>1, <2>6 DEF Renewing
  <2>8. handling' = "STA_CONNECTED" => AtMostOne(GotIpsAfter(0)')
    <3>1. AtMostOne(GotIpsAfter(0 + 1)) => AtMostOne(GotIpsAfter(0)')
      BY <2>4, 0 \in Nat
    <3>2. 0 + 1 = 1
      OBVIOUS
    <3> QED
      BY <2>1, <3>1, <3>2
  <2>9. ASSUME NEW i \in 1..Len(events'), events'[i] = "STA_CONNECTED"
        PROVE  /\ AtMostOne(GotIpsAfter(i)')
               /\ Renewing' => GotIpsAfter(i)' = {}
    BY <2>1, <2>2, <2>4, <2>9 DEF Renewing
  <2> QED
    BY <2>6, <2>7, <2>8, <2>9 DEF GotIpsAfter, AtMostOne, AtMostTwo
<1>3. ASSUME UNCHANGED events,
             Renewing' => \/ Renewing \/ GotIpsAfter(0) = {}
                          \/ handling = "STA_CONNECTED",
             handling' = "STA_CONNECTED" => handling = "STA_CONNECTED"
      PROVE  GotIpInv'
  <2>1. \A i : GotIpsAfter(i)' = GotIpsAfter(i)
    BY <1>3 DEF GotIpsAfter
  <2>2. AtMostOne({})
    BY DEF AtMostOne
  <2>3. \A i \in 1..Len(events) : GotIpsAfter(i) \subseteq GotIpsAfter(0)
    BY <1>1 DEF GotIpsAfter
  <2>4. handling = "STA_CONNECTED"
          => \A i \in 1..Len(events) : events[i] # "STA_CONNECTED"
    BY DEF ShapeInv, Waits
  <2>5. AtMostTwo(GotIpsAfter(0)')
    BY <2>1
  <2>6. Renewing' => AtMostOne(GotIpsAfter(0)')
    BY <1>3, <2>1, <2>2
  <2>7. handling' = "STA_CONNECTED" => AtMostOne(GotIpsAfter(0)')
    BY <1>3, <2>1
  <2>8. ASSUME NEW i \in 1..Len(events'), events'[i] = "STA_CONNECTED"
        PROVE  /\ AtMostOne(GotIpsAfter(i)')
               /\ Renewing' => GotIpsAfter(i)' = {}
    <3>1. i \in 1..Len(events) /\ events[i] = "STA_CONNECTED"
      BY <1>3, <2>8
    <3> QED
      BY <1>3, <2>1, <2>3, <2>4, <3>1
  <2> QED
    BY <2>5, <2>6, <2>7, <2>8 DEF GotIpsAfter, AtMostOne, AtMostTwo
<1>4. ASSUME NEW e \in Events, events' = Append(events, e), handling' = handling,
             \/ e # "GOT_IP" /\ (Renewing' => Renewing)
             \/ e = "GOT_IP" /\ Renewing /\ ~Renewing'
      PROVE  GotIpInv'
  <2> DEFINE n == Len(events)
  <2>1. /\ n \in Nat /\ Len(events') = n + 1 /\ events'[n + 1] = e
        /\ \A i \in 1..n : i \in 1..Len(events') /\ events'[i] = events[i]
        /\ \A i \in 1..Len(events') : i \in Nat /\ (i \in 1..n \/ i = n + 1)
        /\ n + 1 \in 1..Len(events')
        /\ \A i \in 1..n : i < n + 1 /\ ~(n + 1 < i)
        /\ 0 < n + 1 /\ ~(n + 1 < n + 1)
    BY <1>1, <1>4, Posting
  <2> HIDE DEF n
  <2>2. ASSUME NEW i
        PROVE  GotIpsAfter(i)' = {j \in 1..Len(events') : i < j /\ events'[j] = "GOT_IP"}
    BY DEF GotIpsAfter
  <2>3. ASSUME NEW i, i = n + 1 PROVE GotIpsAfter(i)' = {}
    <3>1. \A j \in 1..Len(events') : ~(i < j)
      BY <2>1, <2>3
    <3> QED
      BY <2>2, <3>1
  <2>4. ASSUME NEW i, i = 0 \/ i \in 1..n
        PROVE  GotIpsAfter(i)' = IF e = "GOT_IP" THEN GotIpsAfter(i) \cup {n + 1}
                                 ELSE GotIpsAfter(i)
    <3>1. i < n + 1
      BY <2>1, <2>4
    <3>2. \A j : j \in GotIpsAfter(i)' <=>
                   j \in GotIpsAfter(i) \/ (j = n + 1 /\ e = "GOT_IP")
      BY <2>1, <2>2, <3>1 DEF GotIpsAfter, n
    <3> QED
      BY <3>2
  <2>5. AtMostTwo(GotIpsAfter(0)')
    <3>1. CASE e = "GOT_IP"
      <4>1. AtMostTwo(GotIpsAfter(0) \cup {n + 1})
        BY <1>4, <3>1, FewAndOne
      <4> QED
        BY <2>4, <3>1, <4>1
    <3>2. CASE e # "GOT_IP"
      BY <2>4, <3>2
    <3> QED
      BY <3>1, <3>2
  <2>6. Renewing' => AtMostOne(GotIpsAfter(0)')
    BY <1>4, <2>4
  <2>7. handling' = "STA_CONNECTED" => AtMostOne(GotIpsAfter(0)')
    BY <1>4, <2>4 DEF ShapeInv, Renewing
  <2>8. ASSUME NEW i \in 1..Len(events'), events'[i] = "STA_CONNECTED"
        PROVE  /\ AtMostOne(GotIpsAfter(i)')
               /\ Renewing' => GotIpsAfter(i)' = {}
    <3>1. CASE i = n + 1
      BY <2>3, <3>1 DEF AtMostOne
    <3>2. CASE i \in 1..n
      <4>1. i \in 1..Len(events) /\ events[i] = "STA_CONNECTED"
        BY <2>1, <2>8, <3>2 DEF n
      <4>2. CASE e = "GOT_IP"
        <5>1. ~Renewing' /\ GotIpsAfter(i) = {}
          BY <1>4, <4>1, <4>2
        <5>2. AtMostOne(GotIpsAfter(i) \cup {n + 1})
          BY <5>1, FewAndOne
        <5> QED
          BY <2>4, <3>2, <4>2, <5>1, <5>2
      <4>3. CASE e # "GOT_IP"
        BY <1>4, <2>4, <3>2, <4>1, <4>3
      <4> QED
        BY <4>2, <4>3
    <3> QED
      BY <2>1, <3>1, <3>2
  <2> QED
    BY <2>5, <2>6, <2>7, <2>8 DEF GotIpsAfter, AtMostOne, AtMostTwo
<1>5. CASE HandleByDefault
  BY <1>3, <1>5 DEF HandleByDefault, InterfaceAfter, Renewing
<1>6. CASE Start
  BY <1>4, <1>6 DEF Start, Events, Renewing
<1>7. CASE Associate
  BY <1>4, <1>7 DEF Associate, Events, Renewing
<1>8. CASE Disconnect
  BY <1>4, <1>8 DEF Disconnect, Events, Renewing
<1>9. CASE AnswerArrives \/ LoseAddress \/ SameAddress
  <2>1. LongBound => GotIpsAfter(0) = {}
    BY <1>1 DEF LongBound, Range, GotIpsAfter
  <2>2. UNCHANGED <<events, handling>> /\ (Renewing \/ LongBound)
    BY <1>9 DEF AnswerArrives, LoseAddress, SameAddress, Renewing
  <2> QED
    BY <1>3, <2>1, <2>2
<1>10. CASE Lease
  <2>1. Renewing /\ ~Renewing' /\ handling' = handling
    BY <1>10 DEF Lease, AfterLease, Renewing
  <2>2. CASE HasRoom
    BY <1>4, <1>10, <2>1, <2>2 DEF Lease, Events
  <2>3. CASE ~HasRoom
    BY <1>3, <1>10, <2>1, <2>3 DEF Lease
  <2> QED
    BY <2>2, <2>3
<1>11. CASE Reboot
  BY <1>11 DEF Reboot, GotIpsAfter, AtMostOne, AtMostTwo, Renewing
<1>12. CASE UNCHANGED <<events, handling, dhcp>>
  BY <1>3, <1>12 DEF Renewing
<1> QED
  BY <1>2, <1>5, <1>6, <1>7, <1>8, <1>9, <1>10, <1>11, <1>12, OthersAlone
  DEF Next, vars, MainStep, WaitBits, Return, EventLoopStep, DriverStep, DhcpStep

QueueInv == DriverInv /\ ShapeInv /\ GotIpInv

LEMMA QueueInvCorrect == Spec => []QueueInv
<1>1. Init => GotIpInv
  BY DEF Init, GotIpInv, GotIpsAfter, AtMostOne, AtMostTwo, Renewing
<1>2. DriverInv => BasicTypes /\ OffAtFirst
  BY DEF DriverInv
<1> QED
  BY <1>1, <1>2, GotIpNext, DriverInvCorrect, ShapeCorrect, PTL DEF Spec, QueueInv
-----------------------------------------------------------------------------
(* The places of the queue, each of one kind.                              *)
LEMMA Places ==
  ASSUME QueueInv
  PROVE  /\ Len(events) \in Nat
         /\ \A i \in 1..Len(events) :
               \/ events[i] \in Prompts
               \/ events[i] = "STA_CONNECTED"
               \/ i \in GotIpsAfter(0)
         /\ \A i, j \in 1..Len(events) :
               events[i] \in Prompts /\ events[j] \in Prompts => i = j
         /\ \A i, j \in 1..Len(events) :
               events[i] = "STA_CONNECTED" /\ events[j] = "STA_CONNECTED" => i = j
         /\ AtMostTwo(GotIpsAfter(0))
         /\ Renewing => AtMostOne(GotIpsAfter(0))
<1> USE DEF QueueInv
<1>1. events \in Seq(Events) /\ Len(events) \in Nat
  BY DEF DriverInv, BasicTypes
<1>2. ASSUME NEW i \in 1..Len(events)
      PROVE  \/ events[i] \in Prompts
             \/ events[i] = "STA_CONNECTED"
             \/ i \in GotIpsAfter(0)
  <2>1. events[i] \in Events
    BY <1>1
  <2> QED
    BY <1>1, <2>1 DEF Events, Prompts, GotIpsAfter
<1>3. ASSUME NEW i \in 1..Len(events), NEW j \in 1..Len(events),
             events[i] \in Prompts, events[j] \in Prompts
      PROVE  i = j
  <2>1. i \in Prompting /\ j \in Prompting
    BY <1>3 DEF Prompting
  <2>2. Prompting = {} \/ \E k \in 1..Len(events) : Prompting = {k}
    BY DEF DriverInv, OneDriver, BasicTypes
  <2> QED
    BY <2>1, <2>2
<1> QED
  BY <1>1, <1>2, <1>3 DEF ShapeInv, GotIpInv

LEMMA ShortQueue ==
  ASSUME QueueInv PROVE Len(events) <= 4 /\ (Renewing => Len(events) <= 3)
<1> DEFINE P(i) == events[i] \in Prompts
           C(i) == events[i] = "STA_CONNECTED"
           G(i) == i \in GotIpsAfter(0)
<1>1. \A i \in 1..Len(events) : P(i) \/ C(i) \/ G(i)
  BY Places
<1>2. \A i, j \in 1..Len(events) : (P(i) /\ P(j) => i = j) /\ (C(i) /\ C(j) => i = j)
  BY Places
<1>3. /\ \A i, j, k : G(i) /\ G(j) /\ G(k) => i = j \/ j = k \/ i = k
      /\ Renewing => \A i, j : G(i) /\ G(j) => i = j
  BY Places DEF AtMostTwo, AtMostOne
<1>4. Len(events) \in Nat
  BY Places
<1> HIDE DEF P, C, G
<1>5. Renewing => Len(events) <= 3
  <2> SUFFICES ASSUME Renewing, Len(events) > 3 PROVE FALSE
    BY <1>4
  <2>1. /\ 1 \in 1..Len(events) /\ 2 \in 1..Len(events)
        /\ 3 \in 1..Len(events) /\ 4 \in 1..Len(events)
    BY <1>4
  <2> QED
    BY <1>1, <1>2, <1>3, <2>1
<1>6. Len(events) <= 4
  <2> SUFFICES ASSUME Len(events) > 4 PROVE FALSE
    BY <1>4
  <2>1. /\ 1 \in 1..Len(events) /\ 2 \in 1..Len(events)
        /\ 3 \in 1..Len(events) /\ 4 \in 1..Len(events) /\ 5 \in 1..Len(events)
    BY <1>4
  <2> QED
    BY <1>1, <1>2, <1>3, <2>1
<1> QED
  BY <1>5, <1>6

(* The default event loop's queue (esp_event.c:872) holds at most four     *)
(* events that a handler acts on, whatever its size, and at most three     *)
(* when the DHCP client is about to post an address: whatever room the     *)
(* other events, IP_EVENT_STA_LOST_IP among them, are given (OTHER_EVENTS),*)
(* four places beside it are enough for all the rest.                      *)
THEOREM QueueIsShort ==
  Spec => /\ []QueueStaysShort
          /\ [](dhcp = "answered" => Len(events) + others <= 3 + OTHER_EVENTS)
<1>1. QueueInv /\ OtherTypes
        => /\ QueueStaysShort
           /\ dhcp = "answered" => Len(events) + others <= 3 + OTHER_EVENTS
  <2> SUFFICES ASSUME QueueInv, OtherTypes
               PROVE  /\ Len(events) + others <= 4 + OTHER_EVENTS
                      /\ Renewing => Len(events) + others <= 3 + OTHER_EVENTS
    BY DEF QueueStaysShort, Renewing
  <2>1. Len(events) \in Nat /\ others \in Nat /\ others <= OTHER_EVENTS
    BY WifiManagerAssumption DEF QueueInv, DriverInv, BasicTypes, OtherTypes
  <2>2. OTHER_EVENTS \in Nat
    BY WifiManagerAssumption
  <2> QED
    BY <2>1, <2>2, ShortQueue
<1> QED
  BY <1>1, QueueInvCorrect, OtherTypesCorrect, PTL
-----------------------------------------------------------------------------
(* An address the client holds has been reported, or will be.              *)
AddressInv ==
  /\ dhcp = "bound" => "CONNECTED" \in bits \/ Waits("GOT_IP")
  /\ dhcp = "expired" => "CONNECTED" \in bits

LEMMA AddressNext ==
  ASSUME EVENT_QUEUE_SIZE >= 4 + OTHER_EVENTS, QueueInv, OtherTypes, AddressInv,
         [Next]_vars
  PROVE  AddressInv'
<1> USE DEF AddressInv, Waits
<1>1. events \in Seq(Events) /\ Len(events) \in Nat
  BY DEF QueueInv, DriverInv, BasicTypes
<1>2. CASE HandleEvent
  <2>1. /\ dhcp' = dhcp /\ 1 \in 1..Len(events)
        /\ Len(events') = Len(events) - 1
        /\ \A i \in 1..Len(events') : events'[i] = events[i + 1]
        /\ Head(events) = events[1]
    BY <1>1, <1>2, HandledRadio, Taking
  <2>2. \A b : SetBit(b) => "CONNECTED" \in bits' \/ "CONNECTED" \notin bits
    BY DEF SetBit, LeftAfter
  <2>3. SetBit("CONNECTED") => "CONNECTED" \in bits'
    BY DEF SetBit, LeftAfter
  <2>4. "CONNECTED" \in bits => "CONNECTED" \in bits'
    BY <1>2, <2>2
    DEF HandleEvent, OnStart, OnDisconnected, OnGotIp, NoBit
  <2>5. CASE Head(events) = "GOT_IP"
    BY <1>2, <2>3, <2>5 DEF HandleEvent, OnGotIp
  <2>6. CASE Head(events) # "GOT_IP" /\ Waits("GOT_IP")
    <3>1. PICK j \in 1..Len(events) : events[j] = "GOT_IP"
      BY <2>6
    <3>2. j # 1
      BY <2>1, <2>6, <3>1
    <3> DEFINE k == j - 1
    <3>3. k \in 1..Len(events') /\ k + 1 = j
      BY <1>1, <2>1, <3>2
    <3> HIDE DEF k
    <3>4. events'[k] = "GOT_IP"
      BY <2>1, <3>1, <3>3
    <3>5. Waits("GOT_IP")'
      BY <3>3, <3>4
    <3> QED
      BY <2>1, <2>4, <3>5
  <2> QED
    BY <2>1, <2>4, <2>5, <2>6
<1>3. CASE Lease
  <2>1. Len(events) <= 3
    BY <1>3, ShortQueue DEF Lease, Renewing
  <2>2. HasRoom
    BY <1>1, <2>1, WifiManagerAssumption DEF HasRoom, OtherTypes
  <2>3. events' = Append(events, "GOT_IP") /\ dhcp' = "bound"
    BY <1>3, <2>2 DEF Lease, AfterLease
  <2> QED
    BY <1>1, <2>3, Posting
<1>4. ASSUME UNCHANGED bits, dhcp' \in {"bound", "expired"} => dhcp' = dhcp,
             events' = events \/ \E e : events' = Append(events, e)
      PROVE  AddressInv'
  <2>1. \A i \in 1..Len(events) : i \in 1..Len(events') /\ events'[i] = events[i]
    BY <1>1, <1>4, Posting
  <2> QED
    BY <1>4, <2>1
<1>5. CASE HandleByDefault
  BY <1>4, <1>5 DEF HandleByDefault, InterfaceAfter
<1>6. CASE Start \/ Associate \/ Disconnect
  BY <1>4, <1>6 DEF Start, Associate, Disconnect
<1>7. CASE AnswerArrives \/ SameAddress \/ Reboot
  BY <1>7 DEF AnswerArrives, SameAddress, Reboot
<1>8. CASE WaitBits
  BY <1>8 DEF WaitBits, LeftAfter
<1>9. CASE LoseAddress
  <2>1. ~Waits("GOT_IP") /\ dhcp = "bound" /\ UNCHANGED <<bits, events>>
    BY <1>1, <1>9 DEF LoseAddress, LongBound, Range
  <2> QED
    BY <1>9, <2>1 DEF LoseAddress
<1>10. CASE UNCHANGED <<bits, events, dhcp>>
  BY <1>10
<1> QED
  BY <1>2, <1>3, <1>5, <1>6, <1>7, <1>8, <1>9, <1>10, OthersAlone
  DEF Next, vars, MainStep, Return, EventLoopStep, DriverStep, DhcpStep

(* The post of an address does not wait for room (the system posts         *)
(* IP_EVENT_STA_GOT_IP with no ticks to wait), and needs no wait: a queue  *)
(* with four places more than the other events take is enough for          *)
(* WIFI_CONNECTED_BIT to follow every address.                             *)
THEOREM AddressGetsReported ==
  ASSUME EVENT_QUEUE_SIZE >= 4 + OTHER_EVENTS PROVE Spec => []AddressIsReported
<1>1. Init => AddressInv
  BY DEF Init, AddressInv
<1>2. Spec => []AddressInv
  BY <1>1, AddressNext, QueueInvCorrect, OtherTypesCorrect, PTL DEF Spec
<1>3. DriverInv /\ AddressInv => AddressIsReported
  BY DEF AddressInv, AddressIsReported, Quiet, Waits
<1> QED
  BY <1>2, <1>3, DriverInvCorrect, PTL

-----------------------------------------------------------------------------
(* How far wifi_manager_start is at most from the bit it waits for, in     *)
(* steps of the driver, the DHCP client and the event loop: each place of  *)
(* the queue, the handler, the radio and DHCP count what they can still    *)
(* lead to, and each retry that is left a whole round.                     *)
StepsFor(e) == CASE e = "STA_START" -> 12
                 [] e = "STA_CONNECTED" -> 6
                 [] OTHER -> 2
AtPlace(i) == IF i <= Len(events) THEN StepsFor(events[i]) ELSE 0
QueuedSteps == AtPlace(1) + AtPlace(2) + AtPlace(3) + AtPlace(4)

RadioSteps == CASE radio = "connecting" -> 10
                [] radio = "connected" -> 3
                [] OTHER -> 0
DhcpSteps == CASE dhcp = "asking" -> 4
               [] dhcp = "answered" -> 3
               [] OTHER -> 0
HandlerSteps == CASE handling = "none" -> 0
                  [] handling = "STA_CONNECTED" -> 5
                  [] OTHER -> 1
LinkSteps == RadioSteps + DhcpSteps + HandlerSteps

Rounds == (WIFI_MAX_RETRY + 1) - losses
StepsToBit == 10 * Rounds + LinkSteps + QueuedSteps

LEMMA Tens ==
  /\ \A n \in Nat : 10 * n \in Nat /\ 10 * (n + 1) = 10 * n + 10
  /\ \A m, n \in Nat : m <= n => 10 * m <= 10 * n
  OBVIOUS

LEMMA RoundsLeft ==
  ASSUME DriverInv, ~GivenUp
  PROVE  /\ losses = wifi_connect_retries /\ losses \in 0..WIFI_MAX_RETRY
         /\ Rounds \in 1..(WIFI_MAX_RETRY + 1)
         /\ 10 * Rounds \in Nat /\ 10 * Rounds <= 10 * WIFI_MAX_RETRY + 10
<1>1. losses = wifi_connect_retries /\ losses \in 0..WIFI_MAX_RETRY
  BY DEF DriverInv, BasicTypes, LossesAreCounted
<1>2. Rounds \in 1..(WIFI_MAX_RETRY + 1) /\ Rounds \in Nat
  BY <1>1, ZeroRetries DEF Rounds
<1>3. WIFI_MAX_RETRY \in Nat /\ WIFI_MAX_RETRY + 1 \in Nat /\ Rounds <= WIFI_MAX_RETRY + 1
  BY <1>2, ZeroRetries
<1>4. 10 * Rounds <= 10 * (WIFI_MAX_RETRY + 1)
  BY <1>2, <1>3, Tens
<1>5. 10 * (WIFI_MAX_RETRY + 1) = 10 * WIFI_MAX_RETRY + 10
  BY <1>3, Tens
<1> QED
  BY <1>1, <1>2, <1>4, <1>5, Tens

LEMMA LinkTypes ==
  ASSUME BasicTypes
  PROVE  /\ RadioSteps \in {0, 3, 10} /\ DhcpSteps \in {0, 3, 4}
         /\ HandlerSteps \in {0, 1, 5} /\ LinkSteps \in Nat
<1>1. /\ RadioSteps \in {0, 3, 10} /\ DhcpSteps \in {0, 3, 4}
      /\ HandlerSteps \in {0, 1, 5}
  BY DEF BasicTypes, RadioSteps, DhcpSteps, HandlerSteps
<1> QED
  BY <1>1 DEF LinkSteps

LEMMA PlaceTypes ==
  /\ \A e : StepsFor(e) \in {2, 6, 12}
  /\ \A i : AtPlace(i) \in {0, 2, 6, 12}
  /\ QueuedSteps \in Nat /\ QueuedSteps' \in Nat
<1>1. \A e : StepsFor(e) \in {2, 6, 12}
  BY DEF StepsFor
<1>2. \A i : AtPlace(i) \in {0, 2, 6, 12}
  BY <1>1 DEF AtPlace
<1>3. /\ AtPlace(1) \in Nat /\ AtPlace(2) \in Nat
      /\ AtPlace(3) \in Nat /\ AtPlace(4) \in Nat
  BY <1>2
<1>4. \A i : AtPlace(i)' \in {0, 2, 6, 12}
  <2>1. \A i : AtPlace(i)' = IF i <= Len(events') THEN StepsFor(events'[i]) ELSE 0
    BY DEF AtPlace, StepsFor
  <2> QED
    BY <1>1, <2>1
<1>5. /\ AtPlace(1)' \in Nat /\ AtPlace(2)' \in Nat
      /\ AtPlace(3)' \in Nat /\ AtPlace(4)' \in Nat
  BY <1>4
<1> QED
  BY <1>1, <1>2, <1>3, <1>5 DEF QueuedSteps

(* The oldest of at most four events is taken.                             *)
LEMMA TakenSteps ==
  ASSUME events \in Seq(Events), events # <<>>, Len(events) <= 4,
         events' = Tail(events)
  PROVE  QueuedSteps = StepsFor(Head(events)) + QueuedSteps'
<1>1. /\ Len(events) \in Nat /\ Len(events') = Len(events) - 1
      /\ events[1] = Head(events)
      /\ \A i \in 1..Len(events') : events'[i] = events[i + 1]
      /\ Len(events) >= 1
  BY Taking
<1>2. AtPlace(1) = StepsFor(Head(events))
  BY <1>1 DEF AtPlace
<1>3. ASSUME NEW i \in {1, 2, 3} PROVE AtPlace(i)' = AtPlace(i + 1)
  <2>1. AtPlace(i)' = IF i <= Len(events') THEN StepsFor(events'[i]) ELSE 0
    BY DEF AtPlace, StepsFor
  <2>2. i <= Len(events') <=> i + 1 <= Len(events)
    BY <1>1
  <2>3. i <= Len(events') => events'[i] = events[i + 1]
    BY <1>1
  <2> QED
    BY <2>1, <2>2, <2>3 DEF AtPlace
<1>4. AtPlace(4)' = 0
  <2>1. ~(4 <= Len(events'))
    BY <1>1
  <2> QED
    BY <2>1 DEF AtPlace
<1>5. /\ AtPlace(1)' = AtPlace(2) /\ AtPlace(2)' = AtPlace(3)
      /\ AtPlace(3)' = AtPlace(4)
  <2>1. 1 + 1 = 2 /\ 2 + 1 = 3 /\ 3 + 1 = 4
    OBVIOUS
  <2>2. AtPlace(1)' = AtPlace(1 + 1) /\ AtPlace(2)' = AtPlace(2 + 1)
        /\ AtPlace(3)' = AtPlace(3 + 1)
    BY <1>3
  <2> QED
    BY <2>1, <2>2
<1>6. QueuedSteps' = AtPlace(2) + AtPlace(3) + AtPlace(4) + 0
  BY <1>4, <1>5 DEF QueuedSteps
<1>7. /\ AtPlace(1) \in Nat /\ AtPlace(2) \in Nat
      /\ AtPlace(3) \in Nat /\ AtPlace(4) \in Nat
  BY PlaceTypes
<1>8. QueuedSteps = AtPlace(1) + (AtPlace(2) + AtPlace(3) + AtPlace(4) + 0)
  BY <1>7 DEF QueuedSteps
<1> QED
  BY <1>2, <1>6, <1>8

(* An event is posted behind at most three.                                *)
LEMMA PostedSteps ==
  ASSUME events \in Seq(Events), Len(events) <= 3, NEW e,
         events' = Append(events, e)
  PROVE  QueuedSteps' = QueuedSteps + StepsFor(e)
<1> DEFINE n == Len(events)
<1>1. /\ n \in Nat /\ Len(events') = n + 1 /\ events'[n + 1] = e
      /\ \A i \in 1..n : events'[i] = events[i]
  BY Posting
<1>2. ASSUME NEW i \in 1..4
      PROVE  AtPlace(i)' = IF i = n + 1 THEN StepsFor(e) ELSE AtPlace(i)
  <2>1. AtPlace(i)' = IF i <= Len(events') THEN StepsFor(events'[i]) ELSE 0
    BY DEF AtPlace, StepsFor
  <2>2. i <= Len(events') <=> i <= n \/ i = n + 1
    BY <1>1
  <2>3. i <= n => events'[i] = events[i] /\ i # n + 1
    BY <1>1
  <2> QED
    BY <1>1, <2>1, <2>2, <2>3 DEF AtPlace
<1>3. AtPlace(n + 1) = 0
  BY <1>1 DEF AtPlace
<1>4. QueuedSteps' = AtPlace(1)' + AtPlace(2)' + AtPlace(3)' + AtPlace(4)'
  BY DEF QueuedSteps
<1>5. n + 1 \in {1, 2, 3, 4}
  BY <1>1
<1>6. /\ AtPlace(1) \in Nat /\ AtPlace(2) \in Nat /\ AtPlace(3) \in Nat
      /\ AtPlace(4) \in Nat /\ StepsFor(e) \in Nat
  BY PlaceTypes
<1> HIDE DEF n
<1>7. CASE n + 1 = 1
  <2>1. /\ AtPlace(1)' = StepsFor(e) /\ AtPlace(2)' = AtPlace(2)
        /\ AtPlace(3)' = AtPlace(3) /\ AtPlace(4)' = AtPlace(4) /\ AtPlace(1) = 0
    BY <1>2, <1>3, <1>7
  <2> QED
    BY <1>4, <1>6, <2>1 DEF QueuedSteps
<1>8. CASE n + 1 = 2
  <2>1. /\ AtPlace(1)' = AtPlace(1) /\ AtPlace(2)' = StepsFor(e)
        /\ AtPlace(3)' = AtPlace(3) /\ AtPlace(4)' = AtPlace(4) /\ AtPlace(2) = 0
    BY <1>2, <1>3, <1>8
  <2> QED
    BY <1>4, <1>6, <2>1 DEF QueuedSteps
<1>9. CASE n + 1 = 3
  <2>1. /\ AtPlace(1)' = AtPlace(1) /\ AtPlace(2)' = AtPlace(2)
        /\ AtPlace(3)' = StepsFor(e) /\ AtPlace(4)' = AtPlace(4) /\ AtPlace(3) = 0
    BY <1>2, <1>3, <1>9
  <2> QED
    BY <1>4, <1>6, <2>1 DEF QueuedSteps
<1>10. CASE n + 1 = 4
  <2>1. /\ AtPlace(1)' = AtPlace(1) /\ AtPlace(2)' = AtPlace(2)
        /\ AtPlace(3)' = AtPlace(3) /\ AtPlace(4)' = StepsFor(e) /\ AtPlace(4) = 0
    BY <1>2, <1>3, <1>10
  <2> QED
    BY <1>4, <1>6, <2>1 DEF QueuedSteps
<1> QED
  BY <1>5, <1>7, <1>8, <1>9, <1>10

LEMMA ShortQueueNext == (QueueInv => Len(events) <= 4)'
<1>1. QueueInv => Len(events) <= 4
  BY ShortQueue
<1> QED
  BY <1>1, PTL

(* Each step outside the main task that sets no bit brings the bit nearer. *)
LEMMA HandlingComesNearer ==
  ASSUME QueueInv, bits = {}, HandleEvent
  PROVE  bits' # {} \/ StepsToBit' < StepsToBit
<1>1. /\ DriverInv /\ BasicTypes /\ events \in Seq(Events) /\ ~GivenUp
  BY DEF QueueInv, DriverInv, BasicTypes, GivenUp
<1>2. /\ events' = Tail(events) /\ events # <<>> /\ dhcp' = dhcp
      /\ handling = "none" /\ handling' = Head(events)
  BY HandledRadio
<1>3. QueuedSteps = StepsFor(Head(events)) + QueuedSteps' /\ QueuedSteps' \in Nat
  <2>1. QueuedSteps = StepsFor(Head(events)) + QueuedSteps'
    BY <1>1, <1>2, ShortQueue, TakenSteps
  <2>2. QueuedSteps' \in Nat
    BY <1>1, <1>2, PlaceTypes
  <2> QED
    BY <2>1, <2>2
<1>4. DhcpSteps' = DhcpSteps /\ HandlerSteps = 0 /\ DhcpSteps \in Nat
  BY <1>1, <1>2, LinkTypes DEF DhcpSteps, HandlerSteps
<1>5. 10 * Rounds \in Nat
  BY <1>1, RoundsLeft
<1>6. CASE Head(events) = "GOT_IP"
  BY <1>6 DEF HandleEvent, OnGotIp, SetBit, LeftAfter
<1>7. CASE Head(events) = "STA_CONNECTED"
  <2>1. radio' = radio /\ losses' = losses
    BY <1>7 DEF HandleEvent
  <2>2. RadioSteps' = RadioSteps /\ Rounds' = Rounds /\ RadioSteps \in Nat
    BY <1>1, <2>1, LinkTypes DEF RadioSteps, Rounds
  <2>3. HandlerSteps' = 5 /\ StepsFor(Head(events)) = 6
    BY <1>2, <1>7 DEF HandlerSteps, StepsFor
  <2> QED
    BY <1>3, <1>4, <1>5, <2>2, <2>3 DEF StepsToBit, LinkSteps
<1>8. CASE Head(events) \in Prompts
  <2>1. radio = "idle"
    <3>1. 1 \in Prompting
      BY <1>1, <1>2, <1>8, TakePrompt
    <3> QED
      BY <1>1, <3>1 DEF DriverInv, BasicTypes, OneDriver
  <2>2. RadioSteps = 0 /\ HandlerSteps' = 1
    BY <1>2, <1>8, <2>1 DEF RadioSteps, HandlerSteps, Prompts
  <2>3. CASE OnStart /\ Head(events) = "STA_START"
    <3>1. radio' = "connecting" /\ losses' = losses
      BY <2>1, <2>3 DEF OnStart, Connecting
    <3>2. RadioSteps' = 10 /\ Rounds' = Rounds /\ StepsFor(Head(events)) = 12
      BY <2>3, <3>1 DEF RadioSteps, Rounds, StepsFor
    <3> QED
      BY <1>3, <1>4, <1>5, <2>2, <3>2 DEF StepsToBit, LinkSteps
  <2>4. CASE OnDisconnected /\ MayRetry /\ Head(events) = "STA_DISCONNECTED"
    <3>1. radio' = "connecting" /\ losses' = losses + 1
      BY <2>1, <2>4 DEF OnDisconnected, Connecting
    <3>2. RadioSteps' = 10 /\ StepsFor(Head(events)) = 2
      BY <2>4, <3>1 DEF RadioSteps, StepsFor
    <3>3. Rounds' \in Nat /\ Rounds = Rounds' + 1
      BY <1>1, <3>1, RoundsLeft, ZeroRetries DEF Rounds
    <3>4. 10 * Rounds = 10 * Rounds' + 10 /\ 10 * Rounds' \in Nat
      BY <3>3, Tens
    <3> QED
      BY <1>3, <1>4, <2>2, <3>2, <3>4 DEF StepsToBit, LinkSteps
  <2>5. CASE OnDisconnected /\ ~MayRetry
    BY <2>5 DEF OnDisconnected, SetBit, LeftAfter
  <2> QED
    BY <1>8, <2>3, <2>4, <2>5 DEF HandleEvent, Prompts
<1> QED
  BY <1>1, <1>2, <1>6, <1>7, <1>8 DEF Events, Prompts

LEMMA OtherStepsComeNearer ==
  ASSUME QueueInv, AddressInv, QueueInv', bits = {},
         HandleByDefault \/ DriverStep \/ DhcpStep
  PROVE  StepsToBit' < StepsToBit
<1>1. /\ DriverInv /\ BasicTypes /\ events \in Seq(Events) /\ ~GivenUp
      /\ Len(events) \in Nat
  BY DEF QueueInv, DriverInv, BasicTypes, GivenUp
<1>2. 10 * Rounds \in Nat /\ QueuedSteps \in Nat
  BY <1>1, RoundsLeft, PlaceTypes
<1>3. /\ RadioSteps \in Nat /\ DhcpSteps \in {0, 3, 4} /\ HandlerSteps \in {0, 1, 5}
  BY <1>1, LinkTypes
<1>4. Rounds' = Rounds
  BY DEF HandleByDefault, DriverStep, Associate, Disconnect, DhcpStep,
         AnswerArrives, LoseAddress, SameAddress, Lease, Rounds
<1>5. CASE HandleByDefault
  <2>1. /\ QueuedSteps' = QueuedSteps /\ RadioSteps' = RadioSteps
        /\ HandlerSteps' = 0
    BY <1>5 DEF HandleByDefault, QueuedSteps, AtPlace, StepsFor, RadioSteps,
                HandlerSteps
  <2>2. DhcpSteps' < DhcpSteps + HandlerSteps /\ DhcpSteps' \in Nat
    <3>1. CASE handling = "STA_CONNECTED"
      BY <1>1, <1>3, <1>5, <3>1
      DEF QueueInv, ShapeInv, HandleByDefault, InterfaceAfter, DhcpSteps, HandlerSteps
    <3>2. CASE handling # "STA_CONNECTED"
      <4>1. DhcpSteps' = DhcpSteps \/ DhcpSteps' = 0
        BY <1>5, <3>2 DEF HandleByDefault, InterfaceAfter, DhcpSteps
      <4>2. HandlerSteps = 1
        BY <1>5, <3>2 DEF HandleByDefault, HandlerSteps
      <4> QED
        BY <1>3, <4>1, <4>2
    <3> QED
      BY <3>1, <3>2
  <2> QED
    BY <1>2, <1>3, <1>4, <2>1, <2>2 DEF StepsToBit, LinkSteps
<1>6. ASSUME NEW e, events' = Append(events, e)
      PROVE  QueuedSteps' = QueuedSteps + StepsFor(e)
  <2>1. Len(events') = Len(events) + 1
    BY <1>1, <1>6, Posting
  <2>2. Len(events') <= 4
    BY ShortQueueNext
  <2> QED
    BY <1>1, <1>6, <2>1, <2>2, PostedSteps
<1>7. CASE Associate
  <2>1. QueuedSteps' = QueuedSteps + 6
    BY <1>6, <1>7 DEF Associate, StepsFor
  <2>2. /\ RadioSteps = 10 /\ RadioSteps' = 3
        /\ DhcpSteps' = DhcpSteps /\ HandlerSteps' = HandlerSteps
    BY <1>7 DEF Associate, RadioSteps, DhcpSteps, HandlerSteps
  <2> QED
    BY <1>2, <1>3, <1>4, <2>1, <2>2 DEF StepsToBit, LinkSteps
<1>8. CASE Disconnect
  <2>1. QueuedSteps' = QueuedSteps + 2
    BY <1>6, <1>8 DEF Disconnect, StepsFor
  <2>2. /\ RadioSteps \in {3, 10} /\ RadioSteps' = 0
        /\ DhcpSteps' = DhcpSteps /\ HandlerSteps' = HandlerSteps
    BY <1>8 DEF Disconnect, RadioSteps, DhcpSteps, HandlerSteps
  <2> QED
    BY <1>2, <1>3, <1>4, <2>1, <2>2 DEF StepsToBit, LinkSteps
<1>9. ~LongBound /\ dhcp # "expired"
  BY <1>1 DEF AddressInv, LongBound, Waits, Range
<1>10. CASE AnswerArrives
  <2>1. dhcp = "asking"
    BY <1>10, <1>9 DEF AnswerArrives
  <2>2. /\ QueuedSteps' = QueuedSteps /\ RadioSteps' = RadioSteps
        /\ HandlerSteps' = HandlerSteps /\ DhcpSteps = 4 /\ DhcpSteps' = 3
    BY <1>10, <2>1
    DEF AnswerArrives, QueuedSteps, AtPlace, StepsFor, RadioSteps, HandlerSteps,
        DhcpSteps
  <2> QED
    BY <1>2, <1>3, <1>4, <2>2 DEF StepsToBit, LinkSteps
<1>11. CASE Lease
  <2>1. /\ RadioSteps' = RadioSteps /\ HandlerSteps' = HandlerSteps
        /\ DhcpSteps = 3 /\ DhcpSteps' = 0
    BY <1>11 DEF Lease, AfterLease, RadioSteps, HandlerSteps, DhcpSteps
  <2>2. events' = events \/ events' = Append(events, "GOT_IP")
    BY <1>11 DEF Lease
  <2>3. QueuedSteps' = QueuedSteps \/ QueuedSteps' = QueuedSteps + 2
    <3>1. events' = events => QueuedSteps' = QueuedSteps
      BY DEF QueuedSteps, AtPlace, StepsFor
    <3>2. events' = Append(events, "GOT_IP") => QueuedSteps' = QueuedSteps + 2
      BY <1>6 DEF StepsFor
    <3> QED
      BY <2>2, <3>1, <3>2
  <2> QED
    BY <1>2, <1>3, <1>4, <2>1, <2>3 DEF StepsToBit, LinkSteps
<1> QED
  BY <1>5, <1>7, <1>8, <1>9, <1>10, <1>11
  DEF DriverStep, DhcpStep, LoseAddress, SameAddress

(* The main task waits only while no bit is set, and a station that was    *)
(* started has no more steps before it than the whole budget allows.       *)
WaitInv ==
  /\ main # "init" => radio # "off"
  /\ main = "waiting" => bits = {}
  /\ bits = {} => StepsToBit <= 10 * WIFI_MAX_RETRY + 22

LEMMA StepsAreNatural ==
  ASSUME QueueInv, bits = {}
  PROVE  StepsToBit \in Nat
<1>1. /\ DriverInv /\ BasicTypes /\ ~GivenUp
  BY DEF QueueInv, DriverInv, GivenUp
<1>2. 10 * Rounds \in Nat /\ LinkSteps \in Nat /\ QueuedSteps \in Nat
  BY <1>1, RoundsLeft, LinkTypes, PlaceTypes
<1> QED
  BY <1>2 DEF StepsToBit

(* Until esp_wifi_start there is nothing but the rounds to come.           *)
LEMMA StepsAtFirst ==
  ASSUME QueueInv, radio = "off"
  PROVE  StepsToBit <= 10 * WIFI_MAX_RETRY + 10 /\ events = <<>>
<1>1. /\ DriverInv /\ ~GivenUp
      /\ events = <<>> /\ handling = "none" /\ dhcp = "down"
  BY DEF QueueInv, DriverInv, OneDriver, ShapeInv
<1>2. LinkSteps = 0
  BY <1>1 DEF LinkSteps, RadioSteps, DhcpSteps, HandlerSteps
<1>3. \A i \in {1, 2, 3, 4} : AtPlace(i) = 0
  BY <1>1 DEF AtPlace
<1>4. QueuedSteps = 0
  BY <1>3 DEF QueuedSteps
<1>5. 10 * Rounds \in Nat /\ 10 * Rounds <= 10 * WIFI_MAX_RETRY + 10
  BY <1>1, RoundsLeft
<1> QED
  BY <1>1, <1>2, <1>4, <1>5 DEF StepsToBit

LEMMA FirstStepsNext ==
  (QueueInv /\ radio = "off" => StepsToBit <= 10 * WIFI_MAX_RETRY + 10)'
<1>1. QueueInv /\ radio = "off" => StepsToBit <= 10 * WIFI_MAX_RETRY + 10
  BY StepsAtFirst
<1> QED
  BY <1>1, PTL

LEMMA NaturalNext == (QueueInv /\ bits = {} => StepsToBit \in Nat)'
<1>1. QueueInv /\ bits = {} => StepsToBit \in Nat
  BY StepsAreNatural
<1> QED
  BY <1>1, PTL

LEMMA ComesNearer ==
  ASSUME QueueInv, AddressInv, QueueInv', bits = {},
         EventLoopStep \/ DriverStep \/ DhcpStep
  PROVE  bits' # {} \/ StepsToBit' < StepsToBit
  BY HandlingComesNearer, OtherStepsComeNearer DEF EventLoopStep

LEMMA WaitNext ==
  ASSUME QueueInv, AddressInv, QueueInv', WaitInv, [Next]_vars
  PROVE  WaitInv'
<1> DEFINE Most == 10 * WIFI_MAX_RETRY + 22
<1>1. Most \in Nat /\ 10 * WIFI_MAX_RETRY \in Nat
  BY ZeroRetries, Tens
<1>2. /\ bits = {} => StepsToBit \in Nat
      /\ bits' = {} => StepsToBit' \in Nat
  BY StepsAreNatural, NaturalNext
<1>3. main' # "init" => radio' # "off"
  BY OthersAlone
     DEF WaitInv, Next, vars, MainStep, Start, WaitBits, Return, EventLoopStep,
         HandleEvent, HandleByDefault, OnStart, OnDisconnected, OnGotIp, SetBit,
         NoBit, Connecting, DriverStep, Associate, Disconnect, DhcpStep,
         AnswerArrives, LoseAddress, SameAddress, Lease, Reboot
<1>4. main' = "waiting" => bits' = {}
  BY OthersAlone
     DEF WaitInv, Next, vars, MainStep, Start, WaitBits, Satisfied, LeftAfter,
         Return, EventLoopStep, HandleEvent, HandleByDefault, OnStart,
         OnDisconnected, OnGotIp, SetBit, NoBit, DriverStep, Associate,
         Disconnect, DhcpStep, AnswerArrives, LoseAddress, SameAddress, Lease,
         Reboot
<1>5. bits' = {} => StepsToBit' <= Most
  <2>1. CASE EventLoopStep \/ DriverStep \/ DhcpStep
    <3>1. bits' = {} => bits = {}
      BY <2>1 DEF EventLoopStep, HandleEvent, HandleByDefault, OnStart,
         OnDisconnected, OnGotIp, SetBit, LeftAfter, NoBit, DriverStep, Associate,
         Disconnect, DhcpStep, AnswerArrives, LoseAddress, SameAddress, Lease
    <3> HIDE DEF Most
    <3>2. bits = {} => StepsToBit <= Most
      BY DEF WaitInv, Most
    <3> QED
      BY <1>1, <1>2, <2>1, <3>1, <3>2, ComesNearer
  <2>2. CASE Start
    <3>1. radio = "off" /\ events' = Append(events, "STA_START") /\ bits' = bits
      BY <2>2 DEF Start, QueueInv, DriverInv, OffAtFirst
    <3>2. StepsToBit <= 10 * WIFI_MAX_RETRY + 10 /\ events = <<>>
      BY <3>1, StepsAtFirst
    <3>3. QueuedSteps' = QueuedSteps + 12
      <4>1. events \in Seq(Events) /\ Len(events) <= 3
        BY <3>2 DEF QueueInv, DriverInv, BasicTypes
      <4> QED
        BY <3>1, <4>1, PostedSteps DEF StepsFor
    <3>4. LinkSteps' = LinkSteps /\ Rounds' = Rounds
      BY <2>2, <3>1
      DEF Start, LinkSteps, RadioSteps, DhcpSteps, HandlerSteps, Rounds
    <3>5. bits' = {} => /\ 10 * Rounds \in Nat /\ LinkSteps \in Nat
                        /\ QueuedSteps \in Nat
      BY <3>1, RoundsLeft, LinkTypes, PlaceTypes
      DEF QueueInv, DriverInv, GivenUp
    <3>6. bits' = {} => StepsToBit' = StepsToBit + 12
      BY <3>3, <3>4, <3>5 DEF StepsToBit
    <3> QED
      BY <1>1, <1>2, <3>1, <3>2, <3>6
  <2>3. CASE Reboot
    <3>1. radio' = "off"
      BY <2>3 DEF Reboot
    <3>2. StepsToBit' <= 10 * WIFI_MAX_RETRY + 10
      BY <3>1, FirstStepsNext
    <3> QED
      BY <1>1, <1>2, <3>2
  <2>4. CASE UNCHANGED <<bits, losses, events, handling, radio, dhcp>>
    <3>1. StepsToBit' = StepsToBit
      BY <2>4 DEF StepsToBit, Rounds, LinkSteps, RadioSteps, DhcpSteps,
                  HandlerSteps, QueuedSteps, AtPlace, StepsFor
    <3> QED
      BY <2>4, <3>1 DEF WaitInv
  <2> QED
    BY <2>1, <2>2, <2>3, <2>4, OthersAlone
    DEF Next, vars, MainStep, WaitBits, LeftAfter, Return
<1> QED
  BY <1>3, <1>4, <1>5 DEF WaitInv

(* What StartReturns needs beside fairness, for every number of retries:   *)
(* while the main task waits (wifi_manager.c:78), at most                  *)
(* 10 * WIFI_MAX_RETRY + 22 steps of the driver, the event loop and DHCP   *)
(* lie before the bit that wakes it; each of their steps is one less or    *)
(* wakes it, whatever the access point does and however late the events    *)
(* are, and no other event that passes through the queue puts it off; and  *)
(* once all events are handled an attempt is under way or DHCP is at work, *)
(* so that only a DHCP server that is silent can leave the main task       *)
(* waiting.                                                                *)
THEOREM StartEnds ==
  ASSUME EVENT_QUEUE_SIZE >= 4 + OTHER_EVENTS
  PROVE
    Spec =>
      /\ [](main = "waiting" =>
              /\ StepsToBit \in 0..(10 * WIFI_MAX_RETRY + 22)
              /\ Quiet => radio = "connecting" \/ Renewing)
      /\ [][main = "waiting" /\ (EventLoopStep \/ DriverStep \/ DhcpStep)
              => main' # "waiting" \/ StepsToBit' < StepsToBit]_vars
      /\ [][OtherEventStep => StepsToBit' = StepsToBit]_vars
<1>1. Init => WaitInv
  <2>1. Init => QueueInv /\ radio = "off" /\ main = "init"
    BY DriverInit
    DEF Init, QueueInv, ShapeInv, GotIpInv, GotIpsAfter, AtMostOne, AtMostTwo,
        Renewing, Waits
  <2>2. 10 * WIFI_MAX_RETRY \in Nat
    BY ZeroRetries, Tens
  <2> QED
    BY <2>1, <2>2, StepsAtFirst, StepsAreNatural DEF WaitInv
<1>2. Init => AddressInv
  BY DEF Init, AddressInv
<1>3. Spec => [](QueueInv /\ AddressInv /\ WaitInv /\ LinkInv)
  BY <1>1, <1>2, WaitNext, AddressNext, QueueInvCorrect, OtherTypesCorrect,
     LinkCorrect, PTL DEF Spec
<1>4. ASSUME QueueInv, AddressInv, WaitInv, LinkInv, main = "waiting"
      PROVE  /\ StepsToBit \in 0..(10 * WIFI_MAX_RETRY + 22)
             /\ Quiet => radio = "connecting" \/ Renewing
  <2>1. bits = {} /\ radio # "off"
    BY <1>4 DEF WaitInv
  <2>2. StepsToBit \in Nat /\ StepsToBit <= 10 * WIFI_MAX_RETRY + 22
    BY <1>4, <2>1, StepsAreNatural DEF WaitInv
  <2>3. 10 * WIFI_MAX_RETRY \in Nat
    BY ZeroRetries, Tens
  <2>4. ASSUME Quiet PROVE radio = "connecting" \/ Renewing
    <3>1. events = <<>> /\ handling = "none"
      BY <2>4 DEF Quiet
    <3>2. radio # "idle"
      BY <1>4, <2>1, <3>1 DEF QueueInv, DriverInv, OneDriver, GivenUp
    <3>3. radio = "connected" => dhcp # "down"
      BY <1>4, <3>1 DEF LinkInv, NoLinkAfter, LinkEvents
    <3>4. dhcp # "bound"
      BY <1>4, <2>1, <3>1 DEF AddressInv, Waits
    <3> QED
      BY <1>4, <2>1, <3>2, <3>3, <3>4 DEF QueueInv, DriverInv, BasicTypes, Renewing
  <2> QED
    BY <2>2, <2>3, <2>4
<1>5. ASSUME QueueInv, AddressInv, WaitInv, QueueInv', WaitInv', [Next]_vars
      PROVE  [main = "waiting" /\ (EventLoopStep \/ DriverStep \/ DhcpStep)
                => main' # "waiting" \/ StepsToBit' < StepsToBit]_vars
  BY <1>5, ComesNearer DEF WaitInv
<1>6. [OtherEventStep => StepsToBit' = StepsToBit]_vars
  BY OthersAlone
  DEF StepsToBit, Rounds, LinkSteps, RadioSteps, DhcpSteps, HandlerSteps,
      QueuedSteps, AtPlace, StepsFor
<1> QED
  BY <1>3, <1>4, <1>5, <1>6, PTL DEF Spec

=============================================================================
