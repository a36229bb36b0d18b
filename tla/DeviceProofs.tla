----------------------------- MODULE DeviceProofs -----------------------------
(***************************************************************************)
(* Theorems about Device, for any number of retries, of failures and any   *)
(* size of the event queue.  Device uses the Wi-Fi manager as WifiManager  *)
(* describes it, so the theorems of WifiManagerProofs hold of the device   *)
(* from one boot to the next; what app_main adds is proved on top of them. *)
(***************************************************************************)
EXTENDS Device, TLAPS

W == INSTANCE WifiManagerProofs

(* A step of the device is a step of the Wi-Fi manager or leaves it alone. *)
LEMMA StepUsesWifi == [Next]_vars => [Wifi!Next]_wifiVars
  <1> SUFFICES ASSUME [Next]_vars PROVE Wifi!Next \/ UNCHANGED wifiVars
    OBVIOUS
  <1>1. ASSUME Restart PROVE Wifi!Next \/ UNCHANGED wifiVars
    BY <1>1 DEF Restart, Wifi!Next
  <1>2. CASE MainStep
    <2>1. CASE WifiStarts
      BY <2>1 DEF WifiStarts, Wifi!Next
    <2>2. CASE WifiFails
      BY <1>1, <2>2 DEF WifiFails
    <2>3. CASE NvsInit \/ NvsErase \/ ConfigureLed
      BY <2>3 DEF NvsInit, NvsErase, ConfigureLed
    <2>4. CASE WifiSucceeds \/ Proceed \/ CreateSensorTask \/ CreateSenderTask
      BY <2>4 DEF WifiSucceeds, Proceed, CreateSensorTask, CreateSenderTask
    <2> QED
      BY <1>2, <2>1, <2>2, <2>3, <2>4 DEF MainStep
  <1>3. CASE BackgroundStep
    BY <1>3 DEF BackgroundStep, WifiRuns, DriverStep, Wifi!Next, Wifi!DriverStep
  <1>4. CASE Blink \/ AccessPointChanges
    BY <1>4 DEF Blink, AccessPointChanges
  <1>5. CASE Fail
    BY <1>1, <1>5 DEF Fail
  <1>6. CASE UNCHANGED vars
    BY <1>6 DEF vars
  <1> QED
    BY <1>2, <1>3, <1>4, <1>5, <1>6 DEF Next

(* app_main uses the Wi-Fi manager as WifiManager describes it             *)
(* (app_main.c:38), over any number of boots.                              *)
THEOREM WifiIsUsedWell == Spec => UsesWifiWell
  <1>1. Init => Wifi!Init
    BY DEF Init
  <1>2. [Next]_vars => [Wifi!Next]_(Wifi!vars)
    BY StepUsesWifi DEF Wifi!vars, wifiVars
  <1> QED
    BY <1>1, <1>2, PTL DEF Spec, UsesWifiWell, Wifi!Spec

(* The manager seen through its proofs is the one the device uses.         *)
LEMMA SameManager == Wifi!Spec => W!Spec
  <1>1. Wifi!Init => W!Init
    BY DEF Wifi!Init, W!Init
  <1>3. Wifi!MainStep => W!MainStep
    BY DEF Wifi!MainStep, Wifi!Start, Wifi!WaitBits, Wifi!Return, Wifi!HasRoom,
           Wifi!Satisfied, Wifi!LeftAfter,
           W!MainStep, W!Start, W!WaitBits, W!Return, W!HasRoom,
           W!Satisfied, W!LeftAfter
  <1>4. Wifi!HandleEvent => W!HandleEvent
    BY DEF Wifi!HandleEvent, Wifi!OnStart, Wifi!OnDisconnected, Wifi!OnGotIp,
           Wifi!SetBit, Wifi!NoBit, Wifi!Connecting, Wifi!MayRetry,
           Wifi!Satisfied, Wifi!LeftAfter,
           W!HandleEvent, W!OnStart, W!OnDisconnected, W!OnGotIp,
           W!SetBit, W!NoBit, W!Connecting, W!MayRetry, W!Satisfied, W!LeftAfter
  <1>5. Wifi!HandleByDefault => W!HandleByDefault
    BY DEF Wifi!HandleByDefault, Wifi!InterfaceAfter, Wifi!StartsIpLostTimer,
           W!HandleByDefault, W!InterfaceAfter, W!StartsIpLostTimer
  <1>6. Wifi!DriverStep => W!DriverStep
    BY DEF Wifi!DriverStep, Wifi!Associate, Wifi!Disconnect, Wifi!HasRoom,
           W!DriverStep, W!Associate, W!Disconnect, W!HasRoom
  <1>7. Wifi!DhcpStep => W!DhcpStep
    BY DEF Wifi!DhcpStep, Wifi!AnswerArrives, Wifi!LoseAddress, Wifi!SameAddress,
           Wifi!LongBound, Wifi!Lease, Wifi!AfterLease, Wifi!HasRoom, Wifi!Range,
           W!DhcpStep, W!AnswerArrives, W!LoseAddress, W!SameAddress,
           W!LongBound, W!Lease, W!AfterLease, W!HasRoom, W!Range
  <1>8. Wifi!OtherEventStep => W!OtherEventStep
    BY DEF Wifi!OtherEventStep, Wifi!PostOther, Wifi!IpLost, Wifi!HandleOther,
           Wifi!OnlyOthers, Wifi!MayWait, Wifi!HasRoom,
           W!OtherEventStep, W!PostOther, W!IpLost, W!HandleOther,
           W!OnlyOthers, W!MayWait, W!HasRoom
  <1>9. Wifi!Reboot => W!Reboot
    BY DEF Wifi!Reboot, W!Reboot
  <1>10. Wifi!Next => W!Next
    BY <1>3, <1>4, <1>5, <1>6, <1>7, <1>8, <1>9
    DEF Wifi!Next, Wifi!EventLoopStep, W!Next, W!EventLoopStep
  <1>11. [Wifi!Next]_(Wifi!vars) => [W!Next]_(W!vars)
    BY <1>10 DEF Wifi!vars, W!vars
  <1> QED
    BY <1>1, <1>11, PTL DEF Wifi!Spec, W!Spec
-----------------------------------------------------------------------------
(* What app_main adds: where it is tells what it has done in this boot.    *)
OwnTypes ==
  /\ stage \in Stages
  /\ tasks \in SUBSET {"sensor", "sender"}
  /\ nvs \in {"ready", "erased", "full"}
  /\ stage \notin {"nvs", "nvs_again"} => nvs = "ready"
  /\ led \in {"on", "off"}
  /\ ap \in BOOLEAN
  /\ failures \in 0..MaxFailures

Connected == {"delay", "sync", "create", "loop"}

BootInv ==
  /\ main = "woken" => wakeBits \subseteq bits
  /\ main = "ok" => "CONNECTED" \in bits
  /\ stage \in Connected => "CONNECTED" \in bits
  /\ tasks # {} => stage \in {"create", "loop"}
  /\ stage \notin {"nvs", "nvs_again", "led"} /\ "sender" \notin tasks => led = "off"

(* What the manager and the tasks around it do to the bits: nothing clears *)
(* them but a restart.                                                     *)
BitsOnlyGrow ==
  /\ bits \subseteq bits'
  /\ main' = "woken" /\ main # "woken" => wakeBits' \subseteq bits'
  /\ main' = "woken" /\ main = "woken" => wakeBits' = wakeBits
  /\ main' = "ok" /\ main # "ok" => main = "woken" /\ "CONNECTED" \in wakeBits

LEMMA WifiRunsGrow == Wifi!MainStep \/ WifiRuns \/ DriverStep => BitsOnlyGrow
  <1> SUFFICES ASSUME Wifi!MainStep \/ WifiRuns \/ DriverStep PROVE BitsOnlyGrow
    OBVIOUS
  <1> USE DEF BitsOnlyGrow
  <1>1. ASSUME NEW b, Wifi!SetBit(b) PROVE BitsOnlyGrow
    BY <1>1 DEF Wifi!SetBit, Wifi!LeftAfter
  <1>2. ASSUME Wifi!NoBit PROVE BitsOnlyGrow
    BY <1>2 DEF Wifi!NoBit
  <1>3. CASE Wifi!MainStep
    BY <1>3 DEF Wifi!MainStep, Wifi!Start, Wifi!WaitBits, Wifi!Return, Wifi!LeftAfter
  <1>4. CASE WifiRuns
    <2>1. CASE Wifi!HandleEvent
      BY <2>1, <1>1, <1>2
      DEF Wifi!HandleEvent, Wifi!OnStart, Wifi!OnDisconnected, Wifi!OnGotIp
    <2>2. CASE Wifi!HandleByDefault \/ Wifi!DhcpStep
      BY <2>2
      DEF Wifi!HandleByDefault, Wifi!DhcpStep, Wifi!AnswerArrives,
          Wifi!LoseAddress, Wifi!SameAddress, Wifi!Lease
    <2>3. CASE Wifi!OtherEventStep
      BY <2>3
      DEF Wifi!OtherEventStep, Wifi!PostOther, Wifi!IpLost, Wifi!HandleOther,
          Wifi!OnlyOthers
    <2> QED
      BY <1>4, <2>1, <2>2, <2>3 DEF WifiRuns, Wifi!EventLoopStep
  <1>5. CASE DriverStep
    BY <1>5 DEF DriverStep, Wifi!Associate, Wifi!Disconnect
  <1> QED
    BY <1>3, <1>4, <1>5

LEMMA InitBoots == Init => OwnTypes /\ BootInv
  BY DeviceAssumption
  DEF Init, Wifi!Init, OwnTypes, BootInv, Stages, Connected

LEMMA RestartBoots ==
  ASSUME OwnTypes, Restart, led' \in {led, "off"}, failures' \in 0..MaxFailures
  PROVE  OwnTypes' /\ BootInv'
  <1>1. main' = "init" /\ stage' = "nvs" /\ tasks' = {} /\ ap' = ap /\ nvs' = nvs
    BY DEF Restart, Wifi!Reboot, wifiVars
  <1>2. ap' \in BOOLEAN
    BY <1>1 DEF OwnTypes
  <1> QED
    BY <1>1, <1>2 DEF OwnTypes, BootInv, Stages, Connected

LEMMA NextBoots == OwnTypes /\ BootInv /\ [Next]_vars => OwnTypes' /\ BootInv'
  <1> SUFFICES ASSUME OwnTypes, BootInv, [Next]_vars PROVE OwnTypes' /\ BootInv'
    OBVIOUS
  <1>1. CASE MainStep
    <2>1. CASE NvsInit \/ NvsErase \/ ConfigureLed
      BY <2>1 DEF NvsInit, NvsErase, ConfigureLed, Erased, AfterErase, OwnTypes,
                  BootInv, Stages, Connected, wifiVars
    <2>2. CASE WifiStarts
      BY <2>2, WifiRunsGrow
      DEF WifiStarts, BitsOnlyGrow, OwnTypes, BootInv, Connected
    <2>3. CASE WifiSucceeds
      BY <2>3 DEF WifiSucceeds, OwnTypes, BootInv, Stages, Connected, wifiVars
    <2>4. CASE WifiFails
      BY <2>4, RestartBoots DEF WifiFails, OwnTypes
    <2>5. CASE Proceed \/ CreateSensorTask \/ CreateSenderTask
      BY <2>5 DEF Proceed, CreateSensorTask, CreateSenderTask, OwnTypes, BootInv,
                  Stages, Connected, wifiVars
    <2> QED
      BY <1>1, <2>1, <2>2, <2>3, <2>4, <2>5 DEF MainStep
  <1>2. CASE BackgroundStep
    BY <1>2, WifiRunsGrow
    DEF BackgroundStep, BitsOnlyGrow, OwnTypes, BootInv, Connected
  <1>3. CASE Blink
    BY <1>3 DEF Blink, OwnTypes, BootInv, Connected, wifiVars
  <1>4. CASE AccessPointChanges
    BY <1>4 DEF AccessPointChanges, OwnTypes, BootInv, Connected, wifiVars
  <1>5. CASE Fail
    <2>1. failures' \in 0..MaxFailures
      BY <1>5, DeviceAssumption DEF Fail, OwnTypes
    <2> QED
      BY <1>5, <2>1, RestartBoots DEF Fail
  <1>6. CASE UNCHANGED vars
    BY <1>6 DEF vars, wifiVars, OwnTypes, BootInv, Connected
  <1> QED
    BY <1>1, <1>2, <1>3, <1>4, <1>5, <1>6 DEF Next

LEMMA Boots == Spec => [](OwnTypes /\ BootInv)
  BY InitBoots, NextBoots, PTL DEF Spec

(* The variables of the device and of the Wi-Fi manager in it stay in      *)
(* their types over any number of boots, the bounds on retries and losses  *)
(* included.                                                               *)
THEOREM TypeCorrect == Spec => []TypeOK
  <1>1. /\ WIFI_MAX_RETRY \in Nat /\ EVENT_QUEUE_SIZE \in Nat \ {0}
        /\ OTHER_EVENTS \in Nat
    BY DeviceAssumption
  <1>2. W!Spec => []W!TypeOK
    BY <1>1, W!TypeCorrect
  <1>3. W!TypeOK /\ OwnTypes => TypeOK
    BY DEF W!TypeOK, W!Bits, W!Events, Wifi!TypeOK, Wifi!Bits, Wifi!Events,
           OwnTypes, TypeOK
  <1> QED
    BY <1>2, <1>3, WifiIsUsedWell, SameManager, Boots, PTL DEF UsesWifiWell

(* A task runs only in a boot in which the station has had an address      *)
(* (app_main.c:38 before 47-63).                                           *)
THEOREM TasksWaitForAddress == Spec => []TasksNeedAddress
  <1>1. BootInv => TasksNeedAddress
    BY DEF BootInv, TasksNeedAddress, Connected
  <1> QED
    BY <1>1, Boots, PTL

(* While the device starts its LED is dark, whatever it was doing when it  *)
(* restarted (status_led.c:21).                                            *)
THEOREM StartIsDark == Spec => []LedIsDarkAtStart
  <1>1. BootInv => LedIsDarkAtStart
    BY DEF BootInv, LedIsDarkAtStart
  <1> QED
    BY <1>1, Boots, PTL

(* What is proved of the Wi-Fi manager holds from one boot to the next,    *)
(* with app_main behind it (app_main.c:38): the station is never driven    *)
(* twice, never forgotten and not given up early, the interface follows    *)
(* it, four places of the event queue are enough for the events that       *)
(* matter, and with four places more than the other events take no address *)
(* goes unreported.                                                        *)
THEOREM WifiKeepsItsPromises ==
  Spec => /\ []Wifi!OneDriver
          /\ []Wifi!InterfaceFollowsRadio
          /\ []Wifi!QueueStaysShort
          /\ Wifi!GivesUpLate
          /\ EVENT_QUEUE_SIZE >= 4 + OTHER_EVENTS => []Wifi!AddressIsReported
  <1>1. /\ WIFI_MAX_RETRY \in Nat /\ EVENT_QUEUE_SIZE \in Nat \ {0}
        /\ OTHER_EVENTS \in Nat
    BY DeviceAssumption
  <1>2. Spec => W!Spec
    BY WifiIsUsedWell, SameManager DEF UsesWifiWell
  <1>3. W!Spec => /\ []W!OneDriver
                  /\ []W!InterfaceFollowsRadio
                  /\ []W!QueueStaysShort
                  /\ W!GivesUpLate
    BY <1>1, W!StationHasOneDriver, W!InterfaceCatchesUp, W!QueueIsShort,
       W!StationIsGivenUpLate
  <1>4. EVENT_QUEUE_SIZE >= 4 + OTHER_EVENTS => (W!Spec => []W!AddressIsReported)
    BY <1>1, W!AddressGetsReported
  <1>5. W!OneDriver => Wifi!OneDriver
    BY DEF W!OneDriver, W!Prompting, W!Prompts, W!GivenUp,
           Wifi!OneDriver, Wifi!Prompting, Wifi!Prompts, Wifi!GivenUp
  <1>6. W!InterfaceFollowsRadio => Wifi!InterfaceFollowsRadio
    BY DEF W!InterfaceFollowsRadio, W!Quiet, Wifi!InterfaceFollowsRadio, Wifi!Quiet
  <1>7. W!QueueStaysShort => Wifi!QueueStaysShort
    BY DEF W!QueueStaysShort, Wifi!QueueStaysShort
  <1>8. W!AddressIsReported => Wifi!AddressIsReported
    BY DEF W!AddressIsReported, W!Quiet, Wifi!AddressIsReported, Wifi!Quiet
  <1>9. W!GivesUpLate => Wifi!GivesUpLate
    <2>1. [~W!GivenUp /\ W!GivenUp' => losses' = WIFI_MAX_RETRY + 1]_W!vars
            => [~Wifi!GivenUp /\ Wifi!GivenUp'
                  => losses' = WIFI_MAX_RETRY + 1]_Wifi!vars
      BY DEF W!GivenUp, Wifi!GivenUp, W!vars, Wifi!vars
    <2> QED
      BY <2>1, PTL DEF W!GivesUpLate, Wifi!GivesUpLate
  <1> QED
    BY <1>2, <1>3, <1>4, <1>5, <1>6, <1>7, <1>8, <1>9, PTL
=============================================================================
