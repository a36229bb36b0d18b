-------------------------------- MODULE Device --------------------------------
(***************************************************************************)
(* The device from one boot to the next: app_main (main/app_main.c), the   *)
(* Wi-Fi manager it waits for (WifiManager, as it stands), the LED strip,  *)
(* the flash partition of NVS, and an access point that comes and goes.    *)
(* Every ESP_ERROR_CHECK that fails restarts the chip.  A restart loses    *)
(* RAM; the partition, the access point and, unless the power was cut, the *)
(* colour of the LED outlive it.                                           *)
(***************************************************************************)
EXTENDS Naturals, Sequences, FiniteSets, Functions

CONSTANTS
  WIFI_MAX_RETRY, EVENT_QUEUE_SIZE, OTHER_EVENTS,  \* see WifiManager
  MaxFailures  \* bound: restarts other than those for want of a network

ASSUME DeviceAssumption ==
  /\ WIFI_MAX_RETRY \in Nat
  /\ EVENT_QUEUE_SIZE \in Nat \ {0}
  /\ OTHER_EVENTS \in Nat
  /\ MaxFailures \in Nat

VARIABLES
  main, wakeBits, bits, wifi_connect_retries, events, handling, radio, dhcp,
  losses, others, ip_lost_timer,  \* see WifiManager
  stage,     \* where app_main is
  tasks,     \* the tasks it has created
  nvs,       \* the partition: ready, erased, or full (an old version as well)
  led,       \* the status LED
  ap,        \* the access point is there
  failures   \* restarts so far, other than for want of a network

wifiVars == <<main, wakeBits, bits, wifi_connect_retries, events, handling,
              radio, dhcp, losses, others, ip_lost_timer>>
vars == <<wifiVars, stage, tasks, nvs, led, ap, failures>>

Wifi == INSTANCE WifiManager

Stages == {"nvs", "nvs_again", "led", "wifi", "delay", "sync", "create", "loop"}

Init ==
  /\ Wifi!Init
  /\ stage = "nvs"
  /\ tasks = {}
  /\ nvs \in {"ready", "full"}
  /\ led = "off"
  /\ ap \in BOOLEAN
  /\ failures = 0
-----------------------------------------------------------------------------
(* app_main, in the order of its lines.                                    *)

(* nvs_flash_init formats an erased partition.                             *)
NvsInit ==
  /\ stage \in {"nvs", "nvs_again"}
  /\ nvs # "full"
  /\ nvs' = "ready"
  /\ stage' = "led"
  /\ UNCHANGED <<wifiVars, tasks, led, ap, failures>>

(* Without free pages it is erased and initialised again.  Slips: it is    *)
(* not erased; it is not initialised again.                                *)
ErasedNothing == nvs
Erased == "erased"
AfterEraseOnward == "led"
AfterErase == "nvs_again"

NvsErase ==
  /\ stage = "nvs"
  /\ nvs = "full"
  /\ nvs' = Erased
  /\ stage' = AfterErase
  /\ UNCHANGED <<wifiVars, tasks, led, ap, failures>>

(* configure_led and aht20_i2c_setup.  Slip: the strip is not cleared.     *)
ConfigureLedOnly ==
  /\ stage = "led"
  /\ stage' = "wifi"
  /\ UNCHANGED <<wifiVars, tasks, nvs, led, ap, failures>>
ConfigureLed ==
  /\ stage = "led"
  /\ led' = "off"
  /\ stage' = "wifi"
  /\ UNCHANGED <<wifiVars, tasks, nvs, ap, failures>>

(* wifi_manager_start runs.                                                *)
WifiStarts ==
  /\ stage = "wifi"
  /\ Wifi!MainStep
  /\ UNCHANGED <<stage, tasks, nvs, led, ap, failures>>

WifiSucceeds ==
  /\ stage = "wifi"
  /\ main = "ok"
  /\ stage' = "delay"
  /\ UNCHANGED <<wifiVars, tasks, nvs, led, ap, failures>>

Restart ==
  /\ Wifi!Reboot \/ (main = "init" /\ UNCHANGED wifiVars)
  /\ stage' = "nvs"
  /\ tasks' = {}
  /\ UNCHANGED <<nvs, ap>>

(* Slips: the result is not checked; the manager is started once more.     *)
WifiFailsUnchecked ==
  /\ stage = "wifi"
  /\ main = "fail"
  /\ stage' = "delay"
  /\ UNCHANGED <<wifiVars, tasks, nvs, led, ap, failures>>
WifiFailsStartsAgain ==
  /\ stage = "wifi"
  /\ main = "fail"
  /\ main' = "init"
  /\ UNCHANGED <<wakeBits, bits, wifi_connect_retries, events, handling, radio,
                 dhcp, losses, others, ip_lost_timer, stage, tasks, nvs, led, ap,
                 failures>>

(* ESP_ERROR_CHECK of ESP_FAIL.                                            *)
WifiFails ==
  /\ stage = "wifi"
  /\ main = "fail"
  /\ Restart
  /\ UNCHANGED <<led, failures>>

(* The two seconds, then sync_time, which returns either way (TimeSync).   *)
Proceed ==
  /\ \/ stage = "delay" /\ stage' = "sync"
     \/ stage = "sync" /\ stage' = "create"
  /\ UNCHANGED <<wifiVars, tasks, nvs, led, ap, failures>>

CreateSensorTask ==
  /\ stage = "create"
  /\ tasks = {}
  /\ tasks' = {"sensor"}
  /\ UNCHANGED <<wifiVars, stage, nvs, led, ap, failures>>

CreateSenderTask ==
  /\ stage = "create"
  /\ tasks = {"sensor"}
  /\ tasks' = {"sensor", "sender"}
  /\ stage' = "loop"
  /\ UNCHANGED <<wifiVars, nvs, led, ap, failures>>

MainStep ==
  NvsInit \/ NvsErase \/ ConfigureLed \/ WifiStarts \/ WifiSucceeds \/ WifiFails
    \/ Proceed \/ CreateSensorTask \/ CreateSenderTask
-----------------------------------------------------------------------------
(* The tasks beside it.                                                    *)
WifiRuns == Wifi!EventLoopStep \/ Wifi!DhcpStep \/ Wifi!OtherEventStep

(* The driver finds the access point, or misses it.                        *)
DriverStep == (ap /\ Wifi!Associate) \/ (~ap /\ Wifi!Disconnect)

BackgroundStep ==
  /\ WifiRuns \/ DriverStep
  /\ UNCHANGED <<stage, tasks, nvs, led, ap, failures>>

(* The sender task, at work on a reading or done with it.                  *)
Blink ==
  /\ "sender" \in tasks
  /\ led' \in {"on", "off"} \ {led}
  /\ UNCHANGED <<wifiVars, stage, tasks, nvs, ap, failures>>

(* The access point goes, or comes back.                                   *)
AccessPointChanges ==
  /\ ap' = ~ap
  /\ UNCHANGED <<wifiVars, stage, tasks, nvs, led, failures>>

(* Any other check or assert that fails, here or in a task, a panic, or a  *)
(* sender task without a socket; and a power cut, which darkens the LED.   *)
Fail ==
  /\ failures < MaxFailures
  /\ failures' = failures + 1
  /\ Restart
  /\ led' \in {led, "off"}

Next == MainStep \/ BackgroundStep \/ Blink \/ AccessPointChanges \/ Fail

Spec == Init /\ [][Next]_vars

(* The main task and the tasks behind the Wi-Fi manager run, with what     *)
(* WifiManager asks of an attempt to connect and of the DHCP server.       *)
FairSpec ==
  /\ Spec
  /\ WF_vars(MainStep)
  /\ WF_vars(Wifi!EventLoopStep /\ BackgroundStep)
  /\ WF_vars(radio = "connecting" /\ DriverStep /\ BackgroundStep)
  /\ WF_vars(dhcp = "asking" /\ Wifi!AnswerArrives /\ BackgroundStep)
  /\ WF_vars(Wifi!Lease /\ BackgroundStep)
-----------------------------------------------------------------------------
TypeOK ==
  /\ Wifi!TypeOK
  /\ stage \in Stages
  /\ tasks \in SUBSET {"sensor", "sender"}
  /\ nvs \in {"ready", "erased", "full"}
  /\ stage \notin {"nvs", "nvs_again"} => nvs = "ready"
  /\ led \in {"on", "off"}
  /\ ap \in BOOLEAN
  /\ failures \in 0..MaxFailures

(* A task runs only in a boot in which the station has had an address,     *)
(* whatever became of it since (app_main.c:38 before 47-63).               *)
TasksNeedAddress == tasks # {} => "CONNECTED" \in bits

(* A restart in the middle of an exchange does not leave the LED on while  *)
(* the device starts, however long it takes to find its access point       *)
(* (status_led.c:21).                                                      *)
LedIsDarkAtStart ==
  stage \notin {"nvs", "nvs_again", "led"} /\ "sender" \notin tasks => led = "off"

(* app_main is a user of the Wi-Fi manager as WifiManager describes it:    *)
(* what is shown there holds from one boot to the next.                    *)
UsesWifiWell == Wifi!Spec

(* However often the device restarts for want of its access point, and     *)
(* whatever state the partition was in: once the access point stays, the   *)
(* start succeeds and no further restart is for want of a network          *)
(* (app_main.c:38).  From then on the interface keeps its address, lets it *)
(* go only for as long as the lease is asked for anew, or the station had  *)
(* already been given up behind the back of the tasks (wifi_manager.c:33). *)
(* Restarts for any other reason are finitely many here (MaxFailures): a   *)
(* device that keeps failing an assert of its own starts again for ever.   *)
Leased == dhcp \in {"answered", "bound", "expired"}
BootLoopEnds == <>[]ap => <>[](stage = "loop" /\ (Leased \/ Wifi!GivenUp))
=============================================================================
