# Verification of the ESP32 temperature and humidity sensor

TLA+ specifications of the firmware in `main/`, the TLC configurations that
check them on small instances, and proofs of their central properties for every
instance.

## The system

The firmware is some 560 lines of C in `main/`; everything under
`components/components/` is ESP-IDF 5.4, third-party code, and is considered
only where the firmware relies on it.

| Part | State it keeps | Operations | Talks to |
|---|---|---|---|
| start-up, `app_main.c` | the message queue handle | initialise NVS, LED, I2C, Wi-Fi, clock; create the two tasks; any failed `ESP_ERROR_CHECK` restarts the chip | all parts, by calls |
| Wi-Fi manager, `wifi_manager.c` | `wifi_event_group`, `wifi_connect_retries` | `wifi_manager_start`, `wifi_is_connected`, the event handler | event loop task (callbacks), Wi-Fi driver, DHCP client |
| time synchronisation, `time_sync.c` | the system clock | `sync_time` | SNTP client in lwIP's task |
| sensor task, `aht20_sensor.c` | the reading in hand | measure, send to the queue, sleep | AHT20 driver (calls), message queue |
| AHT20 driver, `aht.c` | none between calls (but see its command links) | trigger, wait, read status, read and check data, convert | I2C bus |
| sender task, `data_server.c` | the reading in hand, attempts, acknowledged or not, the socket | take from the queue, encode, connect, send, wait for a reply, retry, sleep | message queue, UDP server, status LED |
| status LED, `status_led.c` | on or off | on, off | sender task |

The sensor task is pinned to core 0, the sender task to core 1; they share one
queue of `QUEUE_LENGTH` = 1 readings. The event loop task, the Wi-Fi driver's
task and lwIP's task run beside them.

What is hard: the two tasks meet only in the queue, at any point of an exchange
that can last `UDP_MAX_ATTEMPTS` timeouts; messages carry no number, so a late
reply cannot be told from a prompt one; the socket keeps late replies across
readings, and a new socket on the same port gets those of the life before a
restart; Wi-Fi events are handled after the fact, by two handlers in turn, while
the driver and DHCP go on posting; the main task waits without a timeout. What
makes each part correct is stated next to its module below. `PROJECT.json` lists
every hazard at its line with the properties that would catch it.

## Modules

| Module | Models | Extends / composes |
|---|---|---|
| `Courier` | what delivery promises: readings in order, one at a time, one final verdict each | abstract specification |
| `DataServer` | the sender task, its socket's receive side, the network and the server | implements `Courier` |
| `SensorTask` | the sensor task | |
| `Sampling` | the sensor task with the driver inside it | extends `Aht20Driver`, instantiates `SensorTask` |
| `Telemetry` | both tasks on their queue | instantiates `SensorTask` and `DataServer` |
| `TimedTelemetry` | both tasks and their queue against the clock | |
| `Aht20Driver` | the AHT20 driver, the sensor, the heap it allocates from | |
| `Aht20Raw` | the layout of the two raw values in the data bytes | |
| `Aht20Frame` | the driver's CRC and unpacking on seven bytes | extends `Aht20Raw` |
| `TimeSync` | `sync_time`, the storage it shares with the SNTP client, the client, the system clock | |
| `WifiManager` | the event handler, `wifi_manager_start`, the event loop, the station, the interface with DHCP | |
| `Device` | `app_main` from boot to boot, NVS, LED, access point | instantiates `WifiManager` and implements its specification |
| `DataServerProofs`, `TelemetryProofs`, `WifiManagerProofs`, `Aht20DriverProofs`, `Aht20FrameProofs`, `TimeSyncProofs`, `TimedTelemetryProofs`, `DeviceProofs` | theorems about the module of that name | extend it |
| `MC...` | instances for TLC | |

Definitions marked *Slip* in a comment are not part of any specification: they
are plausible mistakes in the definition that follows them. Put in its place,
they break the property named for them in `PROJECT.json`, which shows that the
property depends on that code.

### DataServer

`pc` follows `send_data_to_server`: `socket` (l. 35-59), `poll` (63), `connect`
(65-100), `attempt` (the loop condition, 102), `recv` (108), `finish` (134-136),
`sleep` (139). `recorded_data`, `udp_attempts` and `udp_sent` are the C
variables; `led` is the strip; `recvmbox` is the mailbox lwIP keeps for the
socket. `toServer` and `toDevice` hold what is on the wire. `served`, `outcome`,
`ackedBy` and `timeouts` are history the code does not keep: `outcome` is what
the task logs about a reading, `ackedBy` the datagram whose reply it took for
the acknowledgement. Messages on the wire have no numbers; the model gives each
the reading and the attempt it belongs to so that properties can speak of them,
and no action of the device reads them.

Abstracted: the values of a reading, its encoding and its time; the result of
`bind` (it can only fail when the port is in use, which nothing else here does);
durations. A reply is a text; replies are taken to fit the buffer they are read
into. `sendto` may fail silently, since its result is not used. `Restart` is a
power cycle or a panic of any task: RAM, queue and socket are lost, the wire and
the server are not. `Offer` stands for the sensor task; `Telemetry` replaces it
by the real one and shows that the real one is among the behaviours of `Offer`.

### SensorTask and Telemetry

`sensor` follows `read_aht20`: `measure` (l. 15), `send` (17), `sleep` (28). A
measurement succeeds or fails. `xQueueSend` puts the reading into the queue if
there is room now or within 10 ticks; since FreeRTOS looks for room before it
looks at the clock, it fails only while the queue is full. How long everything
takes is the subject of `TimedTelemetry`.

### Sampling

The call that `SensorTask` takes as one step, made of the steps of `Aht20Driver`:
`calling` is true from line 15 to the test of what the call returned. `data_out`
is the one buffer of `read_aht20`, which keeps what an earlier call left in it.
The queue's other end (`Dequeue`) takes a reading at any time or never. A restart
comes from an assert of the driver or from anywhere else, in the middle of a
measurement too. Whether the CRC agrees is a free choice here. The steps are those
of `Aht20Driver` and `SensorTask`, so what is shown of the driver
alone holds in the task (`DriverIsUsedWell`).

### WifiManager

`events` and `others` together are the queue of the default event loop. `events`
has, in order, the four kinds of event that a handler acts on. `others` counts the
rest: every other report of the driver, which reaches the handler because it is
registered for `ESP_EVENT_ANY_ID` (l. 60) and matches none of its branches, and
IP_EVENT_STA_LOST_IP, which lwIP posts two minutes after an address went away
without coming back (`ip_lost_timer`, `esp_netif_lwip.c` 1318-1320, 1325-1381;
started also when the interface goes down and when DHCP starts). They take room,
and lwIP's are lost when there is none. Where one stands between the four kinds is
left open, since it changes nothing but its own place: `HandleOther` may take it at
any turn. `OTHER_EVENTS` bounds how many wait at one time; the code has no such
bound (see the bounds below). `handling` is the event whose
second (default) handler has still to run: handlers registered for a whole event
base, such as this one, run first. `radio` is the station as the driver knows it,
`dhcp` the interface and its DHCP client (`answered`: the answer has been
received, the event not yet posted; `expired`: the lease ran out, the address is
gone and the client asks again). An address that comes back unchanged posts
nothing (`SameAddress`, `esp_netif_lwip.c` 1316). `main` is where `app_main` is in
`wifi_manager_start`; `wakeBits` is what `xEventGroupWaitBits` returns, the bits
at the moment the waiter was released. `losses` is history. Assumed of the
driver: `esp_wifi_connect` starts an attempt when the station is idle, and an
attempt ends in STA_CONNECTED or STA_DISCONNECTED. Assumed of DHCP: a lease that
brings another address, or ends, does so only after the previous one's event was
handled (leases last minutes at least).

### Aht20Driver

`pc` follows `aht20_read_measures`: `trigger` (l. 92), `delay` (94), `status`
(96), `data` (101), and `idle` between calls. Each of the three transactions is
two steps: the command link is built (`BuildLink`, or `AssertFails` when the heap
has no room: every append is asserted), then `i2c_master_cmd_begin` runs it with
any of its outcomes and the link is deleted. A transaction that fails may still
have reached the sensor. Heap memory is counted in blocks, one per allocation:
the descriptor and the nodes of the `i2c_master_*` calls. A read that ends in a
NACK and is longer than one byte takes two nodes (`ReadNodes`, `i2c.c` 1335-1365),
so the seven data bytes take six blocks, as the trigger does, and the status byte
five. `made` counts the handles of line 81. A failed assert restarts the device with an empty heap, and so does a
panic of another task (`Restart`); the sensor keeps its power and goes on with
what it was told.

`chip` is the sensor. A measurement bears the number of the call that triggered
it, so that `ReadingIsFresh` can say that a reading handed out was measured for
this call and not for one that failed before. Assumed of the sensor: a trigger
while it measures begins a new measurement. The status byte is not protected by
the CRC; `misled` says that it was read wrong, or that the sensor lost its power
after the trigger, the only two ways to an old reading.

### Aht20Raw and Aht20Frame

`Aht20Frame` runs `aht20_calc_crc` over the bytes, one `AddByte` per turn of its
outer loop, and compares. The reference is not the code's shift register: the
sensor's check byte is the remainder of a division by x^8 + x^5 + x^4 + 1,
computed on sequences of bits. Between sensor and driver lies a burst of up to
eight disturbed bits anywhere in the frame, the check byte included; what of it
would lie behind the last byte is lost. Bits, exclusive or and the eight turns of
the inner loop are plain functions on vectors of eight bits, without folds or
recursion, so that `Aht20FrameProofs` can reason about them. `Aht20Raw` has the unpacking of lines 104-117 against the layout of the data sheet that
these lines imply. The scaling to percent and degrees is left out.

### TimeSync

`main` follows `sync_time` and, inside it, `esp_netif_sntp_deinit` statement by
statement, since that is where it can meet an answer: `deinit` (`s_storage` set
to NULL), `unhook`, `stop`, `delete`. `net` follows the TCP/IP thread through the
callbacks of an answer, one test and one use of shared state at a time
(`sntp_sync_time`, then `sync_time_cb`). `sntp_stop` is run by the TCP/IP thread
itself, between two callbacks, while the main task waits (`esp_netif_tcpip_exec`),
which is what makes `NoUseAfterFree` hold. The pointer `s_storage` is taken to be
loaded once for each `if` of `sync_time_cb`: the compiler has no reason to load it
again between the test and the call. `sntp` is the client: its socket, its two
timers, its DNS query. `clock` is `right`, `near` (less than the 35 minutes
`adjtime` accepts) or `far`; `slewing` says that `adjtime` is moving it. The clock
survives a restart, so all three are possible when `sync_time` begins.

### TimedTelemetry

Both tasks again, with the time each has left where it waits; readings are known
by their age. Steps take no time, and time passes only when both tasks wait
(`Tick`): what the other tasks of the chip take from their cores is ignored.
`recorded` and `stamped` are the age of the reading in hand and the age it had
when `now` was read for it. `READ_SENSOR_SECONDS` is a variable that is chosen once
from `SensorPeriods` and never changes, so one run looks at a device whose sender
keeps up and at one whose sender does not. Nothing is bounded: the state space is
finite because waits are.

### Device

`stage` follows `app_main`: `nvs`, `nvs_again` (l. 28), `led` (36-37), `wifi`
(38), `delay` (42), `sync` (45), `create` (47-63), `loop`. The variables of
`WifiManager` are its own, and while `stage` is `wifi` its main task runs; its
event loop and DHCP go on for ever, the driver depending on whether the access
point is there. A restart is `WifiManager`'s `Reboot` with `stage` back at `nvs`;
the NVS partition, the access point and the LED outlive it. `Fail` is any other
restart: a failed `ESP_ERROR_CHECK`, assert or `exit`, a panic in a task, a power
cut. `sync_time` is one step here, since it returns either way (`TimeSync`), and
the tasks are only whether they exist and what they do to the LED. `xQueueCreate`
and `xTaskCreatePinnedToCore`, whose results the code ignores, are taken to
succeed.

## What the runs check

Passing runs:

| Run | Bounds | Question |
|---|---|---|
| `sender` | 2 readings, 2 attempts, queue 1, mailbox 2, a restart, a duplicated message, replies that are not ACK | Does the sender implement `Courier`? Is an acknowledgement ever invented (`AckIsBacked`), or used for two readings (`AckUsedOnce`)? How many readings can be reported as sent that the server never gets (`SilentLossBound`)? Is "Data sent successfully" true as long as no wait timed out (`PromptNetworkIsHonest`)? Does every exchange end (`LedGoesOff`)? |
| `telemetry` | 3 readings, queue 2, a restart | Is every reading in exactly one place, in order? Is the sensor task an environment `DataServer` allows for? Can either task hold up the other for good (`EveryReadingIsSettled`)? |
| `wifi` | the code's 5 retries, event queue 7, 2 other events waiting at one time | Is the station always driven by exactly one thing, and the interface never left behind? Is every address reported, whatever else is in the queue? Does `wifi_manager_start` return? |
| `sampling` | 3 calls, a heap of 8 blocks, the code's queue of 1 | Is a reading that is handed out fresh (`ReadingIsFresh`)? Does the task take one twice from its one buffer, across failed calls and restarts (`EachReadingIsNew`)? What does a call leave on the heap, whichever way it ends (`OneBlockLostPerCall`)? Does the task always measure again, whatever sensor, bus and sender do (`TaskComesRound`)? |
| `frame` | 3 measurements, all 255 bursts at every bit of the frame | Does the shift register agree with the division, and does any burst pass? |
| `time_sync` | 3 retries | Can an answer use what `esp_netif_sntp_deinit` frees, can `sync_time` return early without one, can one touch the clock later? Does it return? |
| `timed` | intervals of 4 and 11 units, a queue of 2, 3 attempts, waits of 1 to 5 units | How old can a reading be when it is stamped? Is every reading sent on if the interval covers the sender's longest cycle? |
| `device` | the code's 5 retries, event queue 5, 1 other event waiting, 2 other restarts | Do tasks run without an address, does the LED stay on across a restart, is `WifiManager`'s specification kept from boot to boot, does the boot loop of a missing access point end when it comes back, once restarts for other reasons are over? |

Runs that end in a counterexample, each a finding:

| Run | What it shows |
|---|---|
| `sender_received` | A reply that comes after its wait timed out acknowledges the next reading, which the server may never see, although the log says "ACK received. Data sent successfully." (`data_server.c` 112-115). |
| `sender_reply` | The reply "OK" that the README suggests acknowledges nothing; the code wants "ACK". |
| `wifi_silent` | With an access point that associates but never gives an address, `wifi_manager_start` neither connects nor fails: only disconnections count as retries (`wifi_manager.c` 78). |
| `driver_memory` | The command handle created in each call (`aht.c` 81) is never deleted; the blocks add up until a transaction finds no memory and an assert restarts the device. |

Why the bounds are enough. Two readings are what a stale reply needs, in the
queue as on the wire; `telemetry` has a third, and the theorems about
`DataServer` hold for any number. Two attempts give the loop a first, a last and
a repeated pass, and the code's third only repeats the second. A mailbox of 2
fills up and drops a reply. With one restart there are messages of two lives on
the wire. The queue of 2 in `telemetry` is larger than the code's and shows that
order does not depend on its length; with three readings and one attempt it
fills up and drops one. `timeouts` needs
no bound: attempts are bounded. `MaxReading`, `MaxResets` and `MaxDuplicates` are
bounds that the code does not have.

Of the events that a handler acts on never more than four wait, which with the
other events is `QueueStaysShort`. The queue of `wifi` has one place to spare, that
of `device` none; the 32 of `sdkconfig` leave 28 for other events. How many of
those wait at one time is up to the driver, and no code in `main/` limits it:
`OTHER_EVENTS` is a bound of the model, and `AddressIsReported` a promise for
queues that have four places more than the other events ever take.

In `sampling` three calls let one fail between two others, with a measurement
under way; the largest link takes six blocks, so a heap of 8 runs out in the
third; and the queue of 1 is full when the second reading comes. In `frame` the
three measurements are both fields at their limits and one with mixed bits; the
bursts are all there, and the theorems cover every measurement. Three retries give `sync_time` a first, a middle and a last
wait; the code's 15 only repeat the middle one. `timed` takes a queue of 2 to
have a reading wait behind two exchanges, an interval of 4 that the sender cannot
follow and one of 11 that its longest cycle of 12 just allows, since a
measurement takes at least one unit; its theorems cover the rest. Two free
restarts let `Device` be interrupted at work and again in the start that follows.
`MaxCalls`, `HeapBlocks` and `MaxFailures` are bounds of the models; `HeapBlocks`
stands for the heap. The bound on `MaxFailures` matters to `BootLoopEnds`: the leak
that `driver_memory` shows restarts the device again and again, long after the
network is back.

The tasks never end, so every run checks for deadlock, except those of
`Aht20Frame` (the driver has returned) and `TimeSync` (`sync_time` has returned,
and a client that was stopped in time is silent).

## Fairness

`DataServer!FairSpec` asks only that the sender task goes on (`WF SenderStep`):
it is alone at its priority on its core and every call in it returns after a
bounded time, `recvfrom` because of `SO_RCVTIMEO`. Nothing is asked of the
network or the server. `Telemetry!FairSpec` asks the same of the sensor task.
`WifiManager!FairSpec` asks that the main task and the event loop task run, that
an attempt to connect ends, and that the DHCP client of a link that lasts gets
an answer. The last one is needed: with an access point that associates and
never gives an address, `wifi_manager_start` waits for ever, which
`FairSpecWithoutAnswer` and the run `wifi_silent` show. Nothing is asked of the DHCP
server once a lease has run out. The fairness of the event loop is about the four
kinds of event: the queue is first in, first out, so one of them waits only for the
finitely many before it, and those counted in `others` cannot hold it up for good.

`Sampling!FairSamplingSpec` asks that the sensor task goes on: each transaction
has a timeout. Nothing is asked of the sensor, the bus or the sender task. `TimeSync!FairSpec` asks that both
threads run, and strong fairness of `Stop`: the TCP/IP thread may be busy with
callbacks again and again, but it takes its messages from one queue in turn, so
the stop is run however many answers come. Nothing is asked of the server.
`Device!FairSpec` asks of the main task and of the Wi-Fi side what `WifiManager`
does; it asks nothing of the access point, and `BootLoopEnds` is about the
behaviours in which that comes back to stay and in which the restarts for other
reasons, at most `MaxFailures`, are over.

## What is proved

`DataServerProofs` proves eight theorems about `DataServer!Spec` for every value
of the constants that satisfies `DataServerAssumption` (bounds are natural
numbers, both buffers have room for something); nothing else is assumed, the
texts a server may reply included.

| Theorem | Statement | Argument |
|---|---|---|
| `TypeCorrect` | `[]TypeOK` | inductive by itself. `TypeOK` includes that an exchange has a reading in hand and that `recv` follows a transmission: without them `outcome` and `toServer` could leave their types. |
| `CourierImplemented` | `ImplementsCourier` | a step simulation under the invariant `OrderInv`: everything queued is later than the reading in hand, nothing queued has a verdict, and the reading in hand has one only when its exchange is over. `Spec` alone does not give this: from an arbitrary state a dequeued reading could have a verdict already, and the step would revise it. |
| `AcksAreBacked` | `[]AckIsBacked` | `NetworkInv`: every datagram and reply anywhere, in the mailbox too, is for a reading no later than the last one taken up, and every reply is to a datagram the server took. With `OrderInv` a reply can then not be to a later reading than the one it is taken to acknowledge. |
| `AcksAreUsedOnce` | `[]AckUsedOnce` | without duplication a datagram is in one place only, on its way, in one reply on the wire or in the mailbox, or used up (`OneCopy`); a new one is none of the old ones, because everything under way for the reading in hand bears an attempt already made (`AttemptsAreCounted`). |
| `SilentLossIsBounded` | `[]SilentLossBound` | a reading is lost before it is reported, so the inductive bound (`LossInv`) counts the reading in hand as well, once it was sent (`Missing`). Only a lost datagram costs a reading (`MissingNext`), and it is one fewer on the wire; every other step changes the two sets on the wire (`FiniteInv`) and the mailbox by at most what it adds to `timeouts`, `resets`, `duplicates` or `Awaited`. |
| `PromptAcksAreHonest` | `[]PromptNetworkIsHonest` | while nothing timed out, `LossInv` leaves nothing outstanding when a transmission starts, so all that is on the wire during a wait is about the reading in hand (`PromptInv`). |
| `ExchangesEnd` | no property of a run: what `LedGoesOff` rests on | `StepsLeft`, at most `2 * UDP_MAX_ATTEMPTS + 3`, is lowered by each step the task makes with the LED on, and left alone by network, server and sensor task. |
| `QueueMoves` | no property of a run: what `EveryReadingIsSettled` rests on | the reading at place i of the queue is `StepsAhead(i)` steps from its turn: what is left of the exchange under way and one longest cycle for each reading before it. Each step of the task lowers it, and no one else adds to it. |

`SilentLossIsBounded` and `PromptAcksAreHonest` belong together. The finding of
`sender_received` says that an acknowledgement may be stale, and one late reply
can shift every acknowledgement that follows, since the reply to the next
reading then comes when nobody waits for it any more. `SilentLossIsBounded` says
that this costs no more readings than there were timeouts, restarts and
duplications, and `PromptAcksAreHonest` that without any of them it cannot begin.

`TelemetryProofs` proves seven theorems about both tasks on their queue, under
`TelemetryAssumption` (the same bounds).

| Theorem | Statement | Argument |
|---|---|---|
| `SenderIsUsedWell` | `UsesSenderWell` | a step simulation: each step of `Telemetry` is a step of `DataServer` or leaves its variables alone. It needs `SensorInv`: the sensor task offers a reading later than all it offered before. |
| `OrderStays` | `[]OrderIsKept` | `SenderIsUsedWell` carries `TypeCorrect` and `OrderInv` of `DataServerProofs` over. |
| `ReadingsStaySomewhere` | `[]EveryReadingIsSomewhere` | that the places are distinct follows from `OrderInv` and from `DroppedForGood` (a dropped reading was never queued and comes back nowhere); that there is always one, from `LossInv`: every step but `Restart` leaves the set of readings that are nowhere (`Lost`) alone or makes it smaller (`PlacesNext`). |
| `RestartsLoseLittle` | `[](Cardinality(1..measured without the five places) <= resets * (QUEUE_LENGTH + 2))` | the other half of `LossInv`: a restart adds to `Lost` what was in the queue and in the hand of either task. |
| `SenderKeepsItsPromises` | `[]AckIsBacked`, `[]AckUsedOnce`, `[]SilentLossBound`, `[]PromptNetworkIsHonest` of `DataServer`, in the device | `SenderIsUsedWell` and `DataServerProofs`. |
| `LossIsAccountedFor` | `[](Cardinality(Unaccounted) <= resets * (QUEUE_LENGTH + 2) + (timeouts + resets + duplicates + Awaited))` | what is neither held, nor dropped, nor logged as not sent, nor on the way to the server or there, is in `Lost` or was reported and is gone; the two bounds above add up. |
| `DeviceIsACourier` | `Courier`'s specification, of both tasks together | `SenderIsUsedWell` and `CourierImplemented`. |

`LossIsAccountedFor` is the whole account of the device: from `aht20_sensor.c` 15
to the server, how many readings can vanish without a word in its log.

`WifiManagerProofs` proves seven theorems about `WifiManager!Spec` for every
number of retries and every size of the event queue (`WifiManagerAssumption`);
`AddressGetsReported` and `StartEnds` ask for a queue with four places more than
the other events take.

| Theorem | Statement |
|---|---|
| `TypeCorrect` | `[]TypeOK` |
| `StationHasOneDriver` | `[]OneDriver` |
| `StationIsGivenUpLate` | `GivesUpLate` |
| `InterfaceCatchesUp` | `[]InterfaceFollowsRadio` |
| `QueueIsShort` | `[]QueueStaysShort`, and one place less when an answer waits to be posted |
| `AddressGetsReported` | `EVENT_QUEUE_SIZE >= 4 + OTHER_EVENTS` implies `[]AddressIsReported` |
| `StartEnds` | no property of a run: what `StartReturns` rests on |

The first three follow from one inductive invariant, `DriverInv`. None of them is
inductive by itself. The bound on `losses` in `TypeOK` needs
`LossesAreCounted`: losses and retries move together until the station is given
up, and after that no disconnection can come, which is what `OneDriver` says.
`OneDriver` in turn needs `OffAtFirst` for the first event. The work is in
`HandleNext`: the queue may hold other events before and after the one prompting
event, and taking the oldest shifts its place by one (`TakePrompt`).

The next three are about events that are old when they are handled. `LinkInv`:
the last event about the link, waiting or in hand, tells where the radio is, and
the interface does once none is left. `ShapeInv` says what may wait beside what:
since an attempt begins only in the handler of a disconnection, one STA_CONNECTED
waits at most, before the event that ends its connection. With it `GotIpInv`
follows: a connection leaves at most one GOT_IP behind, so two wait at most, and
one while the DHCP client is about to post. One prompting event, one STA_CONNECTED
and two GOT_IP make four (`ShortQueue`), and three when the post comes that does
not wait for room, so a queue with four places more than the other events take
never loses it. The other events are counted apart (`OtherTypesCorrect`), and what
is done with them leaves all else alone (`OthersAlone`). A lease that runs out
changes none of this: it does so only while no GOT_IP waits.

`StartEnds` says why the wait of `wifi_manager_start` has an end although it has no
timeout (`wifi_manager.c` 78). `StepsToBit` weighs every place of the queue, the
handler, the radio and the DHCP client by the steps it can still lead to, and a
retry that is left by a whole round of ten. While the main task waits it is at most
`10 * WIFI_MAX_RETRY + 22`, and every step of the event loop, the driver or the DHCP
client lowers it or wakes the task, whatever the access point does and however late
the events are; the other events leave it as it is. Once all events are handled an
attempt is under way or DHCP is at work: only a DHCP server that never answers keeps
the task waiting. No bit can be missed on the way because of `AddressInv`, no event
because of `ShortQueue`.

`Aht20DriverProofs` proves six theorems for every heap and number of calls, the
last three about `Sampling`.

| Theorem | Statement | Argument |
|---|---|---|
| `TypeCorrect` | `[]TypeOK` | what is held fits the heap because a link is built only into free blocks; that what is given back was held needs `OneBlockLostPerCall`, so the two are proved together. |
| `LossIsOneBlockPerCall` | `[]OneBlockLostPerCall` | every step keeps the account: what it adds to `held` it adds to the link or to `made`. The theorem also says what that means for the heap: between transactions exactly the handles of line 81 are held, one for each call, and during one at most six blocks more. |
| `ReadingsAreFresh` | `[]ReadingIsFresh` | by phases (`MeasuringForThisCall`, `FreshSoFar`): once the trigger has succeeded the sensor's trigger is this call's; once the status byte was read and was true the measurement has ended, so the sample is this call's too. |
| `DriverIsUsedWell` | `SamplingSpec => Spec` | each step of the task with the driver inside it is a step of `Aht20Driver` or leaves its variables alone, so the theorems above hold in it. |
| `ReadingsAreNew` | `EachReadingIsNew` | by `ReadingsAreFresh` and `NewestInv`: a call under way is later than the newest reading taken. |
| `RoundsEnd` | no property of a run: what `TaskComesRound` rests on | once the call is made the task is at most ten steps from its next measurement (`StepsLeft`), whichever transaction fails; each of its steps is one less and nothing else that happens adds any. |

`Aht20FrameProofs` proves six theorems, for all 2^40 measurements, of which the run
takes three. `FrameAssumption` says only that a raw value has 20 bits and a burst
eight.

| Theorem | Statement | Argument |
|---|---|---|
| `UnpackInvertsPack` | what lines 104-117 make of the bytes that were sent is what was measured | arithmetic of the halves of `buf[3]`. |
| `UnpackIsBounded` | any six bytes give two values of 20 bits | the same. |
| `TypeCorrect` | `[]TypeOK` | part of `FrameInv`; that the accumulator stays a byte is `BitsOfShifted`. |
| `AcceptsWhatWasSentHolds` | `[]AcceptsWhatWasSent` | see below. |
| `UnpacksWhatWasMeasuredHolds` | `[]UnpacksWhatWasMeasured` | the former and `UnpackInvertsPack`. |
| `OddDisturbanceIsSeen` | two frames that are both accepted differ in an even number of bits | x + 1 divides the polynomial: a turn of the register keeps the parity of what it has taken in. |

The argument for the CRC. On the bits of the accumulator a turn of the inner loop
(`Turn`) is linear over exclusive or, and takes no register but zero to zero. The
sensor's long division and the driver's register go through the message together:
after each bit the eight bits of the division that come next are the register with
those bits of the dividend added that it has not taken in yet (`Same`,
`RegisterDivides`). So what was sent is accepted. For a burst, the difference of
the registers over the bytes sent and the bytes read is a register of its own. It
is zero up to the burst; the burst, no longer than the register, makes it nonzero;
no turn makes it zero again; so the check byte does not fit. `FrameInv` says of the
model's accumulator that it is that register. Nothing of it needs induction over
data: a frame has seven bytes, and the sequences of registers are compared up to a
fixed number of turns.

`TimeSyncProofs` proves five theorems for every number of retries: `TypeCorrect`,
`NothingIsUsedAfterFree`, `EarlyReturnsAreAnswers`, `ClockIsLeftAloneForGood` and
`SyncEnds`. The first four rest on one picture of where the two threads can be at
the same time: the storage is freed only after the TCP/IP thread has run
`sntp_stop`, hence between two callbacks, and without a socket no callback begins
again. `SyncEnds` is what `SyncReturns` rests on: `sync_time` is at most
`retry_count + 6` steps from its return, each is one less, and answers add none;
and the callbacks of an answer, which hold up the stop, end after six.

`TimedTelemetryProofs` proves three theorems for every period, timeout, number of
attempts and queue length (`TimesAssumption`).

| Theorem | Statement | Argument |
|---|---|---|
| `TypeCorrect` | `[]TypeOK` | inductive by itself. |
| `StampsAreBounded` | `[]StampAgeIsBounded` | `ToPoll` is how long the sender can still be until it next looks at its queue: each step leaves it or lowers it, each tick lowers it by one. The age of the reading at each place of the queue, plus what is left until the sender has worked down to it, stays below the bound. |
| `SlowSensorIsSafe` | `[]SlowSensorLosesNothing` | when the next reading comes, the sensor's own wait has outlasted `ToPoll`, so the queue has been looked at. |

`DeviceProofs` proves five theorems for every number of retries, size of the event
queue and number of restarts. `WifiIsUsedWell` is a step simulation: each step of
the device is a step of `WifiManager` or leaves its variables alone, a restart
being its `Reboot`. `TypeCorrect` and `TasksWaitForAddress` then take what
`WifiManagerProofs` shows of `WifiManager!Spec` over to the device, with the
invariant that `app_main` is past `wifi_manager_start` only when that has
returned success in this boot, and no bit is cleared before the next.
`StartIsDark` is `[]LedIsDarkAtStart`. `WifiKeepsItsPromises` takes `OneDriver`,
`GivesUpLate`, `InterfaceFollowsRadio`, `QueueStaysShort` and (with an event queue
that has four places more than the other events take) `AddressIsReported` over in
the same way.

## What is only model-checked

Of the runs' properties only the seven about liveness: `LedGoesOff`,
`EveryReadingIsSettled`, `StartReturns`, `IdleStationIsDriven`, `TaskComesRound`,
`SyncReturns` and `BootLoopEnds`. They rest on fairness, hence on when an action is
enabled, which the prover cannot reason about. What can be proved of five of them
is: that the way to the end has a bounded number of steps, that each step of the
task shortens it and that nobody else lengthens it (`ExchangesEnd` and `QueueMoves`
for the first two, `StartEnds`, `RoundsEnd`, `SyncEnds`). Left to TLC is that a task
that is not at the end can make its next step, and does. `IdleStationIsDriven` and
`BootLoopEnds` depend on what the access point does and have no such measure.

## Observations

Places where the code and what is said of it differ, and that no run is spent on;
the models have the code's behaviour.

- A reading that is never acknowledged is retried twice: `UDP_MAX_ATTEMPTS` counts
  transmissions (`data_server.c` 102), the repository's `README.md` 53 promises up
  to three retries.
- `WIFI_CONNECTED_BIT` is never cleared (`wifi_manager.c` 103), so
  `wifi_is_connected` answers true for ever after the first address. Nobody calls
  it now.
- With `smooth_sync` a correction of less than 35 minutes is made bit by bit. The
  wait of `sync_time` ends with `ESP_ERR_NOT_FINISHED` while the clock is still off
  (`time_sync.c` 27), although `time_sync.h` 12 says that it blocks until the time
  has been set; `EarlyReturnMeansAnswer` says what an early return does mean.
- `sntp_stop` does not withdraw a DNS query (`lwip/src/apps/sntp/sntp.c` 694); its
  answer sets the timers of the stopped client, which then goes on without a
  socket. `ClockIsLeftAlone` shows that this does the clock no harm.
- The time in a message is that at which the reading left the queue
  (`data_server.c` 73). `StampAgeIsBounded` says how much later that can be.
- The sender's own period and its timeouts decide how often a reading is sent, not
  `READ_SENSOR_SECONDS` alone as `README.md` 59 says; `SlowSensorLosesNothing` has
  the condition under which they agree.
- `BootLoopEnds` needs its last case. A station that is given up during start-up
  makes the chip restart and try again; one that is given up later, when nobody
  waits for `WIFI_FAIL_BIT` any more, is never driven again, and the device stays
  without a network until something else restarts it, also when the access point
  has come back. The code says nothing of what should happen then.

- The reply is read into `ack_buffer`, which has 16 bytes, with the size of
  `cbor_buffer` (`data_server.c` 108), and line 111 writes the byte after it. A reply
  of 16 bytes or more is written past the end of the buffer. The reply the
  code wants has three; the models have none that is too long.
- A lease that ran out and brings the same address back is not announced
  (`esp_netif_lwip.c` 1316); the firmware does not listen to IP_EVENT_STA_LOST_IP
  either, so it sees neither.
- The result of `bind` is not looked at (`data_server.c` 59). It fails only when the
  port is in use; the socket would then send from another port.

## What is not modelled

- ESP-IDF itself, 99.9 % of the repository: third-party code, generated register
  definitions and drivers for chips and peripherals the device does not use. It
  has tests and maintainers of its own; its share in the models is what the
  firmware relies on. A share of all lines of the repository is therefore no
  measure of this project: of the C code in `main/` every statement with an
  effect is modelled, except as listed here.
- The CBOR encoding (a managed component outside the repository) and the scaling
  of raw values in floating point.
- Failures of `xQueueCreate` and `xTaskCreatePinnedToCore`, and replies longer
  than the buffer they are read into (see the observations).
- `i2c_param_config` and `i2c_driver_install`, whose results are ignored: without
  the driver every transaction fails, which `Aht20Driver` has.
- A sensor that was never calibrated: the code has no command for it. It is a
  sensor that is not `operable`.
- What else the Wi-Fi driver may report, beyond the room it takes in the event queue,
  and events of interfaces other than the station, which the firmware does not have.
- The LED strip's own protocol and colours, and log messages.
- Scheduling: `TimedTelemetry` gives each task its core at once.

## Plan

What could still be added, in order of its worth:

1. A heap that the sender task and the driver share.
2. That `TimedTelemetry` is among the behaviours of `Telemetry`, its readings known
   by their age instead of their number.
3. The restart of a station that is given up after start-up, if the firmware gets
   one (see the observation about `BootLoopEnds`).
