----------------------------- MODULE Aht20Driver -----------------------------
(***************************************************************************)
(* aht20_read_measures (main/aht.c): trigger a measurement, wait 100 ms,   *)
(* look at the status byte once, read the data and check its CRC.  Each of *)
(* the three I2C transactions builds a command link on the heap, runs it   *)
(* on a bus that may fail in any way, and deletes the link; an allocation  *)
(* that fails inside a link fails an assert, which restarts the device.    *)
(* Calls are numbered, and a measurement bears the number of the call that *)
(* triggered it.  The sensor, the wires and the heap's other users are the *)
(* environment; heap memory is counted in blocks, one per allocation.      *)
(***************************************************************************)
EXTENDS Naturals

CONSTANTS
  HeapBlocks,  \* allocations the heap has room for
  MaxCalls     \* bound: calls are 1..MaxCalls

ASSUME BoundsAssumption == HeapBlocks \in Nat /\ MaxCalls \in Nat

VARIABLES
  pc,        \* where the call is: idle between calls, or at one of its steps
  link,      \* heap blocks of the command link of this step, 0 without one
  calls,     \* history: the number of calls so far
  result,    \* what the last call returned; "abort" after a restart
  data_out,  \* the caller's buffer: the measurement in it
  chip,      \* the sensor
  misled,    \* history: since it was triggered the sensor lost power, or its
             \* status byte was read wrong
  held,      \* heap blocks the driver holds
  made,      \* history: command handles created at line 81 since the boot
  others     \* heap blocks everyone else holds

callVars == <<pc, link, calls, result, data_out>>
heapVars == <<held, made, others>>
vars == <<callVars, chip, misled, heapVars>>

Samples == 0..MaxCalls   \* 0: what the sensor holds before it measured
Chips == [busy : BOOLEAN, operable : BOOLEAN, trigger : Samples, sample : Samples]

(* i2c_master_read with I2C_MASTER_LAST_NACK: the last byte, which is not  *)
(* acknowledged, has a node of its own, and those before it share one.     *)
ReadNodes(len) == IF len = 1 THEN 1 ELSE 2

(* The descriptor; a node each for the start, every write and the stop;    *)
(* and the nodes of the read: one byte of status, seven of data.           *)
LinkBlocks == [trigger |-> 1 + 5,
               status |-> 1 + 3 + ReadNodes(1),
               data |-> 1 + 3 + ReadNodes(7)]
Transactions == {"trigger", "status", "data"}
Outcomes == {"ESP_OK", "ESP_FAIL", "ESP_ERR_TIMEOUT"}  \* i2c_master_cmd_begin
Results == Outcomes \cup {"none", "abort", "ESP_ERR_INVALID_ARG",
                          "ESP_ERR_NOT_FINISHED", "CRC"}

Free == HeapBlocks - (held + others)

Init ==
  /\ pc = "idle"
  /\ link = 0
  /\ calls = 0
  /\ result = "none"
  /\ data_out = 0
  /\ chip \in [busy : {FALSE}, operable : BOOLEAN, trigger : {0}, sample : {0}]
  /\ misled = FALSE
  /\ held = 0
  /\ made = 0
  /\ others = 0
-----------------------------------------------------------------------------
(* The caller's loop comes round.  The handle created first is only ever   *)
(* tested; nothing uses or deletes it.                                     *)
Call ==
  /\ pc = "idle"
  /\ calls < MaxCalls
  /\ calls' = calls + 1
  /\ UNCHANGED <<link, data_out, chip, misled, others>>

CreateHandle ==
  /\ Call
  /\ Free >= 1
  /\ held' = held + 1
  /\ made' = made + 1
  /\ pc' = "trigger"
  /\ UNCHANGED result

CreateHandleFails ==
  /\ Call
  /\ Free = 0
  /\ result' = "ESP_ERR_INVALID_ARG"
  /\ UNCHANGED <<pc, held, made>>

BuildLink ==
  /\ pc \in Transactions
  /\ link = 0
  /\ Free >= LinkBlocks[pc]
  /\ held' = held + LinkBlocks[pc]
  /\ link' = LinkBlocks[pc]
  /\ UNCHANGED <<pc, calls, result, data_out, chip, misled, made, others>>

(* The device begins again with an empty heap; the sensor, which keeps its *)
(* power, knows nothing of it.                                             *)
BeginAgain ==
  /\ pc' = "idle"
  /\ link' = 0
  /\ result' = "abort"
  /\ data_out' = 0
  /\ held' = 0
  /\ made' = 0
  /\ others' = 0
  /\ UNCHANGED <<calls, chip, misled>>

(* assert(ESP_OK == ret) restarts the device.                              *)
AssertFails ==
  /\ pc \in Transactions
  /\ link = 0
  /\ Free < LinkBlocks[pc]
  /\ BeginAgain

(* What the driver holds after i2c_cmd_link_delete.  Slips: the delete is  *)
(* skipped when the transaction failed; the link is freed twice.           *)
HeldAfterDoubleFree(r) == held - 2 * LinkBlocks[pc]
HeldAfterSuccessOnly(r) == IF r = "ESP_OK" THEN held - LinkBlocks[pc] ELSE held
HeldAfter(r) == held - LinkBlocks[pc]

(* A transaction ends with outcome r, and its link is deleted.             *)
Transaction(t, r) ==
  /\ pc = t
  /\ link > 0
  /\ link' = 0
  /\ held' = HeldAfter(r)
  /\ UNCHANGED <<calls, made, others>>

Return(r) == pc' = "idle" /\ result' = r
Proceed(step) == pc' = step /\ UNCHANGED result

Triggered == [chip EXCEPT !.busy = TRUE, !.trigger = calls]

(* The trigger command.  A transaction that fails may still have reached   *)
(* the sensor; a measurement that was going on begins anew.                *)
WriteTrigger(r) ==
  /\ Transaction("trigger", r)
  /\ IF r = "ESP_OK" THEN Proceed("delay") ELSE Return(r)
  /\ \/ chip' = Triggered /\ misled' = FALSE
     \/ r # "ESP_OK" /\ UNCHANGED <<chip, misled>>
  /\ UNCHANGED data_out

(* vTaskDelay of 100 ms.                                                   *)
Delay ==
  /\ pc = "delay"
  /\ Proceed("status")
  /\ UNCHANGED <<link, calls, data_out, chip, misled, heapVars>>

(* What a status byte must say.  Slip: busy is not looked at.              *)
DataReadyOrBusy(s) == s.operable
DataReady(s) == s.operable /\ ~s.busy

(* The sensor as the status byte shows it: as it is, or wrong.             *)
ReadStatus(r) ==
  /\ Transaction("status", r)
  /\ \E busy, operable \in BOOLEAN :
       LET s == [chip EXCEPT !.busy = busy, !.operable = operable] IN
       /\ misled' = (misled \/ s # chip)
       /\ IF r # "ESP_OK" THEN Return(r)
          ELSE IF DataReady(s) THEN Proceed("data")
          ELSE Return("ESP_ERR_NOT_FINISHED")
  /\ UNCHANGED <<data_out, chip>>

(* The seven data bytes arrive; what aht20_calc_crc makes of them is the   *)
(* subject of Aht20Frame.                                                  *)
ReadData(r) ==
  /\ Transaction("data", r)
  /\ \E crcAgrees \in BOOLEAN :
       IF r # "ESP_OK" THEN Return(r) /\ UNCHANGED data_out
       ELSE IF crcAgrees
       THEN Return("ESP_OK") /\ data_out' = chip.sample
       ELSE Return("CRC") /\ UNCHANGED data_out
  /\ UNCHANGED <<chip, misled>>

TransactionStep ==
  \E r \in Outcomes : WriteTrigger(r) \/ ReadStatus(r) \/ ReadData(r)

DriverStep ==
  \/ CreateHandle
  \/ CreateHandleFails
  \/ BuildLink
  \/ AssertFails
  \/ Delay
  \/ TransactionStep
-----------------------------------------------------------------------------
(* The measurement that is going on ends.                                  *)
FinishMeasuring ==
  /\ chip.busy
  /\ chip' = [chip EXCEPT !.busy = FALSE, !.sample = chip.trigger]
  /\ UNCHANGED <<callVars, misled, heapVars>>

(* The sensor loses its power for a moment.                                *)
LosePower ==
  /\ \E operable \in BOOLEAN :
       chip' = [busy |-> FALSE, operable |-> operable, trigger |-> 0, sample |-> 0]
  /\ misled' = TRUE
  /\ UNCHANGED <<callVars, heapVars>>

(* The rest of the program allocates and frees.                            *)
OthersAllocate ==
  /\ Free >= 1
  /\ others' = others + 1
  /\ UNCHANGED <<callVars, chip, misled, held, made>>

OthersFree ==
  /\ others > 0
  /\ others' = others - 1
  /\ UNCHANGED <<callVars, chip, misled, held, made>>

(* Another task panics, in the middle of a call perhaps.                   *)
Restart == BeginAgain

Surroundings == FinishMeasuring \/ LosePower \/ OthersAllocate \/ OthersFree

Environment == Restart \/ Surroundings

Next == DriverStep \/ Environment

Spec == Init /\ [][Next]_vars
-----------------------------------------------------------------------------
TypeOK ==
  /\ pc \in {"idle", "delay"} \cup Transactions
  /\ link \in Nat
  /\ link > 0 => pc \in Transactions /\ link = LinkBlocks[pc]
  /\ calls \in 0..MaxCalls
  /\ result \in Results
  /\ data_out \in Samples
  /\ chip \in Chips
  /\ misled \in BOOLEAN
  /\ held \in 0..HeapBlocks
  /\ others \in 0..HeapBlocks
  /\ held + others <= HeapBlocks
  /\ made \in Nat

(* A reading that is handed out was measured for this very call, however   *)
(* the calls before it ended (lines 90-101), unless the sensor lost power  *)
(* on the way or its status byte, which nothing protects, was misread.     *)
ReadingIsFresh ==
  pc = "idle" /\ result = "ESP_OK" /\ ~misled => data_out = calls

(* The driver holds its links only while it uses them, whichever way a     *)
(* transaction ends; what stays behind is one descriptor for each call     *)
(* that came past line 88.                                                 *)
OneBlockLostPerCall == held = made + link

(* "This task continuously reads temperature and humidity data"            *)
(* (main/aht20_sensor.h:14): as long as no one else needs the heap, each   *)
(* transaction finds the memory for its link.                              *)
ReadsContinuously ==
  pc \in Transactions /\ link = 0 /\ others = 0 => Free >= LinkBlocks[pc]
=============================================================================
