-------------------------- MODULE Aht20DriverProofs --------------------------
(***************************************************************************)
(* Proofs about Aht20Driver, for a heap and a number of calls of any size: *)
(* the types, the account of the driver's heap blocks, and that a reading  *)
(* handed out is fresh; then about Sampling, which calls it: that the task *)
(* takes no reading twice.                                                 *)
(***************************************************************************)
EXTENDS Sampling, TLAPS

LEMMA LinkBlocksAreCounted ==
  \A t \in Transactions : LinkBlocks[t] \in Nat /\ LinkBlocks[t] > 0
  BY DEF Transactions, LinkBlocks, ReadNodes

(* What the sensor holds while a call that was not misled is under way:    *)
(* the measurement of this call is going on, or is its last sample.        *)
MeasuringForThisCall ==
  /\ chip.trigger = calls
  /\ ~chip.busy => chip.sample = calls

FreshSoFar ==
  ~misled =>
    /\ pc \in {"delay", "status", "data"} => MeasuringForThisCall
    /\ pc = "data" => ~chip.busy

IInv ==
  /\ TypeOK
  /\ OneBlockLostPerCall
  /\ FreshSoFar
  /\ ReadingIsFresh

LEMMA InitEstablishes == Init => IInv
  <1> SUFFICES ASSUME Init PROVE IInv
    OBVIOUS
  <1>1. 0 \in Samples
    BY BoundsAssumption DEF Samples
  <1>2. chip \in Chips
    BY <1>1 DEF Init, Chips
  <1>3. data_out \in Samples
    BY <1>1 DEF Init
  <1>4. misled \in BOOLEAN
    BY DEF Init
  <1>5. TypeOK
    BY BoundsAssumption, <1>2, <1>3, <1>4 DEF Init, TypeOK, Results
  <1> QED
    BY <1>5 DEF Init, IInv, OneBlockLostPerCall, FreshSoFar, ReadingIsFresh

(* The invariants about the reading, and what they depend on.              *)
fresh == <<pc, calls, result, data_out, chip, misled>>

LEMMA FreshUnchanged ==
  ASSUME IInv, UNCHANGED fresh
  PROVE  FreshSoFar' /\ ReadingIsFresh'
  BY DEF IInv, fresh, FreshSoFar, MeasuringForThisCall, ReadingIsFresh

LEMMA NoLinkBetweenTransactions ==
  ASSUME TypeOK, pc \in {"idle", "delay"}
  PROVE  link = 0
  BY DEF TypeOK, Transactions

LEMMA CreateHandlePreserves == IInv /\ CreateHandle => IInv'
  <1> SUFFICES ASSUME IInv, CreateHandle PROVE IInv'
    OBVIOUS
  <1>1. link = 0
    BY NoLinkBetweenTransactions DEF IInv, CreateHandle, Call
  <1>2. TypeOK' /\ OneBlockLostPerCall'
    BY <1>1, BoundsAssumption
    DEF IInv, TypeOK, OneBlockLostPerCall, CreateHandle, Call, Free,
        Transactions
  <1>3. FreshSoFar' /\ ReadingIsFresh'
    BY DEF IInv, FreshSoFar, ReadingIsFresh, CreateHandle, Call
  <1> QED
    BY <1>2, <1>3 DEF IInv

LEMMA CreateHandleFailsPreserves == IInv /\ CreateHandleFails => IInv'
  <1> SUFFICES ASSUME IInv, CreateHandleFails PROVE IInv'
    OBVIOUS
  <1>1. TypeOK' /\ OneBlockLostPerCall'
    BY BoundsAssumption
    DEF IInv, TypeOK, OneBlockLostPerCall, CreateHandleFails, Call, Results,
        Transactions
  <1>2. FreshSoFar' /\ ReadingIsFresh'
    BY DEF IInv, FreshSoFar, ReadingIsFresh,
           CreateHandleFails, Call
  <1> QED
    BY <1>1, <1>2 DEF IInv

LEMMA BuildLinkPreserves == IInv /\ BuildLink => IInv'
  <1> SUFFICES ASSUME IInv, BuildLink PROVE IInv'
    OBVIOUS
  <1>1. LinkBlocks[pc] \in Nat /\ LinkBlocks[pc] > 0
    BY LinkBlocksAreCounted DEF BuildLink
  <1>2. TypeOK' /\ OneBlockLostPerCall'
    BY <1>1, BoundsAssumption
    DEF IInv, TypeOK, OneBlockLostPerCall, BuildLink, Free
  <1>3. FreshSoFar' /\ ReadingIsFresh'
    BY FreshUnchanged DEF BuildLink, fresh
  <1> QED
    BY <1>2, <1>3 DEF IInv

LEMMA BeginAgainPreserves == IInv /\ BeginAgain => IInv'
  <1> SUFFICES ASSUME IInv, BeginAgain PROVE IInv'
    OBVIOUS
  <1>1. TypeOK' /\ OneBlockLostPerCall'
    BY BoundsAssumption
    DEF IInv, TypeOK, OneBlockLostPerCall, BeginAgain, Results,
        Samples, Transactions
  <1>2. FreshSoFar' /\ ReadingIsFresh'
    BY DEF IInv, FreshSoFar, ReadingIsFresh, BeginAgain
  <1> QED
    BY <1>1, <1>2 DEF IInv

(* A link that is deleted leaves the handles behind and nothing else.      *)
LEMMA TransactionEnds ==
  ASSUME IInv, NEW t \in Transactions, NEW r \in Outcomes, Transaction(t, r)
  PROVE  /\ held' = made
         /\ held' \in 0..HeapBlocks /\ held' + others <= HeapBlocks
  <1>1. LinkBlocks[pc] \in Nat /\ LinkBlocks[pc] > 0
    BY LinkBlocksAreCounted DEF Transaction
  <1>2. held' = made
    BY <1>1, BoundsAssumption
    DEF IInv, TypeOK, OneBlockLostPerCall, Transaction, HeldAfter
  <1> QED
    BY <1>1, <1>2, BoundsAssumption
    DEF IInv, TypeOK, OneBlockLostPerCall, Transaction

LEMMA WriteTriggerPreserves ==
  ASSUME IInv, NEW r \in Outcomes, WriteTrigger(r)
  PROVE  IInv'
  <1>1. /\ held' = made
        /\ held' \in 0..HeapBlocks /\ held' + others <= HeapBlocks
    BY TransactionEnds DEF WriteTrigger, Transactions
  <1>2. chip' \in Chips
    BY BoundsAssumption DEF IInv, TypeOK, WriteTrigger, Triggered, Chips, Samples
  <1>3. pc' \in {"idle", "delay"} /\ result' \in Results
    BY DEF IInv, TypeOK, WriteTrigger, Proceed, Return, Results
  <1>4. misled' \in BOOLEAN
    BY DEF IInv, TypeOK, WriteTrigger
  <1>5. TypeOK' /\ OneBlockLostPerCall'
    BY <1>1, <1>2, <1>3, <1>4
    DEF IInv, TypeOK, OneBlockLostPerCall, WriteTrigger, Transaction
  <1>6. FreshSoFar'
    <2>1. CASE r = "ESP_OK"
      BY <2>1 DEF IInv, TypeOK, WriteTrigger, Transaction, Proceed, Triggered,
                  Chips, FreshSoFar, MeasuringForThisCall
    <2>2. CASE r # "ESP_OK"
      BY <2>2 DEF WriteTrigger, Return, FreshSoFar
    <2> QED
      BY <2>1, <2>2
  <1>7. ReadingIsFresh'
    BY DEF IInv, ReadingIsFresh, WriteTrigger, Proceed, Return
  <1> QED
    BY <1>5, <1>6, <1>7 DEF IInv

LEMMA DelayPreserves == IInv /\ Delay => IInv'
  <1> SUFFICES ASSUME IInv, Delay PROVE IInv'
    OBVIOUS
  <1>1. TypeOK' /\ OneBlockLostPerCall'
    BY DEF IInv, TypeOK, OneBlockLostPerCall, Delay, Proceed, heapVars,
           Transactions
  <1>2. FreshSoFar' /\ ReadingIsFresh'
    BY DEF IInv, FreshSoFar, MeasuringForThisCall, ReadingIsFresh, Delay, Proceed
  <1> QED
    BY <1>1, <1>2 DEF IInv

LEMMA ReadStatusPreserves ==
  ASSUME IInv, NEW r \in Outcomes, ReadStatus(r)
  PROVE  IInv'
  <1>1. /\ held' = made
        /\ held' \in 0..HeapBlocks /\ held' + others <= HeapBlocks
    BY TransactionEnds DEF ReadStatus, Transactions
  <1>2. PICK busy \in BOOLEAN, operable \in BOOLEAN :
          LET s == [chip EXCEPT !.busy = busy, !.operable = operable] IN
          /\ misled' = (misled \/ s # chip)
          /\ IF r # "ESP_OK" THEN Return(r)
             ELSE IF DataReady(s) THEN Proceed("data")
             ELSE Return("ESP_ERR_NOT_FINISHED")
    BY DEF ReadStatus
  <1>3. TypeOK' /\ OneBlockLostPerCall'
    BY <1>1, <1>2
    DEF IInv, TypeOK, OneBlockLostPerCall, ReadStatus, Transaction, Proceed,
        Return, Results, Transactions
  <1>4. FreshSoFar'
    <2> DEFINE s == [chip EXCEPT !.busy = busy, !.operable = operable]
    <2>1. ~misled' => ~misled /\ s = chip
      BY <1>2
    <2>2. pc' = "data" => DataReady(s)
      BY <1>2 DEF Return
    <2>3. pc' \in {"idle", "data"}
      BY <1>2 DEF Return, Proceed
    <2> HIDE DEF s
    <2> QED
      BY <2>1, <2>2, <2>3
      DEF IInv, ReadStatus, Transaction, DataReady, FreshSoFar,
          MeasuringForThisCall
  <1>5. ReadingIsFresh'
    BY <1>2 DEF IInv, ReadingIsFresh, ReadStatus, Proceed, Return
  <1> QED
    BY <1>3, <1>4, <1>5 DEF IInv

LEMMA ReadDataPreserves ==
  ASSUME IInv, NEW r \in Outcomes, ReadData(r)
  PROVE  IInv'
  <1>1. /\ held' = made
        /\ held' \in 0..HeapBlocks /\ held' + others <= HeapBlocks
    BY TransactionEnds DEF ReadData, Transactions
  <1>2. PICK crcAgrees \in BOOLEAN :
          IF r # "ESP_OK" THEN Return(r) /\ UNCHANGED data_out
          ELSE IF crcAgrees
          THEN /\ Return("ESP_OK")
               /\ data_out' = chip.sample
          ELSE Return("CRC") /\ UNCHANGED data_out
    BY DEF ReadData
  <1>3. chip.sample \in Samples
    BY DEF IInv, TypeOK, Chips
  <1>4. data_out' \in Samples
    BY <1>2, <1>3 DEF IInv, TypeOK, Chips
  <1>5. TypeOK' /\ OneBlockLostPerCall'
    BY <1>1, <1>2, <1>4
    DEF IInv, TypeOK, OneBlockLostPerCall, ReadData, Transaction, Return, Results
  <1>6. FreshSoFar'
    BY <1>2 DEF Return, FreshSoFar
  <1>7. ReadingIsFresh'
    BY <1>2
    DEF IInv, ReadingIsFresh, ReadData, Transaction, Return,
        FreshSoFar, MeasuringForThisCall
  <1> QED
    BY <1>5, <1>6, <1>7 DEF IInv

LEMMA EnvironmentPreserves == IInv /\ Environment => IInv'
  <1> SUFFICES ASSUME IInv, Environment PROVE IInv'
    OBVIOUS
  <1>1. CASE FinishMeasuring
    <2>1. chip' \in Chips
      BY <1>1 DEF IInv, TypeOK, FinishMeasuring, Chips
    <2>2. TypeOK' /\ OneBlockLostPerCall'
      BY <1>1, <2>1 DEF IInv, TypeOK, OneBlockLostPerCall, FinishMeasuring,
                        callVars, heapVars
    <2>3. FreshSoFar' /\ ReadingIsFresh'
      BY <1>1 DEF IInv, TypeOK, Chips, FinishMeasuring, callVars, FreshSoFar,
                  MeasuringForThisCall, ReadingIsFresh
    <2> QED
      BY <2>2, <2>3 DEF IInv
  <1>2. CASE LosePower
    <2>1. chip' \in Chips
      BY <1>2, BoundsAssumption DEF LosePower, Chips, Samples
    <2>2. TypeOK' /\ OneBlockLostPerCall'
      BY <1>2, <2>1 DEF IInv, TypeOK, OneBlockLostPerCall, LosePower, callVars,
                        heapVars
    <2>3. FreshSoFar' /\ ReadingIsFresh'
      BY <1>2 DEF IInv, LosePower, callVars, FreshSoFar, ReadingIsFresh
    <2> QED
      BY <2>2, <2>3 DEF IInv
  <1>3. CASE OthersAllocate \/ OthersFree
    <2>1. TypeOK' /\ OneBlockLostPerCall'
      BY <1>3, BoundsAssumption
      DEF IInv, TypeOK, OneBlockLostPerCall, OthersAllocate, OthersFree, Free,
          callVars
    <2>2. UNCHANGED fresh
      BY <1>3 DEF OthersAllocate, OthersFree, callVars, fresh
    <2> QED
      BY <2>1, <2>2, FreshUnchanged DEF IInv
  <1>4. CASE Restart
    BY <1>4, BeginAgainPreserves DEF Restart
  <1> QED
    BY <1>1, <1>2, <1>3, <1>4 DEF Environment, Surroundings

LEMMA NextPreserves == IInv /\ [Next]_vars => IInv'
  <1> SUFFICES ASSUME IInv, [Next]_vars PROVE IInv'
    OBVIOUS
  <1>1. CASE DriverStep
    BY <1>1, CreateHandlePreserves, CreateHandleFailsPreserves,
       BuildLinkPreserves, BeginAgainPreserves, WriteTriggerPreserves,
       DelayPreserves, ReadStatusPreserves, ReadDataPreserves
    DEF DriverStep, TransactionStep, AssertFails
  <1>2. CASE Environment
    BY <1>2, EnvironmentPreserves
  <1>3. CASE UNCHANGED vars
    <2>1. TypeOK' /\ OneBlockLostPerCall'
      BY <1>3 DEF IInv, TypeOK, OneBlockLostPerCall, vars, callVars, heapVars
    <2>2. UNCHANGED fresh
      BY <1>3 DEF vars, callVars, fresh
    <2> QED
      BY <2>1, <2>2, FreshUnchanged DEF IInv
  <1> QED
    BY <1>1, <1>2, <1>3 DEF Next

LEMMA IInvHolds == Spec => []IInv
  BY InitEstablishes, NextPreserves, PTL DEF Spec

(* The driver never holds more of the heap than there is, and the sensor,  *)
(* the call and its result stay what they are declared to be.              *)
THEOREM TypeCorrect == Spec => []TypeOK
  <1>1. IInv => TypeOK
    BY DEF IInv
  <1> QED
    BY <1>1, IInvHolds, PTL

(* A reading handed out by aht20_read_measures was measured for this call, *)
(* however earlier calls ended and however the transactions failed.        *)
THEOREM ReadingsAreFresh == Spec => []ReadingIsFresh
  <1>1. IInv => ReadingIsFresh
    BY DEF IInv
  <1> QED
    BY <1>1, IInvHolds, PTL

(* No path through the three transactions keeps a command link: exactly    *)
(* the handle of line 81 is lost, once per call, and while a call is under *)
(* way it needs six blocks beside those, the longest link: that of the     *)
(* trigger, and that of the seven bytes of data, whose read takes two      *)
(* nodes.                                                                  *)
THEOREM LossIsOneBlockPerCall ==
  Spec => /\ []OneBlockLostPerCall
          /\ [](pc \notin Transactions => held = made)
          /\ [](held <= made + 6)
  <1>1. IInv => OneBlockLostPerCall
    BY DEF IInv
  <1>2. IInv => /\ pc \notin Transactions => held = made
                /\ held <= made + 6
    <2> SUFFICES ASSUME IInv
                 PROVE  /\ pc \notin Transactions => held = made
                        /\ held <= made + 6
      OBVIOUS
    <2>1. held = made + link /\ made \in Nat /\ link \in Nat
      BY DEF IInv, TypeOK, OneBlockLostPerCall
    <2>2. link > 0 => pc \in Transactions /\ link = LinkBlocks[pc]
      BY DEF IInv, TypeOK
    <2>3. \A t \in Transactions : LinkBlocks[t] <= 6
      BY DEF Transactions, LinkBlocks, ReadNodes
    <2> QED
      BY <2>1, <2>2, <2>3
  <1> QED
    BY <1>1, <1>2, IInvHolds, PTL

LEMMA TaskUsesDriver == [SamplingNext]_samplingVars => [Next]_vars
  BY DEF SamplingNext, samplingVars, TaskStep, CallDriver, GoOn, AssertRestarts,
         TakeReading, NoReading, QueueOrSleep, PanicRestarts, Dequeue, Elsewhere,
         Next, DriverStep, Environment

(* Every behaviour of read_aht20 with the driver inside it is one that     *)
(* Aht20Driver allows for, so the theorems above hold in it.               *)
THEOREM DriverIsUsedWell == SamplingSpec => Spec
  <1>1. SamplingInit => Init
    BY DEF SamplingInit
  <1> QED
    BY <1>1, TaskUsesDriver, PTL DEF SamplingSpec, Spec

(* The reading that a call under way may hand out is newer than any taken. *)
NewestInv ==
  /\ newest \in Nat
  /\ newest <= calls
  /\ calling => newest < calls

LEMMA CallsAreNumbers == IInv => calls \in Nat
  BY BoundsAssumption DEF IInv, TypeOK

LEMMA TakenReadingIsNew ==
  ASSUME IInv, NewestInv, TakeReading
  PROVE  NewestInv' /\ (~misled => newest' > newest)
  <1>1. ~misled => data_out = calls
    BY DEF TakeReading, Succeeded, IInv, ReadingIsFresh
  <1>2. calls \in Nat
    BY CallsAreNumbers
  <1>3. calls' = calls /\ ~calling' /\ newest < calls
    BY DEF TakeReading, vars, callVars, NewestInv
  <1>4. newest' = IF misled THEN newest ELSE data_out
    BY DEF TakeReading
  <1> QED
    BY <1>1, <1>2, <1>3, <1>4 DEF NewestInv

LEMMA OtherStepsTakeNothing ==
  ASSUME IInv, NewestInv, [SamplingNext]_samplingVars, ~TakeReading
  PROVE  NewestInv' /\ measured' = measured
  <1>1. calls \in Nat
    BY CallsAreNumbers
  <1>2. CASE CallDriver
    <2>1. /\ calls' = calls + 1 /\ newest' = newest
          /\ measured' = measured
      BY <1>2 DEF CallDriver, CreateHandle, CreateHandleFails, Call, taskVars, taskOwn
    <2> QED
      BY <1>1, <2>1 DEF NewestInv
  <1>3. CASE GoOn
    <2>1. calls' = calls
      BY <1>3 DEF GoOn, BuildLink, Delay, TransactionStep, WriteTrigger, ReadStatus,
                  ReadData, Transaction
    <2> QED
      BY <1>3, <2>1 DEF GoOn, NewestInv, taskVars, taskOwn
  <1>4. CASE AssertRestarts \/ PanicRestarts
    BY <1>4 DEF AssertRestarts, PanicRestarts, AssertFails, Restart, BeginAgain,
                Task!Restart, NewestInv
  <1>5. CASE NoReading \/ QueueOrSleep
    BY <1>5 DEF NoReading, QueueOrSleep, vars, callVars, Task!MeasureFails,
                Task!Enqueue, Task!EnqueueFails, Task!WakeUp, NewestInv
  <1>6. CASE Dequeue
    BY <1>6 DEF Dequeue, vars, callVars, taskOwn, NewestInv
  <1>7. CASE Elsewhere
    <2>1. calls' = calls
      BY <1>7 DEF Elsewhere, Surroundings, FinishMeasuring, LosePower,
                  OthersAllocate, OthersFree, callVars
    <2> QED
      BY <1>7, <2>1 DEF Elsewhere, taskVars, taskOwn, NewestInv
  <1>8. CASE UNCHANGED samplingVars
    BY <1>8 DEF samplingVars, vars, callVars, taskVars, taskOwn, NewestInv
  <1> QED
    BY <1>2, <1>3, <1>4, <1>5, <1>6, <1>7, <1>8 DEF SamplingNext, TaskStep

(* read_aht20 takes no reading twice (aht20_sensor.c:15), whatever calls   *)
(* fail and whenever the device restarts.                                  *)
THEOREM ReadingsAreNew == SamplingSpec => EachReadingIsNew
  <1>1. SamplingInit => IInv /\ NewestInv
    BY InitEstablishes DEF SamplingInit, Init, NewestInv
  <1>2. IInv /\ NewestInv /\ [SamplingNext]_samplingVars => IInv' /\ NewestInv'
    BY TaskUsesDriver, NextPreserves, TakenReadingIsNew, OtherStepsTakeNothing
  <1>3. IInv /\ NewestInv /\ [SamplingNext]_samplingVars
          => [measured' # measured /\ ~misled => newest' > newest]_samplingVars
    BY TakenReadingIsNew, OtherStepsTakeNothing
  <1> QED
    BY <1>1, <1>2, <1>3, PTL DEF SamplingSpec, EachReadingIsNew
-----------------------------------------------------------------------------
(* How far the sensor task is from its next measurement.                   *)

CallStepsLeft ==
  CASE pc = "trigger" -> IF link = 0 THEN 10 ELSE 9
    [] pc = "delay" -> 8
    [] pc = "status" -> IF link = 0 THEN 7 ELSE 6
    [] pc = "data" -> IF link = 0 THEN 5 ELSE 4
    [] OTHER -> 3

StepsLeft ==
  CASE calling -> CallStepsLeft
    [] ~calling /\ sensor = "send" -> 2
    [] ~calling /\ sensor = "sleep" -> 1
    [] OTHER -> 0

(* The task measures while it is in the driver, and only then.             *)
CallsToMeasure ==
  /\ calling \in BOOLEAN
  /\ sensor \in {"measure", "send", "sleep"}
  /\ calling => sensor = "measure"

LEMMA CallsToMeasureNext ==
  CallsToMeasure /\ [SamplingNext]_samplingVars => CallsToMeasure'
  <1> SUFFICES ASSUME CallsToMeasure, [SamplingNext]_samplingVars
               PROVE  CallsToMeasure'
    OBVIOUS
  <1> USE DEF CallsToMeasure
  <1>1. CASE CallDriver
    <2>1. sensor = "measure" /\ calling' = TRUE /\ UNCHANGED sensor
      BY <1>1 DEF CallDriver, taskVars, taskOwn
    <2> QED
      BY <2>1
  <1>2. CASE GoOn \/ Dequeue \/ Elsewhere
    <2>1. UNCHANGED <<sensor, calling>>
      BY <1>2 DEF GoOn, Dequeue, Elsewhere, taskVars, taskOwn
    <2> QED
      BY <2>1
  <1>3. CASE AssertRestarts \/ PanicRestarts
    BY <1>3 DEF AssertRestarts, PanicRestarts, Task!Restart
  <1>4. CASE TakeReading \/ NoReading
    BY <1>4 DEF TakeReading, NoReading, Task!Measure, Task!MeasureFails
  <1>5. CASE QueueOrSleep
    BY <1>5 DEF QueueOrSleep, Task!Enqueue, Task!EnqueueFails, Task!WakeUp
  <1>6. CASE UNCHANGED samplingVars
    BY <1>6 DEF samplingVars, taskVars, taskOwn
  <1> QED
    BY <1>1, <1>2, <1>3, <1>4, <1>5, <1>6 DEF SamplingNext, TaskStep

LEMMA CallShortens ==
  ASSUME TypeOK, BuildLink \/ Delay \/ TransactionStep
  PROVE  CallStepsLeft' < CallStepsLeft
  <1>1. CASE BuildLink
    <2>1. /\ pc \in Transactions /\ link = 0
          /\ pc' = pc /\ link' # 0
      BY <1>1, LinkBlocksAreCounted DEF BuildLink
    <2> QED
      BY <2>1 DEF CallStepsLeft, Transactions
  <1>2. CASE Delay
    <2>1. pc = "delay" /\ pc' = "status"
      BY <1>2 DEF Delay, Proceed
    <2> QED
      BY <2>1 DEF CallStepsLeft
  <1>3. ASSUME NEW r \in Outcomes, WriteTrigger(r)
        PROVE  CallStepsLeft' < CallStepsLeft
    <2>1. pc = "trigger" /\ pc' \in {"delay", "idle"}
      BY <1>3 DEF WriteTrigger, Transaction, Proceed, Return
    <2> QED
      BY <2>1 DEF CallStepsLeft
  <1>4. ASSUME NEW r \in Outcomes, ReadStatus(r)
        PROVE  CallStepsLeft' < CallStepsLeft
    <2>1. pc = "status" /\ link' = 0
      BY <1>4 DEF ReadStatus, Transaction
    <2>2. pc' \in {"data", "idle"}
      BY <1>4 DEF ReadStatus, Proceed, Return
    <2> QED
      BY <2>1, <2>2 DEF CallStepsLeft
  <1>5. ASSUME NEW r \in Outcomes, ReadData(r)
        PROVE  CallStepsLeft' < CallStepsLeft
    <2>1. pc = "data" /\ pc' = "idle"
      BY <1>5 DEF ReadData, Transaction, Return
    <2> QED
      BY <2>1 DEF CallStepsLeft
  <1> QED
    BY <1>1, <1>2, <1>3, <1>4, <1>5 DEF TransactionStep

LEMMA RoundShortens ==
  ASSUME TypeOK, CallsToMeasure, TaskStep, ~CallDriver
  PROVE  StepsLeft' < StepsLeft
  <1> USE DEF CallsToMeasure
  <1>0. CallStepsLeft \in 3..10
    BY DEF CallStepsLeft
  <1>1. CASE GoOn
    <2>1. CallStepsLeft' < CallStepsLeft
      BY <1>1, CallShortens DEF GoOn
    <2> QED
      BY <1>1, <2>1 DEF GoOn, StepsLeft
  <1>2. CASE AssertRestarts
    <2>1. StepsLeft' = 0
      BY <1>2 DEF AssertRestarts, Task!Restart, StepsLeft
    <2>2. StepsLeft = CallStepsLeft
      BY <1>2 DEF AssertRestarts, StepsLeft
    <2> QED
      BY <1>0, <2>1, <2>2
  <1>3. CASE TakeReading \/ NoReading
    <2>1. StepsLeft' \in {1, 2}
      BY <1>3 DEF TakeReading, NoReading, Task!Measure, Task!MeasureFails, StepsLeft
    <2>2. StepsLeft = CallStepsLeft
      BY <1>3 DEF TakeReading, NoReading, StepsLeft
    <2> QED
      BY <1>0, <2>1, <2>2
  <1>4. CASE QueueOrSleep
    BY <1>4 DEF QueueOrSleep, Task!Enqueue, Task!EnqueueFails, Task!WakeUp, StepsLeft
  <1> QED
    BY <1>1, <1>2, <1>3, <1>4 DEF TaskStep

(* What TaskComesRound needs beside fairness, for every heap and queue: a  *)
(* round of read_aht20 (aht20_sensor.c:14-30) has at most ten steps after  *)
(* the call is made, whichever transaction fails, each step of the task is *)
(* one less, and nothing the sensor, the sender task or the heap's other   *)
(* users do adds any.                                                      *)
THEOREM RoundsEnd ==
  SamplingSpec =>
    /\ [](StepsLeft \in 0..10 /\ (StepsLeft = 0 <=> sensor = "measure" /\ ~calling))
    /\ [][/\ TaskStep /\ ~CallDriver => StepsLeft' < StepsLeft
          /\ Dequeue \/ Elsewhere => StepsLeft' = StepsLeft
          /\ PanicRestarts => StepsLeft' = 0]_samplingVars
  <1>1. SamplingInit => CallsToMeasure
    BY DEF SamplingInit, Task!Init, CallsToMeasure
  <1>2. CallsToMeasure =>
          StepsLeft \in 0..10 /\ (StepsLeft = 0 <=> sensor = "measure" /\ ~calling)
    BY DEF CallsToMeasure, StepsLeft, CallStepsLeft
  <1>3. Dequeue \/ Elsewhere => StepsLeft' = StepsLeft
    BY DEF Dequeue, Elsewhere, Surroundings, FinishMeasuring, LosePower,
           OthersAllocate, OthersFree, vars, callVars, taskVars, taskOwn,
           StepsLeft, CallStepsLeft
  <1>4. PanicRestarts => StepsLeft' = 0
    BY DEF PanicRestarts, Task!Restart, StepsLeft
  <1>5. TypeOK /\ CallsToMeasure /\ [SamplingNext]_samplingVars =>
          [/\ TaskStep /\ ~CallDriver => StepsLeft' < StepsLeft
           /\ Dequeue \/ Elsewhere => StepsLeft' = StepsLeft
           /\ PanicRestarts => StepsLeft' = 0]_samplingVars
    BY <1>3, <1>4, RoundShortens
  <1> QED
    BY <1>1, <1>2, <1>5, CallsToMeasureNext, DriverIsUsedWell, TypeCorrect, PTL
    DEF SamplingSpec
=============================================================================
