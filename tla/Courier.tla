------------------------------- MODULE Courier -------------------------------
(***************************************************************************)
(* What the delivery path of the device promises about readings, with the  *)
(* queue, the socket, the network and the server left out.  Readings are   *)
(* numbered in the order in which they were taken.  A reading is accepted, *)
(* waits its turn, is delivered (one at a time, oldest first) and gets one *)
(* verdict that never changes; a restart loses whatever was waiting or     *)
(* being delivered and nothing else.  DataServer implements this.          *)
(***************************************************************************)
EXTENDS Naturals, Sequences, Functions

CONSTANTS
  MaxReading,  \* readings are 1..MaxReading
  Capacity,    \* how many readings may wait
  Verdicts     \* what the device may conclude about a reading

VARIABLES
  accepted,  \* the last reading accepted, 0 before the first
  pending,   \* the readings that wait
  active,    \* the reading being delivered, 0 when there is none
  verdict    \* what was concluded about each reading, "none" before that

vars == <<accepted, pending, active, verdict>>

Readings == 1..MaxReading

Init ==
  /\ accepted = 0
  /\ pending = <<>>
  /\ active = 0
  /\ verdict = [r \in Readings |-> "none"]

(* A reading later than every accepted one joins the end of the line.      *)
Accept(r) ==
  /\ r > accepted
  /\ Len(pending) < Capacity
  /\ accepted' = r
  /\ pending' = Append(pending, r)
  /\ UNCHANGED <<active, verdict>>

(* Delivery of the oldest waiting reading begins when no other is on.      *)
Begin ==
  /\ active = 0
  /\ pending # <<>>
  /\ active' = Head(pending)
  /\ pending' = Tail(pending)
  /\ UNCHANGED <<accepted, verdict>>

(* The delivery that is on ends with a verdict.                            *)
Settle(v) ==
  /\ active # 0
  /\ verdict' = [verdict EXCEPT ![active] = v]
  /\ active' = 0
  /\ UNCHANGED <<accepted, pending>>

(* A restart forgets the line and the delivery that was on.                *)
Restart ==
  /\ pending' = <<>>
  /\ active' = 0
  /\ UNCHANGED <<accepted, verdict>>

Next ==
  \/ \E r \in Readings : Accept(r)
  \/ Begin
  \/ \E v \in Verdicts : Settle(v)
  \/ Restart

Spec == Init /\ [][Next]_vars
-----------------------------------------------------------------------------
(* Readings are in order all along the path: settled before delivered      *)
(* before waiting, and nothing later than the last accepted one anywhere.  *)
InOrder ==
  /\ \A i, j \in 1..Len(pending) : i < j => pending[i] < pending[j]
  /\ \A i \in 1..Len(pending) : active < pending[i] /\ pending[i] <= accepted
  /\ active <= accepted
  /\ \A r \in Readings : verdict[r] # "none" =>
        /\ r <= accepted
        /\ active # 0 => r < active
        /\ \A i \in 1..Len(pending) : r < pending[i]
=============================================================================
