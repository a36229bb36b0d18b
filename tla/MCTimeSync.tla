----------------------------- MODULE MCTimeSync -----------------------------
(* Instances of TimeSync for TLC; the configurations give the bounds.      *)
EXTENDS TimeSync
=============================================================================
