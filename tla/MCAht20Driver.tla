---------------------------- MODULE MCAht20Driver ----------------------------
(* Instances of Aht20Driver for TLC; the configurations give the bounds.   *)
EXTENDS Aht20Driver
=============================================================================
