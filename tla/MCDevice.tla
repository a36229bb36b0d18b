------------------------------ MODULE MCDevice ------------------------------
(* Instances of Device for TLC; the configurations give the bounds.        *)
EXTENDS Device
=============================================================================
