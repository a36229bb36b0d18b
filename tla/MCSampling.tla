------------------------------ MODULE MCSampling ------------------------------
(* Instances of Sampling for TLC; the configurations give the bounds.      *)
EXTENDS Sampling
=============================================================================
