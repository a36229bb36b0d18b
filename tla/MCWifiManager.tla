---------------------------- MODULE MCWifiManager ----------------------------
(* Instances of WifiManager for TLC; the configurations give the bounds.   *)
EXTENDS WifiManager
=============================================================================
