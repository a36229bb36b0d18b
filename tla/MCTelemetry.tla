----------------------------- MODULE MCTelemetry -----------------------------
(* Instances of Telemetry for TLC; the configurations give the bounds.     *)
EXTENDS Telemetry

MCReplyTexts == {"ACK"}
=============================================================================
