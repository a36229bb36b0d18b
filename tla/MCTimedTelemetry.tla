-------------------------- MODULE MCTimedTelemetry --------------------------
(* An instance of TimedTelemetry for TLC; the configuration gives the      *)
(* times.  One period is too short for the sender task, the other is just  *)
(* long enough for its longest cycle.                                      *)
EXTENDS TimedTelemetry

MCSensorPeriods == {4, 11}
=============================================================================
