---------------------------- MODULE MCAht20Frame ----------------------------
(* An instance of Aht20Frame for TLC: every burst, on readings at the      *)
(* limits of their fields.                                                 *)
EXTENDS Aht20Frame

MCMeasurements == {<<0, 0>>, <<1048575, 4096>>, <<300015, 655361>>}
MCBursts == 0..255
=============================================================================
