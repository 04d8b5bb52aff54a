--------------------------- MODULE MCBatteryAlerts ---------------------------
(***************************************************************************)
(* The instance of BatteryAlerts that TLC checks.  Half volts above 10 V:  *)
(* LowV is 12 V and a step is 1 V; of the readings one is exactly 12 V,    *)
(* one below and one a step further down, one has no number and one was    *)
(* replayed from the offline buffer.                                       *)
(***************************************************************************)
EXTENDS BatteryAlerts, TLC

MCReadings == {<<1, 0>>, <<3, 0>>, <<4, 0>>, <<-1, 0>>, <<1, 2>>}

Symmetry == Permutations(Workers)
=============================================================================
