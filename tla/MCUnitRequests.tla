--------------------------- MODULE MCUnitRequests ---------------------------
(***************************************************************************)
(* UnitRequests for TLC: two releases, one with the reboot guard and the   *)
(* location report and one without, and two places that only differ in     *)
(* name.                                                                   *)
(***************************************************************************)
EXTENDS UnitRequests, TLC

Symmetry == Permutations(Places)
=============================================================================
