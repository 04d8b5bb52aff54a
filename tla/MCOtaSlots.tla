----------------------------- MODULE MCOtaSlots -----------------------------
(***************************************************************************)
(* Instances of OtaSlots for TLC: MCOtaSlots.cfg (safety and liveness,     *)
(* three updates and four power cuts) and TornOtaSlots.cfg (the rollback   *)
(* the design promises).                                                   *)
(***************************************************************************)
EXTENDS OtaSlots
=============================================================================
