---------------------------- MODULE MCFleetViews ----------------------------
(***************************************************************************)
(* Instance of FleetViews for TLC: two units, one with an older agent.     *)
(* The first begins without the network and may run, fail, stand by or     *)
(* have a silent controller; the second rests on a low battery or has no   *)
(* power.                                                                  *)
(***************************************************************************)
EXTENDS FleetViews, TLC

CONSTANTS a, b

Is(err, batt, on, mode) == [err |-> err, batt |-> batt, oil |-> TRUE, on |-> on, mode |-> mode]
MCSituations ==
    (a :> {Is(0, 131, TRUE, "climate"), Is(2, 128, FALSE, "climate"), Is(7, 126, FALSE, "off"),
           Silent})
    @@ (b :> {Is(0, 118, FALSE, "off"), Off})
=============================================================================
