-------------------------- MODULE ControllerImage --------------------------
(***************************************************************************)
(* What a firmware transfer promises about the APU controller, with no     *)
(* word about frames, chunks or retries: the controller runs its old image *)
(* until it switches, once, to the complete image built for the slot it    *)
(* switches to; "ok" is only reported of a controller that switched, and a *)
(* failure reported as "kept" only of one that did not.                    *)
(***************************************************************************)

VARIABLES
    active,         \* the image the controller runs: "old", "new", or "broken"
    outcome         \* what the agent reports: "none" yet, "ok", "kept", "unknown"

vars == <<active, outcome>>

Init == active = "old" /\ outcome = "none"

Switch ==
    /\ active = "old" /\ outcome = "none"
    /\ active' = "new"
    /\ UNCHANGED outcome

Report ==
    /\ outcome = "none"
    /\ outcome' \in {"ok", "kept", "unknown"}
    /\ outcome' = "ok" => active = "new"
    /\ outcome' = "kept" => active = "old"
    /\ UNCHANGED active

Next == Switch \/ Report

Spec == Init /\ [][Next]_vars
=============================================================================
