---------------------------- MODULE CommandOrder ----------------------------
(***************************************************************************)
(* What a unit promises the dashboard about remote op-state commands, with *)
(* no word about shadows, queues or retries: commands are issued one after *)
(* the other, and the APU controller is only ever told commands that were  *)
(* issued, never an older one after a newer one as long as the network     *)
(* keeps their order.  Telling it the same command again is allowed:       *)
(* desired.apu_command is re-sent until cleared.                           *)
(***************************************************************************)
EXTENDS Naturals

VARIABLES
    issued,         \* how many commands the dashboard issued; command n is the n-th
    lastWritten,    \* the command the controller was told last, 0 before the first
    ordered         \* no message has overtaken an older one so far

vars == <<issued, lastWritten, ordered>>

Init == issued = 0 /\ lastWritten = 0 /\ ordered = TRUE

Issue == issued' = issued + 1 /\ UNCHANGED <<lastWritten, ordered>>

Tell ==
    /\ \E c \in 1 .. issued :
        /\ ordered => lastWritten <= c
        /\ lastWritten' = c
    /\ UNCHANGED <<issued, ordered>>

(* The network delivers two messages in the wrong order.                   *)
Disorder == ordered' = FALSE /\ UNCHANGED <<issued, lastWritten>>

Next == Issue \/ Tell \/ Disorder

Spec == Init /\ [][Next]_vars
=============================================================================
