-------------------------- MODULE MCHeaterCommands --------------------------
(***************************************************************************)
(* Instances of HeaterCommands for TLC: MCHeaterCommands.cfg (what is kept *)
(* across connection losses and restarts) and ExtHeaterCommands.cfg (the   *)
(* claim of shadow.c:599-603 for the fields of the newer firmware).        *)
(***************************************************************************)
EXTENDS HeaterCommands
=============================================================================
