-------------------------- MODULE MCShadowCommands --------------------------
(***************************************************************************)
(* Instances of ShadowCommands for TLC: MCShadowCommands.cfg (safety and   *)
(* liveness, one lost connection and one restart) and                      *)
(* NullShadowCommands.cfg (the claim of shadow.c:599-603).                 *)
(***************************************************************************)
EXTENDS ShadowCommands
=============================================================================
