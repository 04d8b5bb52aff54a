---------------------------- MODULE MCFaultAlerts ----------------------------
(***************************************************************************)
(* The instance of FaultAlerts that TLC checks: the people and the Lambda  *)
(* instances are interchangeable.                                          *)
(***************************************************************************)
EXTENDS FaultAlerts, TLC

Symmetry == Permutations(People) \union Permutations(Workers)
=============================================================================
