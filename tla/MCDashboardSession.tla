-------------------------- MODULE MCDashboardSession --------------------------
(***************************************************************************)
(* The instance of DashboardSession that TLC checks: an admin and an end   *)
(* user, one tab, and as many acts and failures as MaxWork.                *)
(***************************************************************************)
EXTENDS DashboardSession, TLC

MCStaff == [p \in {"ann", "bob"} |-> IF p = "ann" THEN "admin" ELSE "eu"]

Symmetry == Permutations(Admins) \union Permutations(Calls)
=============================================================================
