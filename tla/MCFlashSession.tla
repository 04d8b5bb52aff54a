--------------------------- MODULE MCFlashSession ---------------------------
(***************************************************************************)
(* An instance of FlashSession for TLC: a two-chunk image, the program's   *)
(* own budgets for a chunk, VERIFY and the version (three attempts of INFO *)
(* for twenty), enough disturbances to exhaust any of them and one to      *)
(* spare, and a controller that may reset once by itself.                  *)
(***************************************************************************)
EXTENDS FlashSession
=============================================================================
