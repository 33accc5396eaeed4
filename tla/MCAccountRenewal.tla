------------------------- MODULE MCAccountRenewal -------------------------
(***************************************************************************)
(* AccountRenewal with a small renewal budget.                             *)
(***************************************************************************)
EXTENDS AccountRenewal
=============================================================================
