--------------------------- MODULE MCAccountPolls ---------------------------
(***************************************************************************)
(* AccountPolls as TLC checks it: an hour of two ticks, and days that end  *)
(* at any of them.                                                         *)
(***************************************************************************)
EXTENDS AccountPolls
=============================================================================
