---------------------------- MODULE MCDiarySave ----------------------------
(***************************************************************************)
(* DiarySave as TLC checks it: two presses, as a person and an automation  *)
(* make them, of two days that come in two chunks each.                    *)
(***************************************************************************)
EXTENDS DiarySave
=============================================================================
