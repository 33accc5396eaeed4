---------------------------- MODULE MCAddOnStart ----------------------------
(***************************************************************************)
(* AddOnStart with its bounds from the configuration.                      *)
(***************************************************************************)
EXTENDS AddOnStart
=============================================================================
