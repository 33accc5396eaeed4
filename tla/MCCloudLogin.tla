---------------------------- MODULE MCCloudLogin ----------------------------
(***************************************************************************)
(* CloudLogin on small instances: cameras that reconnect at the same time, *)
(* and a client that asks for the token meanwhile.                         *)
(***************************************************************************)
EXTENDS CloudLogin
=============================================================================
