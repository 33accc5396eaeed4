-------------------------- MODULE MCStreamSession --------------------------
(***************************************************************************)
(* Model values for StreamSession: v1 and v2 ask for /stream or /av, a1 for *)
(* /audio.  Each configuration picks the viewers it needs.                  *)
(***************************************************************************)
EXTENDS StreamSession
=============================================================================
