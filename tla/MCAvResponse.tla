---------------------------- MODULE MCAvResponse ----------------------------
(***************************************************************************)
(* What TLC checks of an /av response: how it comes by its frames, and how *)
(* it puts them into packets.  The second part takes any frames in any     *)
(* order for what the first may write, so the two need not be multiplied.  *)
(***************************************************************************)
EXTENDS AvResponse, TransportStream

VARIABLE part

MCVars == <<avVars, part, streamVars>>

MCInit ==
  /\ AvInit /\ StreamInit
  /\ \/ part = "response" /\ ~carried /\ ms = [t \in Tracks |-> 560]
     \/ part = "packets" /\ sound = "other" /\ ~known /\ ~heldOff

Response(A) == part = "response" /\ A /\ UNCHANGED <<part, streamVars>>

MCNext ==
  \/ Response(AvNext)
  \/ part = "packets" /\ StreamNext /\ UNCHANGED <<part, avVars>>

MCFairSpec ==
  /\ MCInit /\ [][MCNext]_MCVars
  /\ WF_MCVars(Response(OfferPart)) /\ WF_MCVars(Response(Handle)) /\ WF_MCVars(Response(Deadline))
  /\ WF_MCVars(Response(Reader("video")))
  /\ WF_MCVars(Response(stopped /\ PumpEnd("audio") /\ UNCHANGED <<camera, handler>>))
=============================================================================
