---------------------------- MODULE TrackChannel ----------------------------
(***************************************************************************)
(* What the way from the reader threads to one viewer's response promises. *)
(* Frames of several tracks travel in the order they were read.  Any frame *)
(* may be lost on the way; the end-of-stream marker of a track never is.   *)
(***************************************************************************)
EXTENDS Naturals, SequencesExt

CONSTANTS
  Tracks,     \* the readers feeding this response: its picture, its sound
  MaxFrames   \* bound: how many frames a track can send

VARIABLES
  sent,       \* how many frames each track has sent
  ended,      \* tracks whose marker has been sent
  chan,       \* what is on its way, oldest first
  got,        \* the number of the latest frame taken from each track
  finished    \* tracks whose marker has been taken

vars == <<sent, ended, chan, got, finished>>

Item(t, n, final) == [track |-> t, n |-> n, final |-> final]
Items == [track : Tracks, n : Nat, final : BOOLEAN]

Init ==
  /\ sent = [t \in Tracks |-> 0]
  /\ ended = {}
  /\ chan = <<>>
  /\ got = [t \in Tracks |-> 0]
  /\ finished = {}

Send(t) ==
  /\ t \notin ended
  /\ sent[t] < MaxFrames
  /\ sent' = [sent EXCEPT ![t] = @ + 1]
  /\ chan' = Append(chan, Item(t, sent[t] + 1, FALSE))
  /\ UNCHANGED <<ended, got, finished>>

End(t) ==
  /\ t \notin ended
  /\ ended' = ended \cup {t}
  /\ chan' = Append(chan, Item(t, 0, TRUE))
  /\ UNCHANGED <<sent, got, finished>>

Lose ==
  /\ \E i \in DOMAIN chan : ~chan[i].final /\ chan' = RemoveAt(chan, i)
  /\ UNCHANGED <<sent, ended, got, finished>>

Take ==
  /\ chan # <<>>
  /\ chan' = Tail(chan)
  /\ LET item == Head(chan)
     IN  IF item.final
         THEN finished' = finished \cup {item.track} /\ UNCHANGED got
         ELSE got' = [got EXCEPT ![item.track] = item.n] /\ UNCHANGED finished
  /\ UNCHANGED <<sent, ended>>

Next ==
  \/ \E t \in Tracks : Send(t) \/ End(t)
  \/ Lose
  \/ Take

Spec == Init /\ [][Next]_vars
=============================================================================
