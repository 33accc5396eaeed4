----------------------------- MODULE FrameQueue -----------------------------
(***************************************************************************)
(* FrameQueue and the pumps that feed it: the way one viewer's frames take *)
(* from the reader threads, over the event loop's own callback queue, to   *)
(* the handler that writes them out.  offer and get both run on the event  *)
(* loop; the readers only schedule offer there.                            *)
(***************************************************************************)
EXTENDS Naturals, Sequences, FiniteSets

CONSTANTS
  Tracks,     \* the readers feeding this response: its picture, its sound
  MaxFrames,  \* bound: how many frames a track can read
  MaxSize     \* STREAM_QUEUE_MAX: how many frames may wait for the viewer

ASSUME QueueAssumption ==
  /\ IsFiniteSet(Tracks)
  /\ MaxFrames \in Nat
  /\ MaxSize \in Nat

VARIABLES
  sent,       \* how many frames each reader has handed over
  ended,      \* tracks whose pump has run its finally clause
  ready,      \* offers scheduled on the event loop, oldest first
  items,      \* FrameQueue._queue
  frames,     \* FrameQueue._frames: how many of them are frames
  dropped,    \* FrameQueue.dropped
  got,        \* the number of the latest frame the handler has got per track
  finished    \* tracks whose marker the handler has got

vars == <<sent, ended, ready, items, frames, dropped, got, finished>>

-----------------------------------------------------------------------------
Item(t, n, final) == [track |-> t, n |-> n, final |-> final]
Items == [track : Tracks, n : 0 .. MaxFrames, final : BOOLEAN]

Init ==
  /\ sent = [t \in Tracks |-> 0]
  /\ ended = {}
  /\ ready = <<>>
  /\ items = <<>> /\ frames = 0 /\ dropped = 0
  /\ got = [t \in Tracks |-> 0]
  /\ finished = {}

\* loop.call_soon_threadsafe(frames.offer, frame)
PumpFrame(t) ==
  /\ t \notin ended
  /\ sent[t] < MaxFrames
  /\ sent' = [sent EXCEPT ![t] = @ + 1]
  /\ ready' = Append(ready, Item(t, sent[t] + 1, FALSE))
  /\ UNCHANGED <<ended, items, frames, dropped, got, finished>>

\* The generator is exhausted, or raised: the marker is scheduled either way.
PumpEnd(t) ==
  /\ t \notin ended
  /\ ended' = ended \cup {t}
  /\ ready' = Append(ready, Item(t, 0, TRUE))
  /\ UNCHANGED <<sent, items, frames, dropped, got, finished>>

\* Mutant: a full queue refuses markers too.
RefusesAnything(item) == frames >= MaxSize

\* Mutant: one frame more than the limit is let in.
RefusesLate(item) == ~item.final /\ frames > MaxSize

\* A frame that finds the queue full is dropped and counted; a marker is not.
Refuses(item) == ~item.final /\ frames >= MaxSize

Counts(item) == IF item.final THEN 0 ELSE 1

\* Mutant: a full queue makes room by dropping its oldest item, a marker too.
OfferEvicting ==
  /\ ready # <<>>
  /\ ready' = Tail(ready)
  /\ IF frames >= MaxSize /\ items # <<>>
     THEN dropped' = dropped + 1 /\ items' = Append(Tail(items), Head(ready)) /\ UNCHANGED frames
     ELSE /\ items' = Append(items, Head(ready))
          /\ frames' = frames + Counts(Head(ready))
          /\ UNCHANGED dropped
  /\ UNCHANGED <<sent, ended, got, finished>>

\* Mutant: a refused frame is not counted.
OfferSilent ==
  /\ ready # <<>>
  /\ ready' = Tail(ready)
  /\ IF Refuses(Head(ready))
     THEN UNCHANGED <<items, frames, dropped>>
     ELSE /\ items' = Append(items, Head(ready))
          /\ frames' = frames + Counts(Head(ready))
          /\ UNCHANGED dropped
  /\ UNCHANGED <<sent, ended, got, finished>>

\* FrameQueue.offer, when the event loop gets to it.
Offer ==
  /\ ready # <<>>
  /\ ready' = Tail(ready)
  /\ IF Refuses(Head(ready))
     THEN dropped' = dropped + 1 /\ UNCHANGED <<items, frames>>
     ELSE /\ items' = Append(items, Head(ready))
          /\ frames' = frames + Counts(Head(ready))
          /\ UNCHANGED dropped
  /\ UNCHANGED <<sent, ended, got, finished>>

\* get, and what the handler's loop does with it: it ends with the last marker.
Get ==
  /\ items # <<>>
  /\ finished # Tracks
  /\ items' = Tail(items)
  /\ LET item == Head(items)
     IN  /\ frames' = frames - Counts(item)
         /\ IF item.final
            THEN finished' = finished \cup {item.track} /\ UNCHANGED got
            ELSE got' = [got EXCEPT ![item.track] = item.n] /\ UNCHANGED finished
  /\ UNCHANGED <<sent, ended, ready, dropped>>

Next ==
  \/ \E t \in Tracks : PumpFrame(t) \/ PumpEnd(t)
  \/ Offer
  \/ Get

Spec == Init /\ [][Next]_vars

-----------------------------------------------------------------------------
\* The type invariant: the queue's own count never goes below zero, and every
\* item waiting is one that a reader's pump scheduled.
TypeOK ==
  /\ sent \in [Tracks -> 0 .. MaxFrames] /\ got \in [Tracks -> 0 .. MaxFrames]
  /\ ended \subseteq Tracks /\ finished \subseteq Tracks
  /\ ready \in Seq(Items) /\ items \in Seq(Items)
  /\ frames \in Nat /\ dropped \in Nat

FramesIn(s) == {i \in DOMAIN s : ~s[i].final}
FramesOf(s, t) == {i \in FramesIn(s) : s[i].track = t}

\* The limit counts frames, and the count is exact: no more than MaxSize frames
\* wait, and with a marker per reader nothing else can make the queue longer.
Bounded ==
  /\ frames = Cardinality(FramesIn(items))
  /\ frames <= MaxSize
  /\ Len(items) <= MaxSize + Cardinality(Tracks)

\* A response that reports nothing dropped has missed nothing: each frame a
\* reader handed over was written out or is still on its way to the viewer.
NothingLostSilently ==
  dropped = 0 =>
    \A t \in Tracks : sent[t] = got[t] + Cardinality(FramesOf(items \o ready, t))

\* Every reader that ends is seen to end, however full the queue was when it
\* did: the response never waits for a track that has already finished.
EndReachesViewer == \A t \in Tracks : t \in ended ~> t \in finished

\* FrameQueue._queue and the loop's callback list, one after the other.
Channel == INSTANCE TrackChannel WITH chan <- items \o ready

\* Together they are a channel that keeps the order, may lose frames and never
\* loses a marker.
LossyInOrder == Channel!Spec
=============================================================================
