-------------------------- MODULE AvResponseProofs --------------------------
(***************************************************************************)
(* Proofs about FrameQueue, for any tracks, any limit and any number of    *)
(* frames: it stays within its bound, implements TrackChannel and counts   *)
(* whatever it loses.  Then about AvResponse: it uses the queue as         *)
(* FrameQueue has it, so that what is proved of the queue holds in it,     *)
(* its tables promise no sound that is not there, and what has been taken  *)
(* goes out.  Then about TransportStream: whoever reads it keeps up.       *)
(***************************************************************************)
EXTENDS AvResponse, TransportStream, SequenceTheorems, FunctionTheorems, FiniteSetTheorems,
        WellFoundedInduction, TLAPS

-----------------------------------------------------------------------------
(* Sequences of items: what one step does to the queue and what is behind  *)
(* it.                                                                     *)

\* An item added behind both is added behind the second.
LEMMA AppendBehind ==
  ASSUME NEW S, NEW s \in Seq(S), NEW t \in Seq(S), NEW e \in S
  PROVE  s \o Append(t, e) = Append(s \o t, e)
<1>1. Append(t, e) = t \o <<e>>
  BY AppendIsConcat
<1>2. s \o t \in Seq(S)
  BY ConcatProperties
<1>3. Append(s \o t, e) = (s \o t) \o <<e>>
  BY <1>2, AppendIsConcat
<1>4. <<e>> \in Seq(S)
  OBVIOUS
<1> QED BY <1>1, <1>3, <1>4, ConcatAssociative

\* An item moved from the front of the second to the back of the first stays
\* where it was.
LEMMA MoveAcross ==
  ASSUME NEW S, NEW s \in Seq(S), NEW t \in Seq(S), t # <<>>
  PROVE  Append(s, Head(t)) \o Tail(t) = s \o t
<1>1. Head(t) \in S /\ Tail(t) \in Seq(S) /\ <<Head(t)>> \in Seq(S)
  BY HeadTailProperties
<1>2. Append(s, Head(t)) = s \o <<Head(t)>>
  BY <1>1, AppendIsConcat
<1>3. t = <<Head(t)>> \o Tail(t)
  <2> DEFINE u == <<Head(t)>> \o Tail(t)
  <2>1. u \in Seq(S) /\ Len(u) = 1 + Len(Tail(t))
    BY <1>1, ConcatProperties, Len(<<Head(t)>>) = 1
  <2>2. Len(Tail(t)) = Len(t) - 1 /\ Len(t) \in Nat
        /\ \A i \in 1 .. Len(Tail(t)) : Tail(t)[i] = t[i + 1]
    BY HeadTailProperties, LenProperties
  <2>3. \A i \in 1 .. 1 + Len(Tail(t)) :
           u[i] = IF i <= 1 THEN <<Head(t)>>[i] ELSE Tail(t)[i - 1]
    BY <1>1, ConcatProperties, Len(<<Head(t)>>) = 1
  <2>4. \A i \in 1 .. Len(t) : t[i] = u[i]
    BY <2>2, <2>3
  <2>5. Len(t) = Len(u)
    BY <2>1, <2>2
  <2> HIDE DEF u
  <2>6. t = u
    BY <2>1, <2>4, <2>5, SeqEqual
  <2> QED BY <2>6 DEF u
<1>4. (s \o <<Head(t)>>) \o Tail(t) = s \o (<<Head(t)>> \o Tail(t))
  BY <1>1, ConcatAssociative
<1> QED BY <1>2, <1>3, <1>4

\* What leaves the first leaves the whole.
LEMMA TailOfFirst ==
  ASSUME NEW S, NEW s \in Seq(S), NEW t \in Seq(S), s # <<>>
  PROVE  /\ s \o t # <<>>
         /\ Tail(s) \o t = Tail(s \o t)
         /\ Head(s \o t) = Head(s)
<1> DEFINE w == s \o t
<1> DEFINE u == Tail(s) \o t
<1>1. /\ w \in Seq(S) /\ Len(w) = Len(s) + Len(t)
      /\ \A i \in 1 .. Len(s) + Len(t) : w[i] = IF i <= Len(s) THEN s[i] ELSE t[i - Len(s)]
  BY ConcatProperties
<1>2. /\ Tail(s) \in Seq(S) /\ Len(Tail(s)) = Len(s) - 1
      /\ \A i \in 1 .. Len(Tail(s)) : Tail(s)[i] = s[i + 1]
  BY HeadTailProperties
<1>3. /\ u \in Seq(S) /\ Len(u) = Len(s) - 1 + Len(t)
      /\ \A i \in 1 .. Len(s) - 1 + Len(t) :
           u[i] = IF i <= Len(s) - 1 THEN Tail(s)[i] ELSE t[i - (Len(s) - 1)]
  BY <1>2, ConcatProperties
<1>4. Len(s) \in Nat \ {0} /\ Len(t) \in Nat
  BY EmptySeq, LenProperties
<1> HIDE DEF w, u
<1>5. w # <<>>
  BY <1>1, <1>4, Len(<<>>) = 0
<1>6. /\ Tail(w) \in Seq(S) /\ Len(Tail(w)) = Len(w) - 1
      /\ \A i \in 1 .. Len(Tail(w)) : Tail(w)[i] = w[i + 1]
  BY <1>1, <1>5, HeadTailProperties
<1>7. \A i \in 1 .. Len(u) : u[i] = Tail(w)[i]
  BY <1>1, <1>2, <1>3, <1>4, <1>6
<1>8. u = Tail(w)
  BY <1>1, <1>3, <1>4, <1>6, <1>7, SeqEqual
<1>9. Head(w) = Head(s)
  BY <1>1, <1>4, <1>5
<1> QED BY <1>5, <1>8, <1>9 DEF w, u

\* What leaves the second leaves the whole just behind the first.
LEMMA TailOfSecond ==
  ASSUME NEW S, NEW s \in Seq(S), NEW t \in Seq(S), t # <<>>
  PROVE  /\ Len(s) + 1 \in DOMAIN (s \o t)
         /\ (s \o t)[Len(s) + 1] = Head(t)
         /\ s \o Tail(t) = Channel!RemoveAt(s \o t, Len(s) + 1)
<1> DEFINE w == s \o t
<1> DEFINE n == Len(s)
<1>1. /\ w \in Seq(S) /\ Len(w) = n + Len(t)
      /\ \A i \in 1 .. n + Len(t) : w[i] = IF i <= n THEN s[i] ELSE t[i - n]
  BY ConcatProperties
<1>2. n \in Nat /\ Len(t) \in Nat \ {0}
  BY EmptySeq, LenProperties
<1>3. n + 1 \in DOMAIN w
  BY <1>1, <1>2, LenProperties
<1>4. w[n + 1] = Head(t)
  BY <1>1, <1>2
<1>5. SubSeq(w, 1, n) = s
  <2> HIDE DEF n
  <2>1. \A i \in 1 .. n : w[i] \in S
    BY <1>1, <1>2, ElementOfSeq DEF n
  <2> HIDE DEF w
  <2>2. /\ SubSeq(w, 1, n) \in Seq(S)
        /\ Len(SubSeq(w, 1, n)) = n
        /\ \A i \in 1 .. n : SubSeq(w, 1, n)[i] = w[i]
    <3>1. 1 \in Int /\ n \in Int /\ n - 1 + 1 = n /\ (1 > n => n = 0)
      BY <1>2
    <3>2. /\ SubSeq(w, 1, n) \in Seq(S)
          /\ Len(SubSeq(w, 1, n)) = IF 1 <= n THEN n - 1 + 1 ELSE 0
          /\ \A i \in 1 .. n - 1 + 1 : SubSeq(w, 1, n)[i] = w[1 + i - 1]
      BY <3>1, <2>1, SubSeqProperties
    <3> QED BY <1>2, <3>1, <3>2
  <2>3. \A i \in 1 .. n : SubSeq(w, 1, n)[i] = s[i]
    BY <1>1, <1>2, <2>2
  <2> QED BY <2>2, <2>3, SeqEqual DEF n
<1>6. SubSeq(w, n + 2, Len(w)) = Tail(t)
  <2>1. /\ Tail(t) \in Seq(S) /\ Len(Tail(t)) = Len(t) - 1
        /\ \A i \in 1 .. Len(Tail(t)) : Tail(t)[i] = t[i + 1]
    BY HeadTailProperties
  <2> DEFINE u == SubSeq(w, n + 2, Len(w))
  <2> HIDE DEF n
  <2>2. \A i \in n + 2 .. Len(w) : w[i] \in S
    BY <1>1, <1>2, ElementOfSeq DEF n
  <2> HIDE DEF w
  <2>3. n + 2 \in Int /\ Len(w) \in Int
    BY <1>1, <1>2
  <2>4. /\ u \in Seq(S)
        /\ Len(u) = IF n + 2 <= Len(w) THEN Len(w) - (n + 2) + 1 ELSE 0
        /\ \A i \in 1 .. Len(w) - (n + 2) + 1 : u[i] = w[n + 2 + i - 1]
    BY <2>2, <2>3, SubSeqProperties
  <2> HIDE DEF u
  <2> DEFINE k == Len(t)
  <2>5. k \in Nat \ {0} /\ Len(w) = n + k
    BY <1>1, <1>2
  <2> HIDE DEF k
  <2>6. Len(u) = k - 1
    BY <1>2, <2>4, <2>5
  <2>7. \A i \in 1 .. k - 1 : u[i] = Tail(t)[i]
    <3> SUFFICES ASSUME NEW i \in 1 .. k - 1 PROVE u[i] = Tail(t)[i]
      OBVIOUS
    <3>1. u[i] = w[n + 2 + i - 1]
      <4>1. i \in 1 .. Len(w) - (n + 2) + 1
        BY <1>2, <2>5
      <4> QED BY <2>4, <4>1
    <3>2. n + 2 + i - 1 = n + 1 + i /\ n + 1 + i \in 1 .. n + k /\ ~(n + 1 + i <= n)
          /\ n + 1 + i - n = i + 1
      BY <1>2, <2>5
    <3>3. w[n + 1 + i] = t[i + 1]
      BY <1>1, <1>2, <2>5, <3>2 DEF k
    <3>4. Tail(t)[i] = t[i + 1]
      BY <2>1 DEF k
    <3> QED BY <3>1, <3>2, <3>3, <3>4
  <2>8. u = Tail(t)
    BY <2>1, <2>4, <2>6, <2>7, SeqEqual DEF k
  <2> QED BY <2>8 DEF u
<1>7. (n + 1) - 1 = n /\ (n + 1) + 1 = n + 2
  BY <1>2
<1> HIDE DEF w, n
<1>8. \A i : Channel!RemoveAt(w, i) = SubSeq(w, 1, i - 1) \o SubSeq(w, i + 1, Len(w))
  BY DEF Channel!RemoveAt
<1>9. Channel!RemoveAt(w, n + 1) = SubSeq(w, 1, (n + 1) - 1) \o SubSeq(w, (n + 1) + 1, Len(w))
  BY <1>8
<1>10. Channel!RemoveAt(w, n + 1) = s \o Tail(t)
  BY <1>5, <1>6, <1>7, <1>9
<1> QED BY <1>3, <1>4, <1>10 DEF w, n

-----------------------------------------------------------------------------
(* Counting the frames in a sequence of items.                             *)

\* Adding an item adds what it counts.
LEMMA FramesAppend ==
  ASSUME NEW s \in Seq(Items), NEW e \in Items
  PROVE  /\ IsFiniteSet(FramesIn(s))
         /\ Cardinality(FramesIn(s)) \in Nat
         /\ Cardinality(FramesIn(Append(s, e))) = Cardinality(FramesIn(s)) + Counts(e)
<1> DEFINE n == Len(s)
<1>1. n \in Nat /\ DOMAIN s = 1 .. n
  BY LenProperties
<1>2. FramesIn(s) \subseteq 1 .. n
  BY <1>1 DEF FramesIn
<1>3. IsFiniteSet(1 .. n)
  BY <1>1, FS_Interval
<1>4. IsFiniteSet(FramesIn(s))
  BY <1>2, <1>3, FS_Subset
<1>5. Cardinality(FramesIn(s)) \in Nat
  BY <1>4, FS_CardinalityType
<1>6. /\ Append(s, e) \in Seq(Items) /\ Len(Append(s, e)) = n + 1
      /\ \A i \in 1 .. n : Append(s, e)[i] = s[i]
      /\ Append(s, e)[n + 1] = e
  BY AppendProperties
<1>7. DOMAIN Append(s, e) = 1 .. n + 1
  BY <1>6, LenProperties
<1>8. CASE e.final
  <2>1. FramesIn(Append(s, e)) = FramesIn(s)
    BY <1>1, <1>6, <1>7, <1>8 DEF FramesIn
  <2> QED BY <1>4, <1>5, <1>8, <2>1 DEF Counts
<1>9. CASE ~e.final
  <2>1. FramesIn(Append(s, e)) = FramesIn(s) \cup {n + 1}
    BY <1>1, <1>6, <1>7, <1>9 DEF FramesIn
  <2>2. n + 1 \notin FramesIn(s)
    BY <1>1, <1>2
  <2>3. Cardinality(FramesIn(s) \cup {n + 1}) = Cardinality(FramesIn(s)) + 1
    BY <1>4, <2>2, FS_AddElement
  <2> QED BY <1>4, <1>5, <1>9, <2>1, <2>3 DEF Counts
<1> QED BY <1>8, <1>9

\* Taking the oldest item takes what it counts.
LEMMA FramesTail ==
  ASSUME NEW s \in Seq(Items), s # <<>>
  PROVE  /\ Cardinality(FramesIn(Tail(s))) = Cardinality(FramesIn(s)) - Counts(Head(s))
         /\ Cardinality(FramesIn(Tail(s))) \in Nat
<1> DEFINE n == Len(s)
<1> DEFINE A == FramesIn(s) \ {1}
<1> DEFINE B == FramesIn(Tail(s))
<1> DEFINE f == [i \in A |-> i - 1]
<1>1. n \in Nat \ {0} /\ DOMAIN s = 1 .. n
  BY EmptySeq, LenProperties
<1>2. /\ Tail(s) \in Seq(Items) /\ Len(Tail(s)) = n - 1
      /\ \A i \in 1 .. n - 1 : Tail(s)[i] = s[i + 1]
  BY HeadTailProperties
<1>3. DOMAIN Tail(s) = 1 .. n - 1
  BY <1>2, LenProperties
<1>4. A = {i \in 2 .. n : ~s[i].final}
  BY <1>1 DEF FramesIn
<1>5. B = {i \in 1 .. n - 1 : ~s[i + 1].final}
  BY <1>2, <1>3 DEF FramesIn
<1>6. IsFiniteSet(FramesIn(s))
  <2>1. FramesIn(s) \subseteq 1 .. n /\ IsFiniteSet(1 .. n)
    BY <1>1, FS_Interval DEF FramesIn
  <2> QED BY <2>1, FS_Subset
<1>7. /\ IsFiniteSet(A)
      /\ Cardinality(A) = IF 1 \in FramesIn(s) THEN Cardinality(FramesIn(s)) - 1
                                               ELSE Cardinality(FramesIn(s))
  BY <1>6, FS_RemoveElement
<1>8. 1 \in FramesIn(s) <=> ~Head(s).final
  BY <1>1 DEF FramesIn
<1>9. ExistsBijection(A, B)
  <2> HIDE DEF A, B
  <2>1. f \in [A -> B]
    BY <1>1, <1>4, <1>5
  <2>2. \A a, b \in A : f[a] = f[b] => a = b
    BY <1>1, <1>4
  <2>3. \A t \in B : \E a \in A : f[a] = t
    <3> SUFFICES ASSUME NEW t \in B PROVE \E a \in A : f[a] = t
      OBVIOUS
    <3>1. t + 1 \in A /\ (t + 1) - 1 = t
      BY <1>1, <1>4, <1>5
    <3> QED BY <3>1
  <2> HIDE DEF f
  <2>4. f \in Bijection(A, B)
    BY <2>1, <2>2, <2>3, Fun_IsBij
  <2> QED BY <2>4, Fun_ExistsBij
<1>10. Cardinality(B) = Cardinality(A) /\ IsFiniteSet(B)
  BY <1>7, <1>9, FS_Bijection
<1>11. Cardinality(B) \in Nat /\ Cardinality(FramesIn(s)) \in Nat
  BY <1>6, <1>10, FS_CardinalityType
<1> QED BY <1>7, <1>8, <1>10, <1>11 DEF Counts

-----------------------------------------------------------------------------
(* The inductive invariant.                                                *)

\* The count the limit is compared with is exact.
CountExact == frames = Cardinality(FramesIn(items)) /\ frames <= MaxSize

\* On the way to the viewer there is at most one marker per track, and none of
\* a track whose reader is still going.
OneMarker(way, closed) ==
  /\ \A i \in DOMAIN way : way[i].final => way[i].track \in closed
  /\ \A i, j \in DOMAIN way :
       (way[i].final /\ way[j].final /\ way[i].track = way[j].track) => i = j

IInv == TypeOK /\ CountExact /\ OneMarker(items \o ready, ended)

\* OneMarker survives an item added to the way, of a track still going.
LEMMA OneMarkerAppend ==
  ASSUME NEW way \in Seq(Items), NEW e \in Items, NEW closed, NEW after,
         OneMarker(way, closed), e.track \notin closed,
         after = IF e.final THEN closed \cup {e.track} ELSE closed
  PROVE  OneMarker(Append(way, e), after)
<1> DEFINE n == Len(way)
<1> DEFINE w == Append(way, e)
<1>1. n \in Nat /\ DOMAIN way = 1 .. n
  BY LenProperties
<1>2. /\ w \in Seq(Items) /\ Len(w) = n + 1
      /\ \A i \in 1 .. n : w[i] = way[i]
      /\ w[n + 1] = e
  BY AppendProperties
<1>3. DOMAIN w = 1 .. n + 1
  BY <1>2, LenProperties
<1> HIDE DEF w, n
<1>4. \A i \in DOMAIN w : w[i].final => w[i].track \in after
  BY <1>1, <1>2, <1>3 DEF OneMarker
<1>5. ASSUME NEW i \in DOMAIN w, NEW j \in DOMAIN w,
             w[i].final, w[j].final, w[i].track = w[j].track
      PROVE  i = j
  <2>1. (i \in DOMAIN way \/ i = n + 1) /\ (j \in DOMAIN way \/ j = n + 1)
    BY <1>1, <1>3
  <2>2. \A k \in DOMAIN way : w[k] = way[k] /\ (w[k].final => w[k].track # e.track)
    BY <1>1, <1>2 DEF OneMarker
  <2> QED BY <1>2, <1>5, <2>1, <2>2 DEF OneMarker
<1> QED BY <1>4, <1>5 DEF OneMarker, w

\* OneMarker survives an item leaving the way, from its front or further back.
LEMMA OneMarkerRemove ==
  ASSUME NEW way \in Seq(Items), NEW w \in Seq(Items), NEW closed, OneMarker(way, closed),
         NEW p \in DOMAIN way, Len(w) = Len(way) - 1,
         \A i \in 1 .. Len(w) : w[i] = IF i < p THEN way[i] ELSE way[i + 1]
  PROVE  OneMarker(w, closed)
<1> DEFINE n == Len(way)
<1>1. n \in Nat /\ DOMAIN way = 1 .. n /\ DOMAIN w = 1 .. n - 1 /\ p \in 1 .. n
  BY LenProperties
<1> DEFINE at(i) == IF i < p THEN i ELSE i + 1
<1>2. \A i \in DOMAIN w : at(i) \in DOMAIN way /\ w[i] = way[at(i)]
  BY <1>1
<1>3. \A i, j \in DOMAIN w : at(i) = at(j) => i = j
  BY <1>1
<1> HIDE DEF at
<1>4. \A i \in DOMAIN w : w[i].final => w[i].track \in closed
  BY <1>2 DEF OneMarker
<1>5. \A i, j \in DOMAIN w : (w[i].final /\ w[j].final /\ w[i].track = w[j].track) => i = j
  BY <1>2, <1>3 DEF OneMarker
<1> QED BY <1>4, <1>5 DEF OneMarker

-----------------------------------------------------------------------------
(* One step at a time.                                                     *)

\* Scheduling an item adds it behind everything else on the way.
LEMMA PumpWay ==
  ASSUME TypeOK, NEW e \in Items, ready' = Append(ready, e), UNCHANGED items
  PROVE  /\ items \o ready \in Seq(Items)
         /\ ready' \in Seq(Items)
         /\ (items \o ready)' = Append(items \o ready, e)
<1>1. items \in Seq(Items) /\ ready \in Seq(Items)
  BY DEF TypeOK
<1>2. items \o ready \in Seq(Items)
  BY <1>1, ConcatProperties
<1>3. ready' \in Seq(Items)
  BY <1>1, AppendProperties
<1>4. items \o Append(ready, e) = Append(items \o ready, e)
  BY <1>1, AppendBehind
<1> QED BY <1>2, <1>3, <1>4

LEMMA PumpFrameStep ==
  ASSUME IInv, NEW t \in Tracks, PumpFrame(t)
  PROVE  IInv' /\ Channel!Send(t)
<1> DEFINE e == Item(t, sent[t] + 1, FALSE)
<1>1. e \in Items /\ sent[t] \in 0 .. MaxFrames /\ MaxFrames \in Nat /\ sent[t] < MaxFrames
  BY QueueAssumption DEF IInv, TypeOK, PumpFrame, Item, Items
<1>2. e.track = t /\ e.final = FALSE
  BY DEF Item
<1>3. ready' = Append(ready, e) /\ UNCHANGED <<ended, items, frames, dropped, got, finished>>
      /\ t \notin ended /\ sent' = [sent EXCEPT ![t] = @ + 1]
  BY DEF PumpFrame
<1>4. e = Channel!Item(t, sent[t] + 1, FALSE)
  BY DEF Item, Channel!Item
<1> HIDE DEF e
<1>5. TypeOK /\ CountExact /\ OneMarker(items \o ready, ended)
  BY DEF IInv
<1>6. /\ items \o ready \in Seq(Items)
      /\ ready' \in Seq(Items)
      /\ (items \o ready)' = Append(items \o ready, e)
  BY <1>1, <1>3, <1>5, PumpWay
<1>7. sent' \in [Tracks -> 0 .. MaxFrames]
  BY <1>1, <1>3, <1>5 DEF TypeOK
<1>8. TypeOK'
  BY <1>3, <1>5, <1>6, <1>7 DEF TypeOK
<1>9. CountExact'
  BY <1>3, <1>5 DEF CountExact
<1>10. OneMarker(items \o ready, ended)'
  <2>1. ended' = IF e.final THEN ended \cup {e.track} ELSE ended
    BY <1>2, <1>3
  <2>2. OneMarker(Append(items \o ready, e), ended')
    BY <1>1, <1>2, <1>3, <1>5, <1>6, <2>1, OneMarkerAppend
  <2> QED BY <1>6, <2>2
<1>11. Channel!Send(t)
  BY <1>1, <1>3, <1>4, <1>6 DEF Channel!Send
<1> QED BY <1>8, <1>9, <1>10, <1>11 DEF IInv

LEMMA PumpEndStep ==
  ASSUME IInv, NEW t \in Tracks, PumpEnd(t)
  PROVE  IInv' /\ Channel!End(t)
<1> DEFINE e == Item(t, 0, TRUE)
<1>1. e \in Items
  BY QueueAssumption DEF Item, Items
<1>2. e.track = t /\ e.final = TRUE
  BY DEF Item
<1>3. ready' = Append(ready, e) /\ UNCHANGED <<sent, items, frames, dropped, got, finished>>
      /\ t \notin ended /\ ended' = ended \cup {t}
  BY DEF PumpEnd
<1>4. e = Channel!Item(t, 0, TRUE)
  BY DEF Item, Channel!Item
<1> HIDE DEF e
<1>5. TypeOK /\ CountExact /\ OneMarker(items \o ready, ended)
  BY DEF IInv
<1>6. /\ items \o ready \in Seq(Items)
      /\ ready' \in Seq(Items)
      /\ (items \o ready)' = Append(items \o ready, e)
  BY <1>1, <1>3, <1>5, PumpWay
<1>7. TypeOK'
  BY <1>3, <1>5, <1>6 DEF TypeOK
<1>8. CountExact'
  BY <1>3, <1>5 DEF CountExact
<1>9. OneMarker(items \o ready, ended)'
  <2>1. ended' = IF e.final THEN ended \cup {e.track} ELSE ended
    BY <1>2, <1>3
  <2>2. OneMarker(Append(items \o ready, e), ended')
    BY <1>1, <1>2, <1>3, <1>5, <1>6, <2>1, OneMarkerAppend
  <2> QED BY <1>6, <2>2
<1>10. Channel!End(t)
  BY <1>3, <1>4, <1>6 DEF Channel!End
<1> QED BY <1>7, <1>8, <1>9, <1>10 DEF IInv

\* An offer either moves an item across, which the channel does not see, or
\* loses a frame.
LEMMA OfferStep ==
  ASSUME IInv, Offer
  PROVE  IInv' /\ (Channel!Lose \/ UNCHANGED Channel!vars)
<1> DEFINE e == Head(ready)
<1>1. /\ ready # <<>> /\ ready' = Tail(ready)
      /\ UNCHANGED <<sent, ended, got, finished>>
  BY DEF Offer
<1>2. TypeOK /\ CountExact /\ OneMarker(items \o ready, ended)
  BY DEF IInv
<1>3. items \in Seq(Items) /\ ready \in Seq(Items)
  BY <1>2 DEF TypeOK
<1>4. e \in Items /\ Tail(ready) \in Seq(Items)
  BY <1>1, <1>3, HeadTailProperties
<1>5. CASE Refuses(e)
  <2>1. dropped' = dropped + 1 /\ UNCHANGED <<items, frames>> /\ ~e.final
    BY <1>5 DEF Offer, Refuses
  <2>2. TypeOK'
    BY <1>1, <1>2, <1>4, <2>1 DEF TypeOK
  <2>3. CountExact'
    BY <1>2, <2>1 DEF CountExact
  <2> DEFINE way == items \o ready
  <2> DEFINE w == items \o Tail(ready)
  <2> DEFINE p == Len(items) + 1
  <2>4. p \in DOMAIN way /\ way[p] = e /\ w = Channel!RemoveAt(way, p)
    BY <1>1, <1>3, TailOfSecond
  <2>5. /\ way \in Seq(Items) /\ Len(way) = Len(items) + Len(ready)
        /\ \A i \in 1 .. Len(items) + Len(ready) :
             way[i] = IF i <= Len(items) THEN items[i] ELSE ready[i - Len(items)]
    BY <1>3, ConcatProperties
  <2>6. /\ w \in Seq(Items) /\ Len(w) = Len(items) + Len(Tail(ready))
        /\ \A i \in 1 .. Len(items) + Len(Tail(ready)) :
             w[i] = IF i <= Len(items) THEN items[i] ELSE Tail(ready)[i - Len(items)]
    BY <1>3, <1>4, ConcatProperties
  <2>7. /\ Len(Tail(ready)) = Len(ready) - 1
        /\ \A i \in 1 .. Len(Tail(ready)) : Tail(ready)[i] = ready[i + 1]
    BY <1>1, <1>3, HeadTailProperties
  <2>8. Len(items) \in Nat /\ Len(ready) \in Nat
    BY <1>3, LenProperties
  <2> HIDE DEF way, w
  <2>9. Len(w) = Len(way) - 1
    <3> DEFINE a == Len(items)
    <3> DEFINE b == Len(ready)
    <3> DEFINE c == Len(Tail(ready))
    <3>1. Len(w) = a + c /\ Len(way) = a + b /\ c = b - 1 /\ a \in Nat /\ b \in Nat
      BY <2>5, <2>6, <2>7, <2>8
    <3> HIDE DEF a, b, c
    <3> QED BY <3>1
  <2>10. \A i \in 1 .. Len(w) : w[i] = IF i < p THEN way[i] ELSE way[i + 1]
    <3> SUFFICES ASSUME NEW i \in 1 .. Len(w)
                 PROVE  w[i] = IF i < p THEN way[i] ELSE way[i + 1]
      OBVIOUS
    <3>1. CASE i <= Len(items)
      <4>1. i \in 1 .. Len(items) + Len(Tail(ready)) /\ i \in 1 .. Len(items) + Len(ready) /\ i < p
        BY <2>6, <2>7, <2>8, <3>1
      <4>2. w[i] = items[i] /\ way[i] = items[i]
        BY <2>5, <2>6, <3>1, <4>1
      <4> QED BY <4>1, <4>2
    <3>2. CASE ~(i <= Len(items))
      <4>1. w[i] = Tail(ready)[i - Len(items)] /\ i - Len(items) \in 1 .. Len(Tail(ready))
        BY <2>6, <2>7, <2>8, <3>2
      <4>2. Tail(ready)[i - Len(items)] = ready[(i - Len(items)) + 1]
        BY <2>7, <4>1
      <4>3. i + 1 \in 1 .. Len(items) + Len(ready) /\ ~(i + 1 <= Len(items))
            /\ (i + 1) - Len(items) = (i - Len(items)) + 1 /\ ~(i < p)
        BY <2>6, <2>7, <2>8, <3>2
      <4>4. way[i + 1] = ready[(i + 1) - Len(items)]
        BY <2>5, <4>3
      <4> QED BY <4>1, <4>2, <4>3, <4>4
    <3> QED BY <3>1, <3>2
  <2> HIDE DEF p
  <2>11. OneMarker(way, ended)
    BY <1>2 DEF way
  <2>12. OneMarker(w, ended)
    BY <2>4, <2>5, <2>6, <2>9, <2>10, <2>11, OneMarkerRemove
  <2>13. OneMarker(items \o ready, ended)'
    BY <1>1, <2>1, <2>12 DEF w
  <2>14. (items \o ready)' = Channel!RemoveAt(items \o ready, p)
    BY <1>1, <2>1, <2>4 DEF w, way
  <2>15. p \in DOMAIN (items \o ready) /\ ~(items \o ready)[p].final
    BY <2>1, <2>4 DEF way
  <2>16. Channel!Lose
    BY <1>1, <2>14, <2>15 DEF Channel!Lose
  <2> QED BY <2>2, <2>3, <2>13, <2>16 DEF IInv
<1>6. CASE ~Refuses(e)
  <2>1. items' = Append(items, e) /\ frames' = frames + Counts(e) /\ UNCHANGED dropped
    BY <1>6 DEF Offer
  <2>2. items' \in Seq(Items)
    BY <1>3, <1>4, <2>1, AppendProperties
  <2>3. Cardinality(FramesIn(items')) = Cardinality(FramesIn(items)) + Counts(e)
    BY <1>3, <1>4, <2>1, FramesAppend
  <2>4. frames \in Nat /\ Counts(e) \in {0, 1}
    BY <1>2 DEF TypeOK, Counts
  <2>5. frames' \in Nat
    BY <2>1, <2>4
  <2>6. TypeOK'
    BY <1>1, <1>2, <1>4, <2>1, <2>2, <2>5 DEF TypeOK
  <2>7. frames + Counts(e) <= MaxSize
    <3>1. MaxSize \in Nat /\ frames <= MaxSize /\ (e.final \/ ~(frames >= MaxSize))
      BY <1>2, <1>6, QueueAssumption DEF CountExact, Refuses
    <3> QED BY <2>4, <3>1 DEF Counts
  <2>8. CountExact'
    BY <1>2, <2>1, <2>3, <2>7 DEF CountExact
  <2>9. (items \o ready)' = items \o ready
    BY <1>1, <1>3, <2>1, MoveAcross
  <2>10. OneMarker(items \o ready, ended)'
    BY <1>1, <1>2, <2>9
  <2>11. UNCHANGED Channel!vars
    BY <1>1, <2>9 DEF Channel!vars
  <2> QED BY <2>6, <2>8, <2>10, <2>11 DEF IInv
<1> QED BY <1>5, <1>6

\* What the handler gets is the oldest item on the whole way.
LEMMA GetStep ==
  ASSUME IInv, Get
  PROVE  IInv' /\ Channel!Take
<1> DEFINE e == Head(items)
<1> DEFINE way == items \o ready
<1>1. /\ items # <<>> /\ items' = Tail(items) /\ frames' = frames - Counts(e)
      /\ UNCHANGED <<sent, ended, ready, dropped>>
      /\ IF e.final
         THEN finished' = finished \cup {e.track} /\ UNCHANGED got
         ELSE got' = [got EXCEPT ![e.track] = e.n] /\ UNCHANGED finished
  BY DEF Get
<1>2. TypeOK /\ CountExact /\ OneMarker(way, ended)
  BY DEF IInv
<1>3. items \in Seq(Items) /\ ready \in Seq(Items)
  BY <1>2 DEF TypeOK
<1>4. e \in Items /\ Tail(items) \in Seq(Items)
  BY <1>1, <1>3, HeadTailProperties
<1>5. way # <<>> /\ (items \o ready)' = Tail(way) /\ Head(way) = e
  BY <1>1, <1>3, TailOfFirst
<1>6. way \in Seq(Items)
  BY <1>3, ConcatProperties
<1> HIDE DEF e, way
<1>7. CountExact' /\ frames' \in Nat
  <2>1. /\ Cardinality(FramesIn(items')) = Cardinality(FramesIn(items)) - Counts(e)
        /\ Cardinality(FramesIn(items')) \in Nat
    BY <1>1, <1>3, FramesTail DEF e
  <2>2. frames \in Nat /\ MaxSize \in Nat /\ Counts(e) \in {0, 1}
    BY <1>2, QueueAssumption DEF TypeOK, Counts
  <2> QED BY <1>1, <1>2, <2>1, <2>2 DEF CountExact
<1>8. TypeOK'
  <2>1. e.track \in Tracks /\ e.n \in 0 .. MaxFrames
    BY <1>4 DEF Items
  <2>2. got' \in [Tracks -> 0 .. MaxFrames] /\ finished' \subseteq Tracks
    BY <1>1, <1>2, <2>1 DEF TypeOK
  <2> QED BY <1>1, <1>2, <1>4, <1>7, <2>2 DEF TypeOK
<1>9. OneMarker(items \o ready, ended)'
  <2> DEFINE w == Tail(way)
  <2>1. /\ w \in Seq(Items) /\ Len(w) = Len(way) - 1
        /\ \A i \in 1 .. Len(w) : w[i] = way[i + 1]
    BY <1>5, <1>6, HeadTailProperties
  <2>2. 1 \in DOMAIN way /\ Len(way) \in Nat
    BY <1>5, <1>6, EmptySeq, LenProperties
  <2> HIDE DEF w
  <2>3. \A i \in 1 .. Len(w) : w[i] = IF i < 1 THEN way[i] ELSE way[i + 1]
    BY <2>1, <2>2
  <2>4. OneMarker(w, ended)
    BY <1>2, <1>6, <2>1, <2>2, <2>3, OneMarkerRemove
  <2> QED BY <1>1, <1>5, <2>4 DEF w
<1>10. Channel!Take
  BY <1>1, <1>5 DEF Channel!Take, way
<1> QED BY <1>7, <1>8, <1>9, <1>10 DEF IInv

LEMMA InitIInv == Init => IInv /\ Channel!Init
<1> SUFFICES ASSUME Init PROVE IInv /\ Channel!Init
  OBVIOUS
<1>1. items = <<>> /\ ready = <<>> /\ frames = 0 /\ ended = {} /\ finished = {} /\ dropped = 0
      /\ sent = [t \in Tracks |-> 0] /\ got = [t \in Tracks |-> 0]
  BY DEF Init
<1>2. <<>> \in Seq(Items)
  BY EmptySeq
<1>3. MaxFrames \in Nat /\ MaxSize \in Nat
  BY QueueAssumption
<1>4. items \o ready = <<>>
  BY <1>1, <1>2, ConcatEmptySeq
<1>5. TypeOK
  BY <1>1, <1>2, <1>3 DEF TypeOK
<1>6. DOMAIN <<>> = {}
  BY <1>2, LenProperties, Len(<<>>) = 0
<1>7. FramesIn(items) = {}
  BY <1>1, <1>6 DEF FramesIn
<1>8. CountExact
  BY <1>1, <1>3, <1>7, FS_EmptySet DEF CountExact
<1>9. OneMarker(items \o ready, ended)
  BY <1>4, <1>6 DEF OneMarker
<1>10. Channel!Init
  BY <1>1, <1>4 DEF Channel!Init
<1> QED BY <1>5, <1>8, <1>9, <1>10 DEF IInv

LEMMA NextIInv ==
  IInv /\ [Next]_vars => IInv' /\ (Channel!Next \/ UNCHANGED Channel!vars)
<1> SUFFICES ASSUME IInv, [Next]_vars
             PROVE  IInv' /\ (Channel!Next \/ UNCHANGED Channel!vars)
  OBVIOUS
<1>1. ASSUME NEW t \in Tracks, PumpFrame(t)
      PROVE  IInv' /\ Channel!Next
  BY <1>1, PumpFrameStep DEF Channel!Next
<1>2. ASSUME NEW t \in Tracks, PumpEnd(t)
      PROVE  IInv' /\ Channel!Next
  BY <1>2, PumpEndStep DEF Channel!Next
<1>3. CASE Offer
  BY <1>3, OfferStep DEF Channel!Next
<1>4. CASE Get
  BY <1>4, GetStep DEF Channel!Next
<1>5. CASE UNCHANGED vars
  <2>1. UNCHANGED <<sent, ended, ready, items, frames, dropped, got, finished>>
    BY <1>5 DEF vars
  <2>2. UNCHANGED Channel!vars
    BY <2>1 DEF Channel!vars
  <2>3. IInv'
    BY <2>1 DEF IInv, TypeOK, CountExact, OneMarker
  <2> QED BY <2>2, <2>3
<1> QED BY <1>1, <1>2, <1>3, <1>4, <1>5 DEF Next

\* A queue with one marker per track is no longer than its frames and a marker
\* for each track.
LEMMA MarkersFew ==
  ASSUME NEW s \in Seq(Items), NEW closed, OneMarker(s, closed)
  PROVE  Len(s) <= Cardinality(FramesIn(s)) + Cardinality(Tracks)
<1> DEFINE n == Len(s)
<1> DEFINE M == (1 .. n) \ FramesIn(s)
<1> DEFINE f == [i \in M |-> s[i].track]
<1>1. n \in Nat /\ DOMAIN s = 1 .. n
  BY LenProperties
<1>2. \A i \in M : i \in DOMAIN s /\ s[i].final
  BY <1>1 DEF FramesIn
<1>3. f \in [M -> Tracks]
  <2>1. \A i \in 1 .. n : s[i] \in Items
    BY ElementOfSeq
  <2> QED BY <2>1 DEF Items
<1>4. \A i, j \in M : f[i] = f[j] => i = j
  BY <1>2 DEF OneMarker
<1>5. IsFiniteSet(Tracks) /\ Cardinality(Tracks) \in Nat
  BY QueueAssumption, FS_CardinalityType
<1>6. IsFiniteSet(1 .. n) /\ Cardinality(1 .. n) = n
  <2> HIDE DEF n
  <2>1. /\ IsFiniteSet(1 .. n)
        /\ Cardinality(1 .. n) = IF 1 > n THEN 0 ELSE n - 1 + 1
    BY <1>1, FS_Interval
  <2> QED BY <1>1, <2>1
<1>7. FramesIn(s) \subseteq 1 .. n
  BY <1>1 DEF FramesIn
<1> HIDE DEF M, f
<1>8. f \in Injection(M, Tracks)
  BY <1>3, <1>4, Fun_IsInj
<1>9. Cardinality(M) <= Cardinality(Tracks) /\ IsFiniteSet(M)
  BY <1>5, <1>8, FS_Injection
<1>10. Cardinality(M) = n - Cardinality(FramesIn(s))
  <2>1. (1 .. n) \cap FramesIn(s) = FramesIn(s)
    BY <1>7
  <2>2. Cardinality(M) = Cardinality(1 .. n) - Cardinality((1 .. n) \cap FramesIn(s))
    <3> HIDE DEF n
    <3> QED BY <1>6, FS_Difference DEF M
  <2> QED BY <1>6, <2>1, <2>2
<1>11. Cardinality(M) \in Nat /\ Cardinality(FramesIn(s)) \in Nat
  BY <1>6, <1>7, <1>9, FS_Subset, FS_CardinalityType
<1> QED BY <1>1, <1>5, <1>9, <1>10, <1>11

-----------------------------------------------------------------------------
(* The theorems.                                                           *)

LEMMA Invariance == Spec => []IInv
<1>1. Init => IInv
  BY InitIInv
<1>2. IInv /\ [Next]_vars => IInv'
  BY NextIInv
<1> QED BY <1>1, <1>2, PTL DEF Spec

\* FrameQueue's variables keep their types; the count never goes below zero.
THEOREM TypeCorrect == Spec => []TypeOK
<1>1. IInv => TypeOK
  BY DEF IInv
<1> QED BY <1>1, Invariance, PTL

\* No more than MaxSize frames wait for the viewer, and with the markers, one
\* per track, nothing else: a viewer that stops reading costs a bounded memory.
THEOREM BoundHolds == Spec => []Bounded
<1>1. IInv => Bounded
  <2> SUFFICES ASSUME IInv PROVE Bounded
    OBVIOUS
  <2>1. items \in Seq(Items) /\ ready \in Seq(Items)
    BY DEF IInv, TypeOK
  <2>2. OneMarker(items, ended)
    <3>1. OneMarker(items \o ready, ended)
      BY DEF IInv
    <3>2. \A i \in DOMAIN items : i \in DOMAIN (items \o ready) /\ (items \o ready)[i] = items[i]
      <4>1. /\ items \o ready \in Seq(Items)
            /\ Len(items \o ready) = Len(items) + Len(ready)
            /\ \A i \in 1 .. Len(items) + Len(ready) :
                 (items \o ready)[i] = IF i <= Len(items) THEN items[i] ELSE ready[i - Len(items)]
        BY <2>1, ConcatProperties
      <4>2. /\ DOMAIN items = 1 .. Len(items) /\ Len(items) \in Nat /\ Len(ready) \in Nat
            /\ DOMAIN (items \o ready) = 1 .. Len(items \o ready)
        BY <2>1, <4>1, LenProperties
      <4> QED BY <4>1, <4>2
    <3> QED BY <3>1, <3>2 DEF OneMarker
  <2>3. Len(items) <= Cardinality(FramesIn(items)) + Cardinality(Tracks)
    BY <2>1, <2>2, MarkersFew
  <2>4. frames = Cardinality(FramesIn(items)) /\ frames <= MaxSize /\ frames \in Nat
    BY DEF IInv, CountExact, TypeOK
  <2>5. Len(items) \in Nat /\ Cardinality(Tracks) \in Nat /\ MaxSize \in Nat
    BY <2>1, QueueAssumption, LenProperties, FS_CardinalityType
  <2> QED BY <2>3, <2>4, <2>5 DEF Bounded
<1> QED BY <1>1, Invariance, PTL

\* offer and get together implement the channel: what the handler gets of each
\* track is in the order it was read, and its end is never lost, whatever the
\* limit and however the readers and the event loop interleave.
THEOREM ImplementsChannel == Spec => LossyInOrder
<1>1. Init => Channel!Init
  BY InitIInv
<1>2. IInv /\ [Next]_vars => [Channel!Next]_(Channel!vars)
  BY NextIInv
<1> QED BY <1>1, <1>2, Invariance, PTL DEF Spec, LossyInOrder, Channel!Spec

-----------------------------------------------------------------------------
(* Nothing is lost without being counted.                                  *)

\* The frames of one track that are on the way follow each other without a gap,
\* from the one after the last that was got to the last that was sent.
Unbroken(way, t, from, to) ==
  LET F == FramesOf(way, t) IN
  /\ F = {} => from = to
  /\ \A i \in F : (\A j \in F : i <= j) => way[i].n = from + 1
  /\ \A i \in F : (\A j \in F : j <= i) => way[i].n = to
  /\ \A i, j \in F : i < j /\ (\A k \in F : k <= i \/ j <= k) => way[j].n = way[i].n + 1
  /\ to = from + Cardinality(F)

Lossless ==
  dropped = 0 => \A t \in Tracks : Unbroken(items \o ready, t, got[t], sent[t])

\* What an item counts for in its track.
CountsFor(e, t) == IF e.track = t THEN Counts(e) ELSE 0

\* An item added is one frame of its track more, or none.
LEMMA FramesOfAppend ==
  ASSUME NEW s \in Seq(Items), NEW e \in Items, NEW t
  PROVE  /\ FramesOf(s, t) \subseteq 1 .. Len(s)
         /\ IsFiniteSet(FramesOf(s, t)) /\ Cardinality(FramesOf(s, t)) \in Nat
         /\ FramesOf(Append(s, e), t) =
              FramesOf(s, t) \cup (IF e.track = t /\ ~e.final THEN {Len(s) + 1} ELSE {})
         /\ Cardinality(FramesOf(Append(s, e), t)) = Cardinality(FramesOf(s, t)) + CountsFor(e, t)
<1> DEFINE n == Len(s)
<1>1. n \in Nat /\ DOMAIN s = 1 .. n
  BY LenProperties
<1>2. /\ Append(s, e) \in Seq(Items) /\ Len(Append(s, e)) = n + 1
      /\ \A i \in 1 .. n : Append(s, e)[i] = s[i]
      /\ Append(s, e)[n + 1] = e
  BY AppendProperties
<1>3. DOMAIN Append(s, e) = 1 .. n + 1
  BY <1>2, LenProperties
<1>4. FramesOf(s, t) \subseteq 1 .. n /\ IsFiniteSet(1 .. n)
  BY <1>1, FS_Interval DEF FramesOf, FramesIn
<1>5. IsFiniteSet(FramesOf(s, t)) /\ Cardinality(FramesOf(s, t)) \in Nat
  BY <1>4, FS_Subset, FS_CardinalityType
<1>6. FramesOf(Append(s, e), t) =
        FramesOf(s, t) \cup (IF e.track = t /\ ~e.final THEN {n + 1} ELSE {})
  BY <1>1, <1>2, <1>3 DEF FramesOf, FramesIn
<1>7. n + 1 \notin FramesOf(s, t)
  BY <1>1, <1>4
<1>8. Cardinality(FramesOf(s, t) \cup {n + 1}) = Cardinality(FramesOf(s, t)) + 1
  BY <1>5, <1>7, FS_AddElement
<1>9. Cardinality(FramesOf(Append(s, e), t)) = Cardinality(FramesOf(s, t)) + CountsFor(e, t)
  <2> HIDE DEF n
  <2>1. CASE e.track = t /\ ~e.final
    BY <1>6, <1>8, <2>1 DEF CountsFor, Counts
  <2>2. CASE ~(e.track = t /\ ~e.final)
    <3>1. FramesOf(Append(s, e), t) = FramesOf(s, t) /\ CountsFor(e, t) = 0
      BY <1>6, <2>2 DEF CountsFor, Counts
    <3> QED BY <1>5, <3>1
  <2> QED BY <2>1, <2>2
<1> QED BY <1>4, <1>5, <1>6, <1>9

\* The oldest item taken is one frame of its track less, or none.
LEMMA FramesOfTail ==
  ASSUME NEW s \in Seq(Items), s # <<>>, NEW t
  PROVE  /\ FramesOf(Tail(s), t) = {i \in 1 .. Len(s) - 1 : i + 1 \in FramesOf(s, t)}
         /\ 1 \in FramesOf(s, t) <=> (Head(s).track = t /\ ~Head(s).final)
         /\ Cardinality(FramesOf(s, t)) = Cardinality(FramesOf(Tail(s), t)) + CountsFor(Head(s), t)
<1> DEFINE n == Len(s)
<1> DEFINE A == FramesOf(s, t) \ {1}
<1> DEFINE B == FramesOf(Tail(s), t)
<1> DEFINE f == [i \in A |-> i - 1]
<1>1. n \in Nat \ {0} /\ DOMAIN s = 1 .. n
  BY EmptySeq, LenProperties
<1>2. /\ Tail(s) \in Seq(Items) /\ Len(Tail(s)) = n - 1
      /\ \A i \in 1 .. n - 1 : Tail(s)[i] = s[i + 1]
  BY HeadTailProperties
<1>3. DOMAIN Tail(s) = 1 .. n - 1
  BY <1>2, LenProperties
<1>4. A = {i \in 2 .. n : i \in FramesOf(s, t)} /\ FramesOf(s, t) \subseteq 1 .. n
  BY <1>1 DEF FramesOf, FramesIn
<1>5. B = {i \in 1 .. n - 1 : i + 1 \in FramesOf(s, t)}
  BY <1>1, <1>2, <1>3 DEF FramesOf, FramesIn
<1>6. 1 \in FramesOf(s, t) <=> (Head(s).track = t /\ ~Head(s).final)
  BY <1>1 DEF FramesOf, FramesIn
<1>7. IsFiniteSet(FramesOf(s, t))
  <2>1. IsFiniteSet(1 .. n)
    BY <1>1, FS_Interval
  <2> QED BY <1>4, <2>1, FS_Subset
<1>8. /\ IsFiniteSet(A)
      /\ Cardinality(A) = IF 1 \in FramesOf(s, t) THEN Cardinality(FramesOf(s, t)) - 1
                                                  ELSE Cardinality(FramesOf(s, t))
  BY <1>7, FS_RemoveElement
<1>9. ExistsBijection(A, B)
  <2> HIDE DEF A, B
  <2>1. f \in [A -> B]
    BY <1>1, <1>4, <1>5
  <2>2. \A a, b \in A : f[a] = f[b] => a = b
    BY <1>1, <1>4
  <2>3. \A b \in B : \E a \in A : f[a] = b
    <3> SUFFICES ASSUME NEW b \in B PROVE \E a \in A : f[a] = b
      OBVIOUS
    <3>1. b + 1 \in A /\ (b + 1) - 1 = b
      BY <1>1, <1>4, <1>5
    <3> QED BY <3>1
  <2> HIDE DEF f
  <2>4. f \in Bijection(A, B)
    BY <2>1, <2>2, <2>3, Fun_IsBij
  <2> QED BY <2>4, Fun_ExistsBij
<1>10. Cardinality(B) = Cardinality(A)
  BY <1>8, <1>9, FS_Bijection
<1>11. Cardinality(A) \in Nat /\ Cardinality(FramesOf(s, t)) \in Nat
  BY <1>7, <1>8, FS_CardinalityType
<1> QED BY <1>5, <1>6, <1>8, <1>10, <1>11 DEF CountsFor, Counts

\* A frame sent comes behind the last one of its track ...
LEMMA UnbrokenAppend ==
  ASSUME NEW way \in Seq(Items), NEW e \in Items, NEW t \in Tracks,
         NEW from \in Nat, NEW to \in Nat, Unbroken(way, t, from, to),
         e.track = t /\ ~e.final => e.n = to + 1
  PROVE  Unbroken(Append(way, e), t, from, to + CountsFor(e, t))
<1> DEFINE n == Len(way)
<1> DEFINE w == Append(way, e)
<1> DEFINE F == FramesOf(way, t)
<1> DEFINE G == FramesOf(w, t)
<1>1. /\ F \subseteq 1 .. n /\ G = F \cup (IF e.track = t /\ ~e.final THEN {n + 1} ELSE {})
      /\ Cardinality(G) = Cardinality(F) + CountsFor(e, t) /\ Cardinality(F) \in Nat
  BY FramesOfAppend
<1>2. n \in Nat /\ (\A i \in 1 .. n : w[i] = way[i]) /\ w[n + 1] = e
  BY AppendProperties, LenProperties
<1>3. /\ F = {} => from = to
      /\ \A i \in F : (\A j \in F : i <= j) => way[i].n = from + 1
      /\ \A i \in F : (\A j \in F : j <= i) => way[i].n = to
      /\ \A i, j \in F : i < j /\ (\A k \in F : k <= i \/ j <= k) => way[j].n = way[i].n + 1
      /\ to = from + Cardinality(F)
  BY DEF Unbroken
<1> HIDE DEF w, F, G, n
<1>4. CASE ~(e.track = t /\ ~e.final)
  <2>1. G = F /\ CountsFor(e, t) = 0
    BY <1>1, <1>4 DEF CountsFor, Counts
  <2>2. \A i \in F : w[i] = way[i]
    BY <1>1, <1>2
  <2>3. Unbroken(w, t, from, to)
    BY <1>3, <2>1, <2>2 DEF Unbroken, G
  <2> QED BY <2>1, <2>3 DEF w
<1>5. CASE e.track = t /\ ~e.final
  <2>1. G = F \cup {n + 1} /\ CountsFor(e, t) = 1 /\ e.n = to + 1
    BY <1>1, <1>5 DEF CountsFor, Counts
  <2>2. \A i \in G : i = n + 1 \/ (i \in F /\ i < n + 1 /\ w[i] = way[i])
    BY <1>1, <1>2, <2>1
  <2>3. ASSUME NEW i \in G, \A j \in G : i <= j PROVE w[i].n = from + 1
    <3>1. CASE i = n + 1
      BY <1>1, <1>2, <1>3, <2>1, <2>2, <2>3, <3>1
    <3>2. CASE i \in F
      BY <1>3, <2>1, <2>2, <2>3, <3>2, <1>1, <1>2
    <3> QED BY <2>2, <3>1, <3>2
  <2>4. ASSUME NEW i \in G, \A j \in G : j <= i PROVE w[i].n = to + 1
    <3>1. n + 1 \in G
      BY <2>1
    <3>2. i = n + 1
      BY <1>1, <1>2, <2>2, <2>4, <3>1
    <3> QED BY <1>2, <2>1, <3>2
  <2>5. ASSUME NEW i \in G, NEW j \in G, i < j, \A k \in G : k <= i \/ j <= k
        PROVE  w[j].n = w[i].n + 1
    <3>1. i \in F /\ w[i] = way[i]
      BY <1>1, <1>2, <2>1, <2>2, <2>5
    <3>2. CASE j \in F
      <4>1. w[j] = way[j] /\ \A k \in F : k <= i \/ j <= k
        BY <1>1, <1>2, <2>1, <2>5, <3>2
      <4> QED BY <1>3, <2>5, <3>1, <3>2, <4>1
    <3>3. CASE j = n + 1
      <4>1. \A k \in F : k <= i
        BY <1>1, <1>2, <2>1, <2>5, <3>3
      <4> QED BY <1>2, <1>3, <2>1, <3>1, <3>3, <4>1
    <3> QED BY <2>2, <3>2, <3>3
  <2>6. to + 1 = from + Cardinality(G) /\ G # {}
    BY <1>1, <1>3, <2>1
  <2>7. Unbroken(w, t, from, to + 1)
    BY <2>3, <2>4, <2>5, <2>6 DEF Unbroken, G
  <2> QED BY <2>1, <2>7 DEF w
<1> QED BY <1>4, <1>5

\* ... and one got is the next after the one got before.
LEMMA UnbrokenTail ==
  ASSUME NEW way \in Seq(Items), way # <<>>, NEW t \in Tracks,
         NEW from \in Nat, NEW to \in Nat, Unbroken(way, t, from, to)
  PROVE  Unbroken(Tail(way), t,
                  IF Head(way).track = t /\ ~Head(way).final THEN Head(way).n ELSE from, to)
<1> DEFINE n == Len(way)
<1> DEFINE w == Tail(way)
<1> DEFINE e == Head(way)
<1> DEFINE F == FramesOf(way, t)
<1> DEFINE G == FramesOf(w, t)
<1>1. /\ G = {i \in 1 .. n - 1 : i + 1 \in F}
      /\ 1 \in F <=> (e.track = t /\ ~e.final)
      /\ Cardinality(F) = Cardinality(G) + CountsFor(e, t)
  BY FramesOfTail
<1>2. n \in Nat \ {0} /\ (\A i \in 1 .. n - 1 : w[i] = way[i + 1]) /\ e = way[1]
  BY HeadTailProperties, EmptySeq, LenProperties
<1>3. /\ F = {} => from = to
      /\ \A i \in F : (\A j \in F : i <= j) => way[i].n = from + 1
      /\ \A i \in F : (\A j \in F : j <= i) => way[i].n = to
      /\ \A i, j \in F : i < j /\ (\A k \in F : k <= i \/ j <= k) => way[j].n = way[i].n + 1
      /\ to = from + Cardinality(F)
  BY DEF Unbroken
<1>4. F \subseteq 1 .. n /\ Cardinality(F) \in Nat
  <2>1. \A x \in Items : F \subseteq 1 .. n /\ Cardinality(F) \in Nat
    BY FramesOfAppend
  <2>2. e \in Items
    BY HeadTailProperties
  <2> QED BY <2>1, <2>2
<1>5. Cardinality(G) \in Nat
  <2>1. w \in Seq(Items) /\ e \in Items
    BY HeadTailProperties
  <2> HIDE DEF w, e
  <2> QED BY <2>1, FramesOfAppend
<1> DEFINE now == IF e.track = t /\ ~e.final THEN e.n ELSE from
<1> HIDE DEF w, e, F, G, n
<1>6. \A i \in G : i \in 1 .. n - 1 /\ i + 1 \in F /\ i + 1 > 1 /\ w[i] = way[i + 1]
  BY <1>1, <1>2
<1>7. \A i \in F : i = 1 \/ i - 1 \in G
  BY <1>1, <1>2, <1>4
<1>8. ASSUME NEW i \in G, \A j \in G : j <= i PROVE w[i].n = to
  <2>1. \A j \in F : j <= i + 1
    BY <1>2, <1>4, <1>6, <1>7, <1>8
  <2> QED BY <1>3, <1>6, <2>1
<1>9. ASSUME NEW i \in G, NEW j \in G, i < j, \A k \in G : k <= i \/ j <= k
      PROVE  w[j].n = w[i].n + 1
  <2>1. ASSUME NEW k \in F PROVE k <= i + 1 \/ j + 1 <= k
    <3>1. k \in Nat /\ i \in Nat /\ j \in Nat
      BY <1>2, <1>4, <1>6
    <3>2. CASE k = 1
      BY <3>1, <3>2
    <3>3. CASE k - 1 \in G
      BY <1>9, <3>1, <3>3
    <3> QED BY <1>7, <3>2, <3>3
  <2>2. i + 1 < j + 1
    BY <1>6, <1>9
  <2> QED BY <1>3, <1>6, <2>1, <2>2
<1>10. CASE e.track = t /\ ~e.final
  <2>1. 1 \in F /\ CountsFor(e, t) = 1 /\ now = e.n /\ way[1].n = from + 1
    <3>1. 1 \in F /\ CountsFor(e, t) = 1 /\ now = e.n
      BY <1>1, <1>10 DEF CountsFor, Counts
    <3>2. \A j \in F : 1 <= j
      BY <1>2, <1>4
    <3> QED BY <1>3, <3>1, <3>2
  <2>2. G = {} => now = to
    <3>1. G = {} => \A j \in F : j <= 1
      BY <1>7
    <3> QED BY <1>2, <1>3, <2>1, <3>1
  <2>3. ASSUME NEW i \in G, \A j \in G : i <= j PROVE w[i].n = now + 1
    <3>1. \A k \in F : k <= 1 \/ i + 1 <= k
      BY <1>2, <1>4, <1>6, <1>7, <2>3
    <3>2. i + 1 \in F /\ 1 < i + 1 /\ w[i] = way[i + 1]
      BY <1>6
    <3>3. way[i + 1].n = way[1].n + 1
      BY <1>3, <2>1, <3>1, <3>2
    <3> QED BY <1>2, <2>1, <3>2, <3>3
  <2>4. to = now + Cardinality(G)
    BY <1>1, <1>2, <1>3, <1>5, <2>1
  <2> QED BY <1>8, <1>9, <2>2, <2>3, <2>4 DEF Unbroken, G, now, w, e
<1>11. CASE ~(e.track = t /\ ~e.final)
  <2>1. 1 \notin F /\ CountsFor(e, t) = 0 /\ now = from
    BY <1>1, <1>11 DEF CountsFor, Counts
  <2>2. G = {} => F = {}
    BY <1>7, <2>1
  <2>3. ASSUME NEW i \in G, \A j \in G : i <= j PROVE w[i].n = now + 1
    <3>1. \A k \in F : i + 1 <= k
      BY <1>2, <1>4, <1>6, <1>7, <2>1, <2>3
    <3> QED BY <1>3, <1>6, <2>1, <3>1
  <2>4. to = now + Cardinality(G)
    BY <1>1, <1>3, <1>5, <2>1
  <2> QED BY <1>3, <1>8, <1>9, <2>1, <2>2, <2>3, <2>4 DEF Unbroken, G, now, w, e
<1> QED BY <1>10, <1>11

\* A reader's frame is the next of its track, a marker is none.
LEMMA LosslessPump ==
  ASSUME IInv, Lossless, NEW e \in Items,
         ready' = Append(ready, e), UNCHANGED <<items, dropped, got>>,
         sent' = [t \in Tracks |-> sent[t] + CountsFor(e, t)],
         ~e.final => e.n = sent[e.track] + 1
  PROVE  Lossless'
<1>1. /\ items \o ready \in Seq(Items)
      /\ (items \o ready)' = Append(items \o ready, e)
  BY PumpWay DEF IInv
<1> DEFINE way == items \o ready
<1> HIDE DEF way
<1>2. SUFFICES ASSUME dropped = 0, NEW t \in Tracks
               PROVE  Unbroken(Append(way, e), t, got[t], sent[t] + CountsFor(e, t))
  BY <1>1 DEF Lossless, way
<1>3. Unbroken(way, t, got[t], sent[t]) /\ got[t] \in Nat /\ sent[t] \in Nat
  BY <1>2, QueueAssumption DEF Lossless, way, IInv, TypeOK
<1> QED BY <1>1, <1>3, UnbrokenAppend DEF way

\* What is offered is counted as dropped, or moves across.
LEMMA LosslessOffer ==
  ASSUME IInv, Lossless, Offer
  PROVE  Lossless'
<1>1. items \in Seq(Items) /\ ready \in Seq(Items) /\ dropped \in Nat
  BY DEF IInv, TypeOK
<1>2. CASE Refuses(Head(ready))
  <2>1. dropped' = dropped + 1
    BY <1>2 DEF Offer
  <2>2. dropped' # 0
    BY <1>1, <2>1
  <2> QED BY <2>2 DEF Lossless
<1>3. CASE ~Refuses(Head(ready))
  <2>1. /\ ready # <<>> /\ ready' = Tail(ready) /\ items' = Append(items, Head(ready))
        /\ UNCHANGED <<dropped, sent, got>>
    BY <1>3 DEF Offer
  <2>2. (items \o ready)' = items \o ready
    BY <1>1, <2>1, MoveAcross
  <2> QED BY <2>1, <2>2 DEF Lossless
<1> QED BY <1>2, <1>3

\* What is got is the first on the way.
LEMMA LosslessGet ==
  ASSUME IInv, Lossless, Get
  PROVE  Lossless'
<1> DEFINE e == Head(items)
<1> DEFINE way == items \o ready
<1>1. items \in Seq(Items) /\ ready \in Seq(Items) /\ got \in [Tracks -> 0 .. MaxFrames]
      /\ sent \in [Tracks -> 0 .. MaxFrames]
  BY DEF IInv, TypeOK
<1>2. /\ items # <<>> /\ items' = Tail(items) /\ UNCHANGED <<ready, dropped, sent>>
      /\ IF e.final THEN UNCHANGED got ELSE got' = [got EXCEPT ![e.track] = e.n]
  BY DEF Get
<1>3. way \in Seq(Items) /\ way # <<>> /\ (items \o ready)' = Tail(way) /\ Head(way) = e
  <2>1. way \in Seq(Items)
    BY <1>1, ConcatProperties
  <2>2. way # <<>> /\ Tail(way) = Tail(items) \o ready /\ Head(way) = e
    BY <1>1, <1>2, TailOfFirst
  <2>3. (items \o ready)' = Tail(items) \o ready
    BY <1>2
  <2> QED BY <2>1, <2>2, <2>3
<1>4. \A t \in Tracks : got'[t] = IF e.track = t /\ ~e.final THEN e.n ELSE got[t]
  BY <1>1, <1>2
<1> HIDE DEF way, e
<1>5. SUFFICES ASSUME dropped = 0, NEW t \in Tracks
               PROVE  Unbroken(Tail(way), t, got'[t], sent[t])
  BY <1>2, <1>3 DEF Lossless
<1>6. Unbroken(way, t, got[t], sent[t]) /\ got[t] \in Nat /\ sent[t] \in Nat
  BY <1>1, <1>5, QueueAssumption DEF Lossless, way
<1> QED BY <1>3, <1>4, <1>6, UnbrokenTail

LEMMA LosslessStart == Init => Lossless
<1> SUFFICES ASSUME Init PROVE Lossless
  OBVIOUS
<1>1. items = <<>> /\ ready = <<>> /\ sent = [t \in Tracks |-> 0] /\ got = [t \in Tracks |-> 0]
  BY DEF Init
<1>2. items \o ready = <<>> /\ <<>> \in Seq(Items)
  BY <1>1, ConcatEmptySeq, EmptySeq
<1>3. \A t : FramesOf(items \o ready, t) = {}
  BY <1>2, LenProperties, Len(<<>>) = 0 DEF FramesOf, FramesIn
<1>4. Cardinality({}) = 0
  BY FS_EmptySet
<1>5. ASSUME NEW t \in Tracks PROVE Unbroken(items \o ready, t, 0, 0)
  BY <1>3, <1>4 DEF Unbroken
<1> QED BY <1>1, <1>5 DEF Lossless

LEMMA LosslessStep == IInv /\ Lossless /\ [Next]_vars => Lossless'
<1> SUFFICES ASSUME IInv, Lossless, [Next]_vars PROVE Lossless'
  OBVIOUS
<1>1. sent \in [Tracks -> Nat]
  BY QueueAssumption DEF IInv, TypeOK
<1>2. ASSUME NEW t \in Tracks, PumpFrame(t) PROVE Lossless'
  <2> DEFINE e == Item(t, sent[t] + 1, FALSE)
  <2>1. e \in Items
    BY <1>2, QueueAssumption DEF IInv, TypeOK, PumpFrame, Item, Items
  <2>2. e.track = t /\ e.final = FALSE /\ e.n = sent[t] + 1
    BY DEF Item
  <2>3. ready' = Append(ready, e) /\ UNCHANGED <<items, dropped, got>>
        /\ sent' = [sent EXCEPT ![t] = @ + 1]
    BY <1>2 DEF PumpFrame
  <2> HIDE DEF e
  <2>4. sent' = [u \in Tracks |-> sent[u] + CountsFor(e, u)]
    <3>1. \A u \in Tracks : CountsFor(e, u) = IF u = t THEN 1 ELSE 0
      BY <2>2 DEF CountsFor, Counts
    <3>2. \A u \in Tracks : sent[u] + CountsFor(e, u) = IF u = t THEN sent[t] + 1 ELSE sent[u]
      BY <1>1, <3>1
    <3> HIDE DEF CountsFor
    <3>3. sent' = [u \in Tracks |-> IF u = t THEN sent[t] + 1 ELSE sent[u]]
      BY <1>1, <2>3
    <3> QED BY <3>2, <3>3
  <2> QED BY <2>1, <2>2, <2>3, <2>4, LosslessPump
<1>3. ASSUME NEW t \in Tracks, PumpEnd(t) PROVE Lossless'
  <2> DEFINE e == Item(t, 0, TRUE)
  <2>1. e \in Items
    BY QueueAssumption DEF Item, Items
  <2>2. e.track = t /\ e.final = TRUE
    BY DEF Item
  <2>3. ready' = Append(ready, e) /\ UNCHANGED <<items, dropped, got, sent>>
    BY <1>3 DEF PumpEnd
  <2> HIDE DEF e
  <2>4. sent' = [u \in Tracks |-> sent[u] + CountsFor(e, u)]
    <3>1. \A u \in Tracks : CountsFor(e, u) = 0
      BY <2>2 DEF CountsFor, Counts
    <3>2. sent = [u \in Tracks |-> sent[u] + CountsFor(e, u)]
      BY <1>1, <3>1
    <3> QED BY <2>3, <3>2
  <2> QED BY <2>1, <2>2, <2>3, <2>4, LosslessPump
<1>4. CASE UNCHANGED vars
  BY <1>4 DEF vars, Lossless
<1> QED BY <1>2, <1>3, <1>4, LosslessOffer, LosslessGet DEF Next

\* NothingLostSilently, for any tracks, limit and number of frames: a response
\* that has counted no frame as dropped has every frame of a track, got or on
\* its way.
THEOREM LostAreCounted == Spec => []NothingLostSilently
<1>1. Lossless => NothingLostSilently
  BY DEF Lossless, Unbroken, NothingLostSilently
<1> QED BY <1>1, LosslessStart, LosslessStep, Invariance, PTL DEF Spec

-----------------------------------------------------------------------------
(* The response.                                                           *)

\* Only a decoder's yes is remembered, and it says yes to nothing but AAC.
Settled == (known => sound = "aac") /\ TablesHold

LEMMA AvStart == AvInit => Init /\ Settled
  BY DEF AvInit, Settled, TablesHold

\* Whatever the handler does with a part, it takes it from the queue's head.
LEMMA AvUses == [AvNext]_avVars => [Next]_vars
<1> SUFFICES ASSUME [AvNext]_avVars PROVE [Next]_vars
  OBVIOUS
<1>1. ASSUME NEW t \in Tracks, Reader(t) PROVE Next
  BY <1>1 DEF Reader, Next
<1>2. CASE OfferPart
  BY <1>2 DEF OfferPart, Next
<1>3. CASE TakePart
  BY <1>3 DEF TakePart, Next
<1>4. CASE CloseEnds \/ ProbeEnds \/ Deadline \/ HoldOffAges \/ UNCHANGED avVars
  BY <1>4 DEF CloseEnds, ProbeEnds, Deadline, HoldOffAges, avVars
<1> QED
  BY <1>1, <1>2, <1>3, <1>4 DEF AvNext, Handle

\* An /av response is a use of the queue: what is proved above of any
\* number of frames and any size of the queue holds in it.
THEOREM AvIsQueue == AvSpec => Spec
  BY AvStart, AvUses, PTL DEF AvSpec, Spec

\* Bounded, in a response whose handler may be away at a decoder or the
\* executor for as long as it likes.
THEOREM AvBounded == AvSpec => []Bounded
  BY AvIsQueue, BoundHolds, PTL

LEMMA Prepared == ASSUME NEW s, Prove(s), tables # "both" PROVE tables' # "both"
  BY DEF Prove, Begin

LEMMA AvStep == Settled /\ [AvNext]_avVars => Settled'
<1> SUFFICES ASSUME Settled, [AvNext]_avVars PROVE Settled'
  OBVIOUS
<1> USE DEF Settled, TablesHold
<1>1. CASE TakePart
  <2>1. sound' = sound /\ known' = known
    BY <1>1 DEF TakePart
  <2>2. CASE tables = "none"
    <3>1. tables' # "both" \/ known
      BY <1>1, <2>2, Prepared DEF TakePart, PictureEnds, SoundEnds, Hold, Begin
    <3> QED
      BY <2>1, <3>1
  <2>3. CASE tables # "none"
    BY <1>1, <2>1, <2>3 DEF TakePart, PictureEnds, SoundEnds, Emit
  <2> QED
    BY <2>2, <2>3
<1>2. CASE ProbeEnds
  BY <1>2 DEF ProbeEnds, Yes, Begin
<1>3. CASE CloseEnds \/ Deadline \/ HoldOffAges \/ UNCHANGED avVars
  BY <1>3 DEF CloseEnds, Deadline, HoldOffAges, camera, handler, avVars
<1>4. ASSUME NEW t \in Tracks, Reader(t) \/ OfferPart PROVE Settled'
  BY <1>4 DEF Reader, OfferPart, camera, handler
<1>5. CASE OfferPart
  BY <1>5 DEF OfferPart, camera, handler
<1> QED
  BY <1>1, <1>2, <1>3, <1>4, <1>5 DEF AvNext, Handle

\* TablesHold, for any number of frames, viewers before this one and checks
\* that failed: the tables name a sound track only where a decoder said yes.
THEOREM TablesPromise == AvSpec => []TablesHold
<1>1. Settled => TablesHold
  BY DEF Settled
<1> QED
  BY AvStart, AvStep, <1>1, PTL DEF AvSpec

\* A frame is held until there are tables, and then no longer.
LEMMA HoldTypes ==
  ASSUME AvTypeOK, NEW item \in Items, tables = "none", stage = "next", Hold(item)
  PROVE  /\ heldOff' \in BOOLEAN /\ stage' \in {"next", "probe", "closing"}
         /\ tables' \in {"none", "video", "both"} /\ held' \in Seq(Items)
         /\ held' # <<>> => tables' = "none"
         /\ stage' = "probe" => tables' = "none" /\ Sample(held)' # {}
<1>1. Append(held, item) \in Seq(Items) /\ <<>> \in Seq(Items)
  BY AppendProperties, EmptySeq DEF AvTypeOK
<1> DEFINE s == Append(held, item)
<1>2. CASE stage' = "next" /\ (\E t \in {"video", "both"} : Begin(t, s)) /\ heldOff' \in BOOLEAN
  BY <1>1, <1>2 DEF Begin
<1>3. CASE Sample(s) # {} /\ stage' = "probe" /\ held' = s /\ UNCHANGED <<heldOff, tables, out>>
  BY <1>1, <1>3 DEF AvTypeOK, Sample
<1>4. CASE held' = s /\ UNCHANGED <<heldOff, stage, tables, out>>
  BY <1>1, <1>4 DEF AvTypeOK
<1>5. \/ stage' = "next" /\ (\E t \in {"video", "both"} : Begin(t, s)) /\ heldOff' \in BOOLEAN
      \/ Sample(s) # {} /\ stage' = "probe" /\ held' = s /\ UNCHANGED <<heldOff, tables, out>>
      \/ held' = s /\ UNCHANGED <<heldOff, stage, tables, out>>
  BY DEF Hold, Prove, HoldsOff, AvTypeOK
<1> QED BY <1>2, <1>3, <1>4, <1>5

LEMMA AvTypesStep == TypeOK /\ AvTypeOK /\ [AvNext]_avVars => AvTypeOK'
<1> SUFFICES ASSUME TypeOK, AvTypeOK, [AvNext]_avVars PROVE AvTypeOK'
  OBVIOUS
<1>0. <<>> \in Seq(Items)
  BY EmptySeq
<1>1. CASE TakePart
  <2>1. /\ items \in Seq(Items) /\ items # <<>> /\ Head(items) \in Items
        /\ stage = "next" /\ UNCHANGED <<sound, known, late, stopped>>
    BY <1>1, HeadTailProperties DEF TypeOK, TakePart, Get
  <2> DEFINE item == Head(items)
  <2>2. CASE item.final
    <3>1. taken' = taken
      BY <1>1, <2>2 DEF TakePart
    <3>2. CASE PictureEnds
      BY <2>1, <3>1, <3>2 DEF PictureEnds, AvTypeOK
    <3>3. CASE SoundEnds
      <4>1. CASE tables = "none" /\ Sample(held) = {} /\ heldOff' = TRUE /\ stage' = "next" /\ Begin("video", held)
        BY <1>0, <2>1, <3>1, <4>1 DEF Begin, AvTypeOK
      <4>2. CASE /\ tables = "none" /\ Sample(held) # {} /\ stage' = "probe" /\ held' = held
                 /\ UNCHANGED <<heldOff, tables, out>>
        BY <2>1, <3>1, <4>2 DEF AvTypeOK, Sample
      <4>3. CASE UNCHANGED <<heldOff, stage, tables, held, out>>
        BY <2>1, <3>1, <4>3 DEF AvTypeOK
      <4> QED BY <3>3, <4>1, <4>2, <4>3 DEF SoundEnds, Prove
    <3> QED BY <1>1, <2>2, <3>2, <3>3 DEF TakePart
  <2>3. CASE ~item.final
    <3>1. taken' \in Seq(Items)
      <4>1. taken' = Append(taken, item) /\ taken \in Seq(Items)
        BY <1>1, <2>3 DEF TakePart, AvTypeOK
      <4> QED BY <2>1, <4>1, AppendProperties
    <3>2. CASE tables = "none"
      <4>1. Hold(item)
        BY <1>1, <2>3, <3>2 DEF TakePart
      <4>2. /\ heldOff' \in BOOLEAN /\ stage' \in {"next", "probe", "closing"}
            /\ tables' \in {"none", "video", "both"} /\ held' \in Seq(Items)
            /\ held' # <<>> => tables' = "none"
            /\ stage' = "probe" => tables' = "none" /\ Sample(held)' # {}
        BY <2>1, <3>2, <4>1, HoldTypes
      <4> QED BY <2>1, <3>1, <4>2 DEF AvTypeOK
    <3>3. CASE tables # "none"
      BY <1>1, <2>1, <2>3, <3>1, <3>3 DEF TakePart, Emit, AvTypeOK
    <3> QED BY <3>2, <3>3
  <2> QED BY <2>2, <2>3
<1>2. CASE ProbeEnds
  <2>1. held' = <<>> /\ stage' = "next" /\ tables' \in {"video", "both"}
        /\ UNCHANGED <<sound, late, stopped, taken>>
    BY <1>2 DEF ProbeEnds, Begin
  <2>2. known' \in BOOLEAN /\ heldOff' \in BOOLEAN
    BY <1>2 DEF ProbeEnds, AvTypeOK
  <2> QED BY <1>0, <2>1, <2>2 DEF AvTypeOK
<1>3. CASE CloseEnds \/ Deadline \/ HoldOffAges
  BY <1>3 DEF CloseEnds, Deadline, HoldOffAges, camera, handler, AvTypeOK, Sample
<1>4. CASE UNCHANGED <<camera, handler>>
  BY <1>4 DEF camera, handler, AvTypeOK, Sample
<1>5. ASSUME NEW t \in Tracks, Reader(t) \/ OfferPart PROVE UNCHANGED <<camera, handler>>
  BY <1>5 DEF Reader, OfferPart
<1>6. UNCHANGED avVars => UNCHANGED <<camera, handler>>
  BY DEF avVars
<1>7. OfferPart => UNCHANGED <<camera, handler>>
  BY DEF OfferPart
<1> QED BY <1>1, <1>2, <1>3, <1>4, <1>5, <1>6, <1>7 DEF AvNext, Handle

\* AvResponse's handler keeps its types: frames are held only before there are
\* tables, and a decoder is asked only about sound.
THEOREM AvTypeCorrect == AvSpec => []AvTypeOK
<1>1. AvInit => AvTypeOK
  BY EmptySeq DEF AvInit, AvTypeOK
<1>2. AvSpec => []TypeOK
  BY AvIsQueue, TypeCorrect, PTL
<1> QED BY <1>1, <1>2, AvTypesStep, PTL DEF AvSpec

-----------------------------------------------------------------------------
(* What tables carry of a sequence of items, item by item.                 *)

\* A set of numbers has a least one.
LEMMA LeastNumber ==
  ASSUME NEW T, T \subseteq Nat, T # {}
  PROVE  \E x \in T : \A y \in T : ~(y < x)
<1>1. IsWellFoundedOn(OpToRel(<, Nat), Nat)
  BY NatLessThanWellFounded
<1>2. \E x \in T : \A y \in T : ~(<<y, x>> \in OpToRel(<, Nat))
  BY <1>1, WFMin
<1> QED BY <1>2 DEF OpToRel

\* f carries the first m items of s, a step each.
StepsTo(f, t, s, m) ==
  f = [i \in 0 .. m |-> IF i = 0 THEN <<>> ELSE f[i - 1] \o Kept(t, s[i])]

LEMMA StepsExist ==
  ASSUME NEW t, NEW s, NEW n \in Nat
  PROVE  \E f : StepsTo(f, t, s, n)
<1> DEFINE T == {m \in Nat : ~(\E f : StepsTo(f, t, s, m))}
<1>1. SUFFICES ASSUME T # {} PROVE FALSE
  OBVIOUS
<1>2. PICK x \in T : \A y \in T : ~(y < x)
  <2> HIDE DEF T
  <2>1. T \subseteq Nat
    BY DEF T
  <2> QED BY <1>1, <2>1, LeastNumber
<1>3. x \in Nat /\ ~(\E f : StepsTo(f, t, s, x))
  BY <1>2
<1>4. CASE x = 0
  <2> DEFINE f == [i \in 0 .. 0 |-> <<>>]
  <2>1. StepsTo(f, t, s, 0)
    BY DEF StepsTo
  <2> QED BY <1>3, <1>4, <2>1
<1>5. CASE x # 0
  <2>1. x - 1 \in Nat /\ x - 1 < x
    BY <1>3, <1>5
  <2>2. PICK f : StepsTo(f, t, s, x - 1)
    BY <1>2, <2>1
  <2> DEFINE g == [i \in 0 .. x |-> IF i = x THEN f[x - 1] \o Kept(t, s[x]) ELSE f[i]]
  <2>3. \A i \in 0 .. x - 1 : f[i] = IF i = 0 THEN <<>> ELSE f[i - 1] \o Kept(t, s[i])
    BY <2>2 DEF StepsTo
  <2>4. ASSUME NEW i \in 0 .. x
        PROVE  g[i] = IF i = 0 THEN <<>> ELSE g[i - 1] \o Kept(t, s[i])
    <3>1. CASE i = x
      <4>1. g[i] = f[x - 1] \o Kept(t, s[x]) /\ g[i - 1] = f[x - 1]
        BY <1>3, <2>1, <3>1
      <4> QED BY <1>5, <3>1, <4>1
    <3>2. CASE i # x /\ i # 0
      <4>1. g[i] = f[i] /\ g[i - 1] = f[i - 1] /\ i \in 0 .. x - 1
        BY <1>3, <2>1, <3>2
      <4> QED BY <2>3, <3>2, <4>1
    <3>3. CASE i # x /\ i = 0
      <4>1. g[i] = f[i] /\ i \in 0 .. x - 1
        BY <1>3, <2>1, <3>3
      <4> QED BY <2>3, <3>3, <4>1
    <3> QED BY <3>1, <3>2, <3>3
  <2>5. g = [i \in 0 .. x |-> g[i]]
    OBVIOUS
  <2> HIDE DEF g
  <2>6. StepsTo(g, t, s, x)
    BY <2>4, <2>5 DEF StepsTo
  <2> QED BY <1>3, <2>6
<1> QED BY <1>4, <1>5

\* Two of them agree as far as what they carry does.
LEMMA StepsAgree ==
  ASSUME NEW t, NEW s, NEW r, NEW m \in Nat, NEW n \in Nat, m <= n,
         \A i \in 1 .. m : s[i] = r[i],
         NEW f, StepsTo(f, t, s, m), NEW g, StepsTo(g, t, r, n)
  PROVE  f[m] = g[m]
<1> DEFINE T == {i \in 0 .. m : f[i] # g[i]}
<1>1. SUFFICES ASSUME T # {} PROVE FALSE
  OBVIOUS
<1>2. PICK x \in T : \A y \in T : ~(y < x)
  <2> HIDE DEF T
  <2>1. T \subseteq Nat
    BY DEF T
  <2> QED BY <1>1, <2>1, LeastNumber
<1>3. x \in 0 .. m /\ f[x] # g[x] /\ x \in 0 .. n
  BY <1>2
<1>4. /\ f[x] = IF x = 0 THEN <<>> ELSE f[x - 1] \o Kept(t, s[x])
      /\ g[x] = IF x = 0 THEN <<>> ELSE g[x - 1] \o Kept(t, r[x])
  BY <1>3 DEF StepsTo
<1>5. x # 0
  BY <1>3, <1>4
<1>6. x - 1 \in 0 .. m /\ x - 1 < x /\ s[x] = r[x]
  BY <1>3, <1>5
<1>7. f[x - 1] = g[x - 1]
  BY <1>2, <1>6
<1> QED BY <1>3, <1>4, <1>5, <1>6, <1>7

LEMMA KeptTyped ==
  ASSUME NEW t, NEW e \in Items
  PROVE  Kept(t, e) \in Seq(Items)
BY EmptySeq DEF Kept

LEMMA StepsTyped ==
  ASSUME NEW t, NEW s \in Seq(Items), NEW f, StepsTo(f, t, s, Len(s))
  PROVE  f[Len(s)] \in Seq(Items)
<1> DEFINE n == Len(s)
<1> DEFINE T == {i \in 0 .. n : f[i] \notin Seq(Items)}
<1>0. n \in Nat /\ \A i \in 1 .. n : s[i] \in Items
  BY LenProperties, ElementOfSeq
<1> HIDE DEF n
<1>1. SUFFICES ASSUME T # {} PROVE FALSE
  BY <1>0 DEF n
<1>2. PICK x \in T : \A y \in T : ~(y < x)
  <2> HIDE DEF T
  <2>1. T \subseteq Nat
    BY DEF T
  <2> QED BY <1>1, <2>1, LeastNumber
<1>3. x \in 0 .. n /\ f[x] \notin Seq(Items)
  BY <1>2
<1>4. f[x] = IF x = 0 THEN <<>> ELSE f[x - 1] \o Kept(t, s[x])
  BY <1>3 DEF StepsTo, n
<1>5. x # 0
  BY <1>3, <1>4, EmptySeq
<1>6. x - 1 \in 0 .. n /\ x - 1 < x /\ s[x] \in Items
  BY <1>0, <1>3, <1>5
<1>7. f[x - 1] \in Seq(Items)
  BY <1>2, <1>6
<1>8. f[x - 1] \o Kept(t, s[x]) \in Seq(Items)
  BY <1>6, <1>7, KeptTyped, ConcatProperties
<1> QED BY <1>3, <1>4, <1>5, <1>8

LEMMA CarriedSteps ==
  ASSUME NEW t, NEW s \in Seq(Items)
  PROVE  \E f : StepsTo(f, t, s, Len(s)) /\ Carried(t, s) = f[Len(s)]
<1> DEFINE f == CHOOSE g : StepsTo(g, t, s, Len(s))
<1>1. Carried(t, s) = f[Len(s)]
  BY DEF Carried, StepsTo
<1>2. \E g : StepsTo(g, t, s, Len(s))
  BY LenProperties, StepsExist
<1>3. StepsTo(f, t, s, Len(s))
  BY <1>2
<1> QED BY <1>1, <1>3

\* Carried is what it is read to be: nothing of nothing, and with an item more
\* what is kept of it more.
LEMMA CarriedNothing == ASSUME NEW t PROVE Carried(t, <<>>) = <<>>
<1>1. <<>> \in Seq(Items) /\ Len(<<>>) = 0
  BY EmptySeq
<1>2. PICK f : StepsTo(f, t, <<>>, 0) /\ Carried(t, <<>>) = f[0]
  BY <1>1, CarriedSteps
<1> QED BY <1>2 DEF StepsTo

LEMMA CarriedTyped ==
  ASSUME NEW t, NEW s \in Seq(Items)
  PROVE  Carried(t, s) \in Seq(Items)
BY CarriedSteps, StepsTyped

LEMMA CarriedAppend ==
  ASSUME NEW t, NEW s \in Seq(Items), NEW e \in Items
  PROVE  Carried(t, Append(s, e)) = Carried(t, s) \o Kept(t, e)
<1> DEFINE n == Len(s)
<1> DEFINE w == Append(s, e)
<1>1. /\ n \in Nat /\ w \in Seq(Items) /\ Len(w) = n + 1
      /\ \A i \in 1 .. n : w[i] = s[i]
      /\ w[n + 1] = e
  BY AppendProperties, LenProperties
<1>2. PICK f : StepsTo(f, t, s, n) /\ Carried(t, s) = f[n]
  BY CarriedSteps
<1> HIDE DEF w
<1>3. PICK g : StepsTo(g, t, w, n + 1) /\ Carried(t, w) = g[n + 1]
  BY <1>1, CarriedSteps
<1> HIDE DEF n
<1>4. f[n] = g[n]
  BY <1>1, <1>2, <1>3, StepsAgree
<1>5. g[n + 1] = g[n] \o Kept(t, e)
  <2>1. n + 1 \in 0 .. n + 1 /\ n + 1 # 0 /\ (n + 1) - 1 = n
    BY <1>1
  <2>2. g[n + 1] = IF n + 1 = 0 THEN <<>> ELSE g[(n + 1) - 1] \o Kept(t, w[n + 1])
    BY <1>3, <2>1 DEF StepsTo
  <2> QED BY <1>1, <2>1, <2>2
<1> QED BY <1>2, <1>3, <1>4, <1>5 DEF w

\* What has been taken is still held as it came, or has been carried.
Written ==
  /\ out \in Seq(Items)
  /\ TakenGoesOut
  /\ tables = "none" => /\ out = <<>> /\ held = taken
                        /\ Carried("both", taken) = taken

\* The tables go out, and behind them all there is.
LEMMA BeginWrites ==
  ASSUME AvTypeOK, Written, tables = "none", NEW t \in {"video", "both"},
         taken' \in Seq(Items), Begin(t, taken')
  PROVE  Written'
<1>1. out = <<>> /\ tables' = t /\ held' = <<>> /\ out' = out \o Carried(t, taken')
  BY DEF Written, Begin
<1>2. Carried(t, taken') \in Seq(Items)
  BY CarriedTyped
<1>3. out' = Carried(t, taken') /\ out' \o held' = out'
  BY <1>1, <1>2, ConcatEmptySeq
<1> QED BY <1>1, <1>2, <1>3 DEF Written, TakenGoesOut

\* What is held on is what was taken.
LEMMA HoldWrites ==
  ASSUME AvTypeOK, Written, tables = "none", NEW item \in Items,
         taken' = Append(taken, item), held' = Append(held, item), UNCHANGED <<tables, out>>
  PROVE  Written'
<1>1. taken \in Seq(Items) /\ out = <<>> /\ held = taken /\ Carried("both", taken) = taken
  BY DEF AvTypeOK, Written
<1>2. /\ Append(taken, item) \in Seq(Items)
      /\ Append(taken, item) = taken \o <<item>>
  BY <1>1, AppendIsConcat, AppendProperties
<1>3. Carried("both", Append(taken, item)) = taken \o Kept("both", item)
  BY <1>1, CarriedAppend
<1>4. Carried("both", taken') = taken'
  BY <1>2, <1>3 DEF Kept
<1>5. out' \o held' = taken' /\ held' = taken'
  BY <1>1, <1>2, ConcatEmptySeq
<1> QED BY <1>1, <1>4, <1>5, EmptySeq DEF Written, TakenGoesOut

LEMMA EmitWrites ==
  ASSUME AvTypeOK, Written, tables # "none", NEW item \in Items,
         taken' = Append(taken, item), Emit(item)
  PROVE  Written'
<1>1. /\ taken \in Seq(Items) /\ held = <<>> /\ out \in Seq(Items)
      /\ out \o held = Carried(tables, taken)
  BY DEF AvTypeOK, Written, TakenGoesOut
<1>2. out' = out \o Kept(tables, item) /\ UNCHANGED <<tables, held>>
  BY DEF Emit
<1>3. out = Carried(tables, taken)
  BY <1>1, ConcatEmptySeq
<1>4. out' = Carried(tables, taken')
  BY <1>1, <1>2, <1>3, CarriedAppend
<1>5. out' \in Seq(Items)
  BY <1>1, <1>2, KeptTyped, ConcatProperties
<1>6. out' \o held' = out'
  BY <1>1, <1>2, <1>5, ConcatEmptySeq
<1> QED BY <1>2, <1>4, <1>5, <1>6 DEF Written, TakenGoesOut

\* Nothing is taken or written.
LEMMA RestWrites ==
  ASSUME Written, UNCHANGED <<tables, held, taken, out>>
  PROVE  Written'
BY DEF Written, TakenGoesOut

LEMMA WrittenStep == TypeOK /\ AvTypeOK /\ Written /\ [AvNext]_avVars => Written'
<1> SUFFICES ASSUME TypeOK, AvTypeOK, Written, [AvNext]_avVars PROVE Written'
  OBVIOUS
<1>1. AvTypeOK'
  BY AvTypesStep
<1>2. taken \in Seq(Items) /\ taken' \in Seq(Items) /\ (tables = "none" => held = taken)
  BY <1>1 DEF AvTypeOK, Written
<1>3. ASSUME taken' = taken, tables = "none", Prove(held) PROVE Written'
  BY <1>2, <1>3, BeginWrites, RestWrites DEF Prove
<1>4. CASE TakePart
  <2> DEFINE item == Head(items)
  <2>1. item \in Items
    BY <1>4, HeadTailProperties DEF TypeOK, TakePart, Get
  <2>2. CASE item.final
    <3>1. taken' = taken /\ (PictureEnds \/ SoundEnds)
      BY <1>4, <2>2 DEF TakePart
    <3> QED BY <1>3, <3>1, RestWrites DEF PictureEnds, SoundEnds
  <2>3. CASE ~item.final /\ tables # "none"
    <3>1. taken' = Append(taken, item) /\ Emit(item)
      BY <1>4, <2>3 DEF TakePart
    <3> QED BY <2>1, <2>3, <3>1, EmitWrites
  <2>4. CASE ~item.final /\ tables = "none"
    <3>1. taken' = Append(taken, item) /\ Hold(item)
      BY <1>4, <2>4 DEF TakePart
    <3>2. Append(held, item) = taken'
      BY <1>2, <2>4, <3>1
    <3>3. \/ \E t \in {"video", "both"} : Begin(t, taken')
          \/ held' = Append(held, item) /\ UNCHANGED <<tables, out>>
      BY <3>1, <3>2 DEF Hold, Prove
    <3> QED BY <1>2, <2>1, <2>4, <3>1, <3>3, BeginWrites, HoldWrites
  <2> QED BY <2>2, <2>3, <2>4
<1>5. CASE ProbeEnds
  <2>1. taken' = taken /\ tables = "none" /\ (\E t \in {"video", "both"} : Begin(t, held))
    BY <1>5 DEF ProbeEnds, AvTypeOK
  <2> QED BY <1>2, <2>1, BeginWrites
<1>6. CASE CloseEnds \/ Deadline \/ HoldOffAges
  BY <1>6, RestWrites DEF CloseEnds, Deadline, HoldOffAges, handler
<1>7. ASSUME UNCHANGED <<camera, handler>> PROVE Written'
  BY <1>7, RestWrites DEF handler
<1>8. ASSUME NEW t \in Tracks, Reader(t) PROVE UNCHANGED <<camera, handler>>
  BY <1>8 DEF Reader
<1>9. OfferPart \/ UNCHANGED avVars => UNCHANGED <<camera, handler>>
  BY DEF OfferPart, avVars
<1> QED BY <1>4, <1>5, <1>6, <1>7, <1>8, <1>9 DEF AvNext, Handle

\* TakenGoesOut, for any number of frames and however long the format takes to
\* settle: no frame taken is lost, written twice or overtaken by a later one.
THEOREM AllTakenGoesOut == AvSpec => []TakenGoesOut
<1>1. AvInit => Written
  <2>1. Carried("both", <<>>) = <<>>
    BY CarriedNothing
  <2>2. <<>> \o <<>> = <<>> /\ <<>> \in Seq(Items)
    BY EmptySeq, ConcatEmptySeq
  <2> QED BY <2>1, <2>2 DEF AvInit, Written, TakenGoesOut
<1>2. Written => TakenGoesOut
  BY DEF Written
<1>3. AvSpec => []TypeOK
  BY AvIsQueue, TypeCorrect, PTL
<1> QED BY <1>1, <1>2, <1>3, AvTypeCorrect, WrittenStep, PTL DEF AvSpec

-----------------------------------------------------------------------------
(* The transport stream: what is to be cut, and what a reader makes of it. *)

Recorded == [track : Media, ms : Nat, size : Nat]
Entries == [frame : Nat, time : Nat, bytes : Nat]

Readers ==
  [on : BOOLEAN, joined : Nat \ {0}, lost : {FALSE}, tables : 0 .. 2,
   seen : [Pids -> Int], open : [Media -> Entries], got : SUBSET Entries]

At(n) == Time(emitted[n].ms % Clock, origin)

\* u is the frame that is being cut, behind what is left of the tables.
Cut(u) ==
  /\ u \in [pid : Media, frame : Nat, time : Nat, left : Nat \ {0}, first : BOOLEAN]
  /\ u.frame = Len(emitted) /\ u.frame # 0 /\ u.time = At(u.frame)
  /\ u.first => u.left = HeaderBytes + emitted[u.frame].size
  /\ \/ todo = <<u>>
     \/ u.first /\ todo = <<Section("pmt"), u>>
     \/ u.first /\ todo = <<Section("pat"), Section("pmt"), u>>

Muxing ==
  /\ carried \in BOOLEAN /\ ms \in [Media -> Nat] /\ emitted \in Seq(Recorded)
  /\ origin = IF emitted = <<>> THEN Never ELSE emitted[1].ms % Clock
  /\ continuity \in [Pids -> 0 .. Counters - 1]
  /\ tablesAt = Never \/ \E l \in 1 .. Len(emitted) : tablesAt = At(l)
  /\ todo = <<>> \/ \E u : Cut(u)

\* The reader misses no packet, and makes nothing of the frames before it has
\* the tables.
Reads ==
  /\ reader \in Readers
  /\ reader.joined <= Len(emitted) + 1
  /\ \A p \in Pids : reader.seen[p] \in {Never, (continuity[p] + Counters - 1) % Counters}
  /\ ~reader.on => reader.tables = 0 /\ \A p \in Pids : reader.seen[p] = Never
  /\ reader.tables < 2 => reader.got = {} /\ \A t \in Media : reader.open[t] = NoFrame

Timed(e) == e.frame \in 1 .. Len(emitted) /\ e.time = At(e.frame)
Whole(e) == e.bytes = HeaderBytes + emitted[e.frame].size

\* What has come is whole, and what is coming lacks what is still to be cut.
Comes ==
  /\ \A e \in reader.got : Timed(e) /\ Whole(e)
  /\ \A t \in Media : reader.open[t] # NoFrame =>
       /\ Timed(reader.open[t])
       /\ (\A u : Cut(u) /\ u.pid = t => u.first) => Whole(reader.open[t])
       /\ \A u : Cut(u) /\ u.pid = t /\ ~u.first =>
            /\ reader.open[t].frame = u.frame
            /\ reader.open[t].bytes + u.left = HeaderBytes + emitted[u.frame].size

\* Without the tables, it came after the last of them, or they are on their way.
TablesComing(u) ==
  \/ todo = <<Section("pat"), Section("pmt"), u>>
  \/ todo = <<Section("pmt"), u>> /\ reader.tables >= 1

Tabled ==
  reader.on /\ reader.tables < 2 =>
    \/ tablesAt = Never
    \/ \E l \in 1 .. reader.joined - 1 : tablesAt = At(l)
    \/ \E u : Cut(u) /\ TablesComing(u)

\* It has a frame it is owed, or gets it with the next packets.
Has(n) == \E e \in Read : e.frame = n
Awaited(n) ==
  \E u : /\ Cut(u) /\ u.frame = n /\ u.first
         /\ TablesComing(u) \/ (todo = <<u>> /\ reader.tables = 2)

Keeps == Unwrapped => \A n \in 1 .. Len(emitted) : Owed(n) => Has(n) \/ Awaited(n)

-----------------------------------------------------------------------------
(* Numbers.                                                                *)

LEMMA CountersGoOn ==
  ASSUME NEW C \in Nat \ {0}, NEW c \in 0 .. C - 1
  PROVE  (c + 1) % C \in 0 .. C - 1 /\ (((c + 1) % C) + C - 1) % C = c
OBVIOUS

LEMMA Stamps ==
  ASSUME NEW n \in Nat
  PROVE  n % Clock \in Nat /\ (n < Clock => n % Clock = n)
BY StreamAssumption

LEMMA TimeType ==
  ASSUME NEW s \in Nat, NEW f \in Nat
  PROVE  Time(s, f) \in Nat
BY DEF Time

\* The tables are due when a frame comes that much later than one before.
LEMMA Elapsed ==
  ASSUME NEW a \in Nat, NEW b \in Nat, NEW o \in Nat, a < Clock, b < Clock, o < Clock,
         a > o + TableInterval, a > b + TableInterval
  PROVE  /\ Time(a % Clock, o % Clock) \in Nat /\ Time(b % Clock, o % Clock) \in Nat
         /\ Time(a % Clock, o % Clock) - Time(b % Clock, o % Clock) > TableInterval
<1>1. a % Clock = a /\ b % Clock = b /\ o % Clock = o
  BY Stamps
<1>2. TableInterval \in Nat
  BY StreamAssumption
<1> QED BY <1>1, <1>2 DEF Time

\* Every packet has its size, and its payload is the chunk put into it.
LEMMA PacketsFit ==
  ASSUME NEW u, u.pid \in Pids, u.left \in Nat \ {0}, u.first \in BOOLEAN
  PROVE  /\ Chunk(u) \in 1 .. u.left
         /\ u.pid \in {"pat", "pmt"} /\ u.left = 27 => Chunk(u) = u.left
         /\ Packet(u).size = PacketSize /\ Payload(Packet(u)) = Chunk(u)
         /\ Packet(u).pid = u.pid /\ Packet(u).start = u.first
         /\ Packet(u).frame = u.frame /\ Packet(u).time = u.time
         /\ Packet(u).counter = continuity[u.pid]
<1> DEFINE B == Bare(u)
<1> DEFINE R == Room(u)
<1> DEFINE K == Chunk(u)
<1>1. PacketSize \in Nat /\ PacketSize > 31
  BY StreamAssumption
<1>2. B \in {0, 8} /\ (u.pid \in {"pat", "pmt"} => B = 0)
  BY DEF Bare
<1>3. R = PacketSize - 4 - B
  BY DEF Room
<1>4. K = IF u.left < R THEN u.left ELSE R
  BY DEF Chunk
<1>5. Padding(u) = R - K
  BY DEF Padding
<1>6. Packet(u).size = 4 + Stuffed(u) + K
  BY DEF Packet
<1>7. Stuffed(u) = B + Padding(u)
  BY DEF Stuffed
<1>8. LengthByte(u) = IF B > 0 THEN 7 + Padding(u) ELSE Padding(u) - 1
  BY DEF LengthByte
<1>9. Payload(Packet(u)) = PacketSize - 4 - (IF Stuffed(u) > 0 THEN LengthByte(u) + 1 ELSE 0)
  BY DEF Packet, Payload
<1>10. /\ Packet(u).pid = u.pid /\ Packet(u).start = u.first
       /\ Packet(u).frame = u.frame /\ Packet(u).time = u.time
       /\ Packet(u).counter = continuity[u.pid]
  BY DEF Packet
<1> HIDE DEF B, R, K
<1>11. K \in 1 .. u.left /\ (u.pid \in {"pat", "pmt"} /\ u.left = 27 => K = u.left)
  BY <1>1, <1>2, <1>3, <1>4
<1>12. Packet(u).size = PacketSize
  BY <1>1, <1>2, <1>3, <1>5, <1>6, <1>7, <1>11
<1>13. Payload(Packet(u)) = K
  BY <1>1, <1>2, <1>3, <1>4, <1>5, <1>7, <1>8, <1>9, <1>11
<1> QED BY <1>10, <1>11, <1>12, <1>13 DEF K

-----------------------------------------------------------------------------
(* What has been emitted, and one frame more.                              *)

LEMMA OneMore ==
  ASSUME emitted \in Seq(Recorded), NEW e \in Recorded, emitted' = Append(emitted, e)
  PROVE  /\ emitted' \in Seq(Recorded) /\ emitted' # <<>> /\ Len(emitted) \in Nat
         /\ Len(emitted') = Len(emitted) + 1
         /\ \A i \in 1 .. Len(emitted) : emitted'[i] = emitted[i]
         /\ emitted'[Len(emitted')] = e
         /\ emitted = <<>> <=> Len(emitted) = 0
<1>1. /\ Append(emitted, e) \in Seq(Recorded)
      /\ Len(Append(emitted, e)) = Len(emitted) + 1
      /\ \A i \in 1 .. Len(emitted) : Append(emitted, e)[i] = emitted[i]
      /\ Append(emitted, e)[Len(emitted) + 1] = e
  BY AppendProperties
<1>2. Len(emitted) \in Nat /\ (emitted = <<>> <=> Len(emitted) = 0)
  BY EmptySeq, LenProperties
<1>3. emitted' # <<>>
  BY <1>1, <1>2, EmptySeq
<1> QED BY <1>1, <1>2, <1>3

\* A frame comes behind the others, and behind the tables when they are due.
LEMMA EmitMuxes ==
  ASSUME Muxing, NEW t \in Media, EmitFrame(t)
  PROVE  /\ Muxing' /\ todo = <<>> /\ UNCHANGED <<carried, continuity, reader>>
         /\ Len(emitted) \in Nat
         /\ \E n \in Nat :
              /\ n = Len(emitted) + 1 /\ Len(emitted') = n /\ emitted'[n] \in Recorded
              /\ \A i \in 1 .. Len(emitted) : emitted'[i] = emitted[i] /\ At(i)' = At(i)
              /\ \/ emitted'[n].track # "video" /\ ~carried /\ todo' = <<>> /\ tablesAt' = tablesAt
                 \/ \E u :
                      /\ u.frame = n /\ u.first /\ Cut(u)'
                      /\ \/ todo' = <<Section("pat"), Section("pmt"), u>>
                         \/ todo' = <<u>> /\ tablesAt' = tablesAt /\ FALSE \in Due(At(n)')
<1>0. /\ carried \in BOOLEAN /\ ms \in [Media -> Nat] /\ emitted \in Seq(Recorded)
      /\ origin = IF emitted = <<>> THEN Never ELSE emitted[1].ms % Clock
      /\ continuity \in [Pids -> 0 .. Counters - 1]
      /\ tablesAt = Never \/ \E l \in 1 .. Len(emitted) : tablesAt = At(l)
  BY DEF Muxing
<1>n. Len(emitted) \in Nat
  BY <1>0, LenProperties
<1> PICK n \in Nat : n = Len(emitted) + 1
  BY <1>n
<1> PICK stamp : stamp = ms[t] % Clock
  OBVIOUS
<1>1. PICK size \in Sizes, step \in Steps :
        /\ origin' = (IF origin = Never THEN stamp ELSE origin)
        /\ emitted' = Append(emitted, [track |-> t, ms |-> ms[t], size |-> size])
        /\ ms' = [ms EXCEPT ![t] = @ + step]
        /\ IF t = "video" \/ carried
           THEN Frame(t, Len(emitted'), size, Time(stamp, origin'))
           ELSE UNCHANGED muxer
  BY DEF EmitFrame
<1>2. todo = <<>> /\ UNCHANGED <<carried, continuity, reader>>
  BY <1>1 DEF EmitFrame, Frame, muxer
<1> PICK e : e = [track |-> t, ms |-> ms[t], size |-> size]
  OBVIOUS
<1>3. size \in Nat /\ step \in Nat /\ ms[t] \in Nat /\ e \in Recorded
      /\ e.track = t /\ e.ms = ms[t] /\ e.size = size
  BY <1>0, StreamAssumption DEF Recorded
<1>4. /\ emitted' \in Seq(Recorded) /\ emitted' # <<>>
      /\ Len(emitted') = n /\ emitted'[n] = e
      /\ \A i \in 1 .. Len(emitted) : emitted'[i] = emitted[i]
      /\ emitted = <<>> <=> Len(emitted) = 0
  BY <1>0, <1>1, <1>3, OneMore
<1>5. stamp \in Nat /\ \A i \in 1 .. Len(emitted) : emitted[i].ms % Clock \in Nat
  <2>1. \A i \in 1 .. Len(emitted) : emitted[i] \in Recorded
    BY <1>0, ElementOfSeq
  <2>2. \A i \in 1 .. Len(emitted) : emitted[i].ms \in Nat
    BY <2>1 DEF Recorded
  <2> QED BY <1>3, <2>2, Stamps
<1>6. origin' \in Nat /\ origin' = emitted'[1].ms % Clock
      /\ (emitted # <<>> => origin' = origin)
  <2>1. CASE emitted = <<>>
    <3>1. origin = Never /\ n = 1
      BY <1>0, <1>4, <2>1
    <3> QED BY <1>1, <1>3, <1>4, <1>5, <2>1, <3>1
  <2>2. CASE emitted # <<>>
    <3>1. 1 \in 1 .. Len(emitted) /\ origin = emitted[1].ms % Clock
      BY <1>0, <1>n, <1>4, <2>2
    <3>2. origin \in Nat /\ origin # Never
      BY <1>5, <3>1 DEF Never
    <3> QED BY <1>1, <1>4, <2>2, <3>1, <3>2
  <2> QED BY <2>1, <2>2
<1>7. At(n)' = Time(stamp, origin') /\ Time(stamp, origin') \in Nat
  <2>1. emitted'[n].ms % Clock = stamp
    BY <1>3, <1>4
  <2> QED BY <1>5, <1>6, <2>1, TimeType DEF At
<1>8. \A i \in 1 .. Len(emitted) : At(i)' = At(i)
  <2>1. Len(emitted) # 0 => emitted # <<>>
    BY <1>4
  <2>2. \A i \in 1 .. Len(emitted) : Len(emitted) # 0
    BY <1>n
  <2> QED BY <1>4, <1>6, <2>1, <2>2 DEF At
<1>9. ms' \in [Media -> Nat]
  BY <1>0, <1>1, <1>3
<1>10. tablesAt = Never \/ \E l \in 1 .. n : tablesAt = At(l)'
  <2>1. \A l \in 1 .. Len(emitted) : l \in 1 .. n
    BY <1>n
  <2> QED BY <1>0, <1>8, <2>1
<1>11. CASE ~(t = "video" \/ carried)
  <2>1. todo' = <<>> /\ tablesAt' = tablesAt
    BY <1>1, <1>2, <1>11 DEF muxer
  <2>2. Muxing'
    BY <1>0, <1>2, <1>4, <1>6, <1>9, <1>10, <2>1 DEF Muxing
  <2>3. emitted'[n] \in Recorded /\ emitted'[n].track # "video"
    BY <1>3, <1>4, <1>11
  <2> QED BY <1>n, <1>2, <1>4, <1>8, <1>11, <2>1, <2>2, <2>3
<1>12. CASE t = "video" \/ carried
  <2> PICK now : now = Time(stamp, origin')
    OBVIOUS
  <2> PICK u : u = Pes(t, n, now, size)
    OBVIOUS
  <2>1. PICK due \in Due(now) :
          /\ tablesAt' = (IF due THEN now ELSE tablesAt)
          /\ todo' = (IF due THEN <<Section("pat"), Section("pmt"), u>> ELSE <<u>>)
    BY <1>1, <1>4, <1>12 DEF Frame
  <2>2. /\ u \in [pid : Media, frame : Nat, time : Nat, left : Nat \ {0}, first : BOOLEAN]
        /\ u.frame = n /\ u.time = now /\ u.first = TRUE /\ u.left = HeaderBytes + size
    BY <1>3, <1>7 DEF Pes, HeaderBytes
  <2>3. due \in BOOLEAN
    BY <2>1 DEF Due
  <2>4. \/ due = TRUE /\ tablesAt' = now /\ todo' = <<Section("pat"), Section("pmt"), u>>
        \/ due = FALSE /\ tablesAt' = tablesAt /\ todo' = <<u>>
    BY <2>1, <2>3
  <2>5. Cut(u)'
    <3>1. u.frame = Len(emitted') /\ u.frame # 0 /\ u.time = At(u.frame)'
      BY <1>n, <1>4, <1>7, <2>2
    <3>2. u.left = HeaderBytes + emitted'[u.frame].size
      BY <1>3, <1>4, <2>2
    <3> QED BY <2>2, <2>4, <3>1, <3>2 DEF Cut
  <2>6. tablesAt' = Never \/ \E l \in 1 .. n : tablesAt' = At(l)'
    <3>1. n \in 1 .. n
      BY <1>n
    <3> QED BY <1>7, <1>10, <2>4, <3>1
  <2>7. Muxing'
    BY <1>0, <1>2, <1>4, <1>6, <1>9, <2>5, <2>6 DEF Muxing
  <2>8. due = FALSE => FALSE \in Due(At(n)')
    BY <1>7, <2>1
  <2>9. /\ u.frame = n /\ u.first /\ Cut(u)'
        /\ \/ todo' = <<Section("pat"), Section("pmt"), u>>
           \/ todo' = <<u>> /\ tablesAt' = tablesAt /\ FALSE \in Due(At(n)')
    BY <2>2, <2>4, <2>5, <2>8
  <2>10. emitted'[n] \in Recorded
    BY <1>3, <1>4
  <2> QED BY <1>n, <1>2, <1>4, <1>8, <2>7, <2>9, <2>10
<1> QED BY <1>11, <1>12

\* A packet is cut from the first that is left to cut.
LEMMA SendCuts ==
  ASSUME Muxing, Send
  PROVE  /\ Muxing' /\ UNCHANGED <<carried, ms, origin, tablesAt, emitted>>
         /\ \E u, h :
              /\ Cut(u) /\ h.pid \in Pids /\ h.left \in Nat \ {0} /\ h.first \in BOOLEAN
              /\ h.frame \in Nat /\ h.time \in Nat
              /\ reader' = Receive(reader, Packet(h))
              /\ continuity' = [continuity EXCEPT ![h.pid] = (@ + 1) % Counters]
              /\ \/ /\ todo = <<Section("pat"), Section("pmt"), u>> /\ h = Section("pat")
                    /\ todo' = <<Section("pmt"), u>> /\ Cut(u)' /\ u.first
                 \/ /\ todo = <<Section("pmt"), u>> /\ h = Section("pmt")
                    /\ todo' = <<u>> /\ Cut(u)' /\ u.first
                 \/ todo = <<u>> /\ h = u /\ todo' = <<>> /\ u.left = Chunk(u)
                 \/ /\ todo = <<u>> /\ h = u
                    /\ \E v : /\ todo' = <<v>> /\ Cut(v)' /\ ~v.first /\ v.pid = u.pid
                              /\ v.frame = u.frame /\ v.left = u.left - Chunk(u)
<1>1. /\ todo # <<>> /\ UNCHANGED <<carried, ms, origin, tablesAt, emitted>>
      /\ reader' = Receive(reader, Packet(Head(todo)))
      /\ continuity' = [continuity EXCEPT ![Head(todo).pid] = (@ + 1) % Counters]
      /\ todo' = (IF Head(todo).left > Chunk(Head(todo))
                  THEN [todo EXCEPT ![1] = [Head(todo) EXCEPT !.left = @ - Chunk(Head(todo)),
                                                               !.first = FALSE]]
                  ELSE Tail(todo))
  BY DEF Send
<1>2. PICK u : Cut(u)
  BY <1>1 DEF Muxing
<1>3. \A w : /\ Cut(w)
             /\ \/ todo' = <<w>>
                \/ w.first /\ todo' = <<Section("pmt"), w>>
             => Cut(w)'
  BY <1>1 DEF Cut, At
<1>4. \A p \in {"pat", "pmt"} :
        /\ Section(p).pid = p /\ p \in Pids /\ Section(p).left = 27 /\ Section(p).first = TRUE
        /\ Section(p).frame = 0 /\ Section(p).time = 0
  BY DEF Section, Pids
<1>5. \A p \in {"pat", "pmt"} : Chunk(Section(p)) = 27
  <2> SUFFICES ASSUME NEW p \in {"pat", "pmt"} PROVE Chunk(Section(p)) = 27
    OBVIOUS
  <2>1. Section(p).pid = p /\ Section(p).left = 27
    BY <1>4
  <2>2. Bare(Section(p)) = 0
    BY <2>1 DEF Bare
  <2> QED BY <2>1, <2>2, StreamAssumption DEF Chunk, Room
<1>6. ASSUME todo' = <<>> \/ (\E v : Cut(v)'), Head(todo).pid \in Pids
      PROVE  Muxing'
  <2>1. continuity' \in [Pids -> 0 .. Counters - 1]
    BY <1>1, <1>6, CountersGoOn, StreamAssumption DEF Muxing
  <2>2. tablesAt' = Never \/ \E l \in 1 .. Len(emitted') : tablesAt' = At(l)'
    BY <1>1 DEF Muxing, At
  <2> QED BY <1>1, <1>6, <2>1, <2>2 DEF Muxing
<1>7. CASE todo = <<Section("pat"), Section("pmt"), u>>
  <2>1. Head(todo) = Section("pat") /\ Tail(todo) = <<Section("pmt"), u>>
    BY <1>7
  <2>2. todo' = <<Section("pmt"), u>>
    <3>1. ~(Section("pat").left > Chunk(Section("pat")))
      BY <1>4, <1>5
    <3> QED BY <1>1, <2>1, <3>1
  <2>3. u.first
    BY <1>2, <1>7 DEF Cut
  <2>4. Cut(u)'
    BY <1>1, <1>2, <1>3, <2>2, <2>3
  <2>5. Muxing'
    BY <1>4, <1>6, <2>1, <2>4
  <2>6. /\ Section("pat").pid \in Pids /\ Section("pat").left \in Nat \ {0}
        /\ Section("pat").first \in BOOLEAN
        /\ Section("pat").frame \in Nat /\ Section("pat").time \in Nat
    BY DEF Section, Pids
  <2> QED BY <1>1, <1>2, <1>7, <2>1, <2>2, <2>3, <2>4, <2>5, <2>6, Zenon
<1>8. CASE todo = <<Section("pmt"), u>>
  <2>1. Head(todo) = Section("pmt") /\ Tail(todo) = <<u>>
    BY <1>8
  <2>2. todo' = <<u>>
    <3>1. ~(Section("pmt").left > Chunk(Section("pmt")))
      BY <1>4, <1>5
    <3> QED BY <1>1, <2>1, <3>1
  <2>3. u.first
    BY <1>2, <1>8 DEF Cut
  <2>4. Cut(u)'
    BY <1>2, <1>3, <2>2
  <2>5. Muxing'
    BY <1>4, <1>6, <2>1, <2>4
  <2>6. /\ Section("pmt").pid \in Pids /\ Section("pmt").left \in Nat \ {0}
        /\ Section("pmt").first \in BOOLEAN
        /\ Section("pmt").frame \in Nat /\ Section("pmt").time \in Nat
    BY DEF Section, Pids
  <2> QED BY <1>1, <1>2, <1>8, <2>1, <2>2, <2>3, <2>4, <2>5, <2>6, Zenon
<1>9. CASE todo = <<u>>
  <2>1. Head(todo) = u /\ Tail(todo) = <<>>
    BY <1>9
  <2>2. u \in [pid : Media, frame : Nat, time : Nat, left : Nat \ {0}, first : BOOLEAN]
    BY <1>2 DEF Cut
  <2>3. u.pid \in Pids /\ Chunk(u) \in 1 .. u.left /\ u.left \in Nat \ {0}
    BY <2>2, PacketsFit DEF Pids
  <2>4. CASE u.left = Chunk(u)
    <3>1. todo' = <<>>
      BY <1>1, <2>1, <2>3, <2>4
    <3>2. Muxing'
      BY <1>6, <2>1, <2>3, <3>1
    <3> QED BY <1>1, <1>2, <1>9, <2>1, <2>2, <2>3, <2>4, <3>1, <3>2
  <2>5. CASE u.left # Chunk(u)
    <3> PICK v : v = [u EXCEPT !.left = @ - Chunk(u), !.first = FALSE]
      OBVIOUS
    <3>1. todo' = <<v>>
      <4>1. u.left > Chunk(u)
        BY <2>3, <2>5
      <4>2. todo' = [todo EXCEPT ![1] = v]
        BY <1>1, <2>1, <4>1
      <4> QED BY <1>9, <4>2
    <3>2. /\ v \in [pid : Media, frame : Nat, time : Nat, left : Nat \ {0}, first : BOOLEAN]
          /\ v.pid = u.pid /\ v.frame = u.frame /\ v.time = u.time
          /\ v.left = u.left - Chunk(u) /\ v.first = FALSE
      <4>1. u.left - Chunk(u) \in Nat \ {0}
        BY <2>3, <2>5
      <4>2. v = [pid |-> u.pid, frame |-> u.frame, time |-> u.time,
                 left |-> u.left - Chunk(u), first |-> FALSE]
        BY <2>2
      <4>3. u.pid \in Media /\ u.frame \in Nat /\ u.time \in Nat
        BY <2>2
      <4> QED BY <4>1, <4>2, <4>3
    <3>3. Cut(v)'
      BY <1>1, <1>2, <3>1, <3>2 DEF Cut, At
    <3>4. Muxing'
      BY <1>6, <2>1, <2>3, <3>3
    <3> QED BY <1>1, <1>2, <1>9, <2>1, <2>2, <2>3, <3>1, <3>2, <3>3, <3>4
  <2> QED BY <2>4, <2>5
<1> QED BY <1>2, <1>7, <1>8, <1>9 DEF Cut

-----------------------------------------------------------------------------
(* The reader.                                                             *)

\* What the reader makes of the packet h begins with: it opens a frame, goes on
\* with it, or is one of the tables.
Hears(h) ==
  /\ ~reader.on => reader' = reader
  /\ reader'.on = reader.on /\ reader'.joined = reader.joined /\ reader'.lost = FALSE
  /\ reader.on => reader'.seen = [reader.seen EXCEPT ![h.pid] = continuity[h.pid]]
  /\ reader.on =>
       /\ h.pid = "pat" => reader'.tables = IF reader.tables = 0 THEN 1 ELSE reader.tables
       /\ h.pid = "pmt" => reader'.tables = IF reader.tables = 1 THEN 2 ELSE reader.tables
       /\ h.pid \in Media => reader'.tables = reader.tables
  /\ ~reader.on \/ h.pid \notin Media \/ reader.tables < 2
       => reader'.open = reader.open /\ reader'.got = reader.got
  /\ reader.on /\ h.pid \in Media /\ reader.tables = 2 =>
       /\ reader'.open =
            [reader.open EXCEPT ![h.pid] =
               IF h.first THEN [frame |-> h.frame, time |-> h.time, bytes |-> Chunk(h)]
               ELSE IF @ = NoFrame THEN NoFrame
               ELSE [frame |-> @.frame, time |-> @.time, bytes |-> @.bytes + Chunk(h)]]
       /\ reader'.got = IF h.first THEN reader.got \cup Came(reader, h.pid) ELSE reader.got
  /\ reader' = [on |-> reader.on, joined |-> reader.joined, lost |-> FALSE,
                tables |-> reader'.tables, seen |-> reader'.seen,
                open |-> reader'.open, got |-> reader'.got]

LEMMA PacketReceived ==
  ASSUME Muxing, Reads, NEW h,
         h.pid \in Pids, h.left \in Nat \ {0}, h.first \in BOOLEAN,
         h.frame \in Nat, h.time \in Nat,
         reader' = Receive(reader, Packet(h))
  PROVE  Hears(h)
<1>1. PICK p : p = Packet(h)
  OBVIOUS
<1>2. /\ p.size = PacketSize /\ Payload(p) = Chunk(h) /\ p.pid = h.pid /\ p.start = h.first
      /\ p.frame = h.frame /\ p.time = h.time /\ p.counter = continuity[h.pid]
  BY <1>1, PacketsFit
<1>3. reader \in [on : BOOLEAN, joined : Nat \ {0}, lost : {FALSE}, tables : 0 .. 2,
                  seen : [Pids -> Int], open : [Media -> Entries], got : SUBSET Entries]
  BY DEF Reads, Readers
<1>4. Follows(reader, p)
  BY <1>2 DEF Follows, Reads
<1>5. PICK heard : heard = [reader EXCEPT !.seen[p.pid] = p.counter, !.lost = @ \/ p.size # PacketSize]
  OBVIOUS
<1>6. /\ heard.on = reader.on /\ heard.joined = reader.joined /\ heard.lost = FALSE
      /\ heard.tables = reader.tables /\ heard.open = reader.open /\ heard.got = reader.got
      /\ heard.seen = [reader.seen EXCEPT ![h.pid] = continuity[h.pid]]
  BY <1>2, <1>3, <1>5
<1>7. heard = [on |-> reader.on, joined |-> reader.joined, lost |-> FALSE,
               tables |-> reader.tables, seen |-> heard.seen, open |-> reader.open,
               got |-> reader.got]
  BY <1>2, <1>3, <1>5, <1>6
<1>8. reader' = IF ~reader.on \/ reader.lost THEN reader
                ELSE IF p.pid = "pat" THEN [heard EXCEPT !.tables = IF @ = 0 THEN 1 ELSE @]
                ELSE IF p.pid = "pmt" THEN [heard EXCEPT !.tables = IF @ = 1 THEN 2 ELSE @]
                ELSE IF reader.tables < 2 THEN heard
                ELSE [heard EXCEPT
                        !.open[p.pid] = Opened(reader, p),
                        !.got = IF p.start /\ Follows(reader, p) THEN @ \cup Came(reader, p.pid) ELSE @]
  BY <1>1, <1>5 DEF Receive
<1>9. reader.lost = FALSE /\ reader.on \in BOOLEAN
  BY <1>3
<1>10. CASE ~reader.on
  BY <1>3, <1>8, <1>9, <1>10 DEF Hears
<1>11. CASE reader.on /\ h.pid = "pat"
  <2>1. reader' = [heard EXCEPT !.tables = IF @ = 0 THEN 1 ELSE @]
    BY <1>2, <1>8, <1>9, <1>11
  <2> QED BY <1>6, <1>7, <1>11, <2>1 DEF Media, Hears
<1>12. CASE reader.on /\ h.pid = "pmt"
  <2>1. reader' = [heard EXCEPT !.tables = IF @ = 1 THEN 2 ELSE @]
    BY <1>2, <1>8, <1>9, <1>12
  <2> QED BY <1>6, <1>7, <1>12, <2>1 DEF Media, Hears
<1>13. CASE reader.on /\ h.pid \in Media /\ reader.tables < 2
  <2>1. reader' = heard
    BY <1>2, <1>8, <1>9, <1>13 DEF Media
  <2>2. h.pid # "pat" /\ h.pid # "pmt"
    BY <1>13 DEF Media
  <2>3. reader.tables # 2
    BY <1>13
  <2> QED BY <1>6, <1>7, <1>13, <2>1, <2>2, <2>3 DEF Hears
<1>14. CASE reader.on /\ h.pid \in Media /\ ~(reader.tables < 2)
  <2>1. reader' = [heard EXCEPT
                     !.open[h.pid] = Opened(reader, p),
                     !.got = IF h.first THEN @ \cup Came(reader, h.pid) ELSE @]
    BY <1>2, <1>4, <1>8, <1>9, <1>14 DEF Media
  <2>2. /\ reader'.open = [reader.open EXCEPT ![h.pid] = Opened(reader, p)]
        /\ reader'.got = IF h.first THEN reader.got \cup Came(reader, h.pid) ELSE reader.got
        /\ reader'.on = reader.on /\ reader'.joined = reader.joined /\ reader'.lost = FALSE
        /\ reader'.tables = reader.tables /\ reader'.seen = heard.seen
        /\ reader' = [on |-> reader.on, joined |-> reader.joined, lost |-> FALSE,
                      tables |-> reader'.tables, seen |-> reader'.seen,
                      open |-> reader'.open, got |-> reader'.got]
    BY <1>6, <1>7, <2>1
  <2>3. reader.open[h.pid] \in Entries
    BY <1>3, <1>14
  <2>4. Opened(reader, p) =
          IF h.first THEN [frame |-> h.frame, time |-> h.time, bytes |-> Chunk(h)]
          ELSE IF reader.open[h.pid] = NoFrame THEN NoFrame
          ELSE [frame |-> reader.open[h.pid].frame, time |-> reader.open[h.pid].time,
                bytes |-> reader.open[h.pid].bytes + Chunk(h)]
    BY <1>2, <1>4, <2>3 DEF Opened, Entries
  <2> QED BY <1>6, <1>14, <2>2, <2>4 DEF Media, Hears
<1>15. h.pid \in Media \/ h.pid = "pat" \/ h.pid = "pmt"
  BY DEF Pids
<1> QED BY <1>10, <1>11, <1>12, <1>13, <1>14, <1>15

LEMMA ReaderType ==
  ASSUME NEW o \in BOOLEAN, NEW j \in Nat \ {0}, NEW l \in {FALSE}, NEW n \in 0 .. 2,
         NEW s \in [Pids -> Int], NEW p \in [Media -> Entries], NEW g \in SUBSET Entries
  PROVE  [on |-> o, joined |-> j, lost |-> l, tables |-> n, seen |-> s, open |-> p, got |-> g]
           \in Readers
BY DEF Readers

LEMMA LastOf ==
  ASSUME NEW s, NEW w,
         s = <<w>> \/ s = <<Section("pmt"), w>> \/ s = <<Section("pat"), Section("pmt"), w>>
  PROVE  w = s[Len(s)]
<1>1. CASE s = <<w>>
  BY <1>1
<1>2. CASE s = <<Section("pmt"), w>>
  <2>1. Len(s) = 2 /\ s[2] = w
    BY <1>2
  <2> QED BY <2>1
<1>3. CASE s = <<Section("pat"), Section("pmt"), w>>
  <2>1. Len(s) = 3 /\ s[3] = w
    BY <1>3
  <2> QED BY <2>1
<1> QED BY <1>1, <1>2, <1>3

LEMMA CutOnce ==
  ASSUME NEW u, NEW v, Cut(u), Cut(v)
  PROVE  u = v
<1>1. ASSUME NEW w, Cut(w) PROVE w = todo[Len(todo)]
  <2>1. \/ todo = <<w>> \/ todo = <<Section("pmt"), w>>
        \/ todo = <<Section("pat"), Section("pmt"), w>>
    BY <1>1, Zenon DEF Cut
  <2> QED BY <2>1, LastOf
<1> QED BY <1>1

\* What comes in is put together in order.
LEMMA ReadsOn ==
  ASSUME Muxing, Reads, Send
  PROVE  Reads'
<1>1. PICK h :
        /\ h.pid \in Pids /\ h.left \in Nat \ {0} /\ h.first \in BOOLEAN
        /\ h.frame \in Nat /\ h.time \in Nat
        /\ reader' = Receive(reader, Packet(h))
        /\ continuity' = [continuity EXCEPT ![h.pid] = (@ + 1) % Counters]
  BY SendCuts
<1>2. UNCHANGED emitted
  BY SendCuts
<1>3. Hears(h)
  BY <1>1, PacketReceived
<1>4. CASE ~reader.on
  BY <1>2, <1>3, <1>4 DEF Hears, Reads, Readers
<1>5. CASE reader.on
  <2>1. /\ reader.open \in [Media -> Entries] /\ reader.got \subseteq Entries
        /\ reader.seen \in [Pids -> Int] /\ reader.tables \in 0 .. 2
        /\ reader.joined \in Nat \ {0} /\ reader.on = TRUE /\ continuity \in [Pids -> 0 .. Counters - 1]
    BY <1>5 DEF Reads, Readers, Muxing
  <2>2. reader'.tables \in 0 .. 2 /\ reader'.tables >= reader.tables
    BY <1>1, <1>3, <1>5, <2>1 DEF Hears, Pids
  <2>3. /\ reader'.seen \in [Pids -> Int]
        /\ \A p \in Pids : reader'.seen[p] \in {Never, (continuity'[p] + Counters - 1) % Counters}
    <3>1. reader'.seen = [reader.seen EXCEPT ![h.pid] = continuity[h.pid]]
      BY <1>3, <1>5 DEF Hears
    <3>2. continuity[h.pid] \in 0 .. Counters - 1 /\ Counters \in Nat \ {0}
      BY <1>1, <2>1, StreamAssumption
    <3>3. continuity'[h.pid] = (continuity[h.pid] + 1) % Counters
      BY <1>1, <2>1
    <3>4. (continuity'[h.pid] + Counters - 1) % Counters = continuity[h.pid]
      BY <3>2, <3>3, CountersGoOn
    <3>5. \A p \in Pids \ {h.pid} : continuity'[p] = continuity[p] /\ reader'.seen[p] = reader.seen[p]
      BY <1>1, <2>1, <3>1
    <3>6. reader'.seen[h.pid] = continuity[h.pid]
      BY <1>1, <2>1, <3>1
    <3>7. \A p \in Pids : reader.seen[p] \in {Never, (continuity[p] + Counters - 1) % Counters}
      BY DEF Reads, Readers
    <3>8. reader'.seen \in [Pids -> Int]
      BY <1>1, <2>1, <3>1, <3>2
    <3> QED BY <3>4, <3>5, <3>6, <3>7, <3>8, Zenon
  <2>4. CASE h.pid \in Media /\ reader.tables = 2
    <3>1. Chunk(h) \in Nat
      BY <1>1, PacketsFit
    <3>2. reader'.open \in [Media -> Entries]
      BY <1>1, <1>3, <1>5, <2>1, <2>4, <3>1 DEF Hears, Entries, NoFrame
    <3>3. reader'.got \subseteq Entries
      BY <1>3, <1>5, <2>1, <2>4 DEF Hears, Came
    <3>4. reader'.tables = 2
      BY <1>3, <1>5, <2>1, <2>4 DEF Hears
    <3>5. /\ reader'.on = TRUE /\ reader'.joined = reader.joined
          /\ reader' = [on |-> reader.on, joined |-> reader.joined, lost |-> FALSE,
                        tables |-> reader'.tables, seen |-> reader'.seen,
                        open |-> reader'.open, got |-> reader'.got]
      BY <1>3, <2>1 DEF Hears
    <3>6. reader' \in Readers
      <4>1. /\ reader.on \in BOOLEAN /\ reader.joined \in Nat \ {0} /\ FALSE \in {FALSE}
            /\ reader'.tables \in 0 .. 2 /\ reader'.seen \in [Pids -> Int]
            /\ reader'.open \in [Media -> Entries] /\ reader'.got \in SUBSET Entries
        BY <2>1, <2>2, <2>3, <3>2, <3>3
      <4> QED BY <3>5, <4>1, ReaderType
    <3>7. reader'.joined <= Len(emitted') + 1
      BY <1>2, <3>5 DEF Reads, Readers
    <3>8. ~(reader'.tables < 2)
      BY <3>4
    <3>9. reader'.on
      BY <3>5
    <3> QED BY <2>3, <3>6, <3>7, <3>8, <3>9, Zenon DEF Reads
  <2>5. CASE h.pid \notin Media \/ reader.tables < 2
    <3>1. reader'.open = reader.open /\ reader'.got = reader.got
      BY <1>3, <2>5 DEF Hears
    <3>2. reader'.tables < 2 => reader.tables < 2
      BY <2>1, <2>2
    <3>3. /\ reader'.on = TRUE /\ reader'.joined = reader.joined
          /\ reader' = [on |-> reader.on, joined |-> reader.joined, lost |-> FALSE,
                        tables |-> reader'.tables, seen |-> reader'.seen,
                        open |-> reader'.open, got |-> reader'.got]
      BY <1>3, <2>1 DEF Hears
    <3>4. reader' \in Readers
      <4>1. /\ reader.on \in BOOLEAN /\ reader.joined \in Nat \ {0} /\ FALSE \in {FALSE}
            /\ reader'.tables \in 0 .. 2 /\ reader'.seen \in [Pids -> Int]
            /\ reader'.open \in [Media -> Entries] /\ reader'.got \in SUBSET Entries
        BY <2>1, <2>2, <2>3, <3>1
      <4> QED BY <3>3, <4>1, ReaderType
    <3>5. reader'.joined <= Len(emitted') + 1
      BY <1>2, <3>3 DEF Reads
    <3>6. reader'.tables < 2 => reader'.got = {} /\ \A t \in Media : reader'.open[t] = NoFrame
      BY <3>1, <3>2 DEF Reads
    <3>7. reader'.on
      BY <3>3
    <3> QED BY <2>3, <3>4, <3>5, <3>6, <3>7, Zenon DEF Reads
  <2> QED BY <2>1, <2>4, <2>5
<1>6. reader.on \in BOOLEAN
  BY DEF Reads, Readers
<1> QED BY <1>4, <1>5, <1>6

-----------------------------------------------------------------------------
(* Before anything is sent, and when somebody joins.                       *)

LEMMA StreamBegins ==
  ASSUME StreamInit
  PROVE  Muxing /\ Reads /\ Comes /\ Tabled /\ Keeps
<1>1. /\ carried \in BOOLEAN /\ ms \in [Media -> Nat] /\ emitted = <<>> /\ origin = Never
      /\ continuity = [p \in Pids |-> 0] /\ tablesAt = Never /\ todo = <<>>
  BY StreamAssumption DEF StreamInit
<1>2. Muxing
  BY <1>1, StreamAssumption DEF Muxing
<1>3. reader = Reading
  BY DEF StreamInit
<1>4. NoFrame \in Entries
  BY DEF NoFrame, Entries
<1>5. Len(emitted) = 0
  BY <1>1
<1>6. Reads
  BY <1>3, <1>4, <1>5 DEF Reads, Readers, Reading, Never
<1>7. ~reader.on /\ reader.got = {} /\ \A t \in Media : reader.open[t] = NoFrame
  BY <1>3 DEF Reading
<1>8. Comes /\ Tabled
  BY <1>7 DEF Comes, Tabled
<1>9. Keeps
  BY <1>7 DEF Keeps, Owed
<1> QED BY <1>2, <1>6, <1>8, <1>9

LEMMA JoinReads ==
  ASSUME Muxing, Reads, Comes, Join
  PROVE  Muxing' /\ Reads' /\ Comes' /\ Tabled' /\ Keeps'
<1>1. /\ ~reader.on /\ reader' = [reader EXCEPT !.on = TRUE, !.joined = Len(emitted) + 1]
      /\ UNCHANGED <<carried, ms, origin, continuity, tablesAt, todo, emitted>>
  BY DEF Join, muxer
<1>2. Muxing'
  BY <1>1 DEF Muxing, Cut, At
<1>3. Len(emitted) \in Nat
  BY LenProperties DEF Muxing
<1>4. /\ reader'.on = TRUE /\ reader'.joined = Len(emitted) + 1 /\ reader'.tables = reader.tables
      /\ reader'.seen = reader.seen /\ reader'.open = reader.open /\ reader'.got = reader.got
      /\ reader' \in Readers
  <2>1. reader \in [on : BOOLEAN, joined : Nat \ {0}, lost : {FALSE}, tables : 0 .. 2,
                   seen : [Pids -> Int], open : [Media -> Entries], got : SUBSET Entries]
    BY DEF Reads, Readers
  <2>2. reader' = [on |-> TRUE, joined |-> Len(emitted) + 1, lost |-> reader.lost,
                   tables |-> reader.tables, seen |-> reader.seen, open |-> reader.open,
                   got |-> reader.got]
    BY <1>1, <2>1
  <2>3. Len(emitted) + 1 \in Nat \ {0}
    BY <1>3
  <2>4. reader' \in Readers
    BY <2>1, <2>2, <2>3, ReaderType
  <2> QED BY <2>2, <2>4
<1>5. Reads'
  <2>1. reader'.joined <= Len(emitted') + 1 /\ reader'.on
    BY <1>1, <1>3, <1>4
  <2>2. \A p \in Pids : reader'.seen[p] \in {Never, (continuity'[p] + Counters - 1) % Counters}
    BY <1>1, <1>4 DEF Reads
  <2>3. reader'.tables < 2 => reader'.got = {} /\ \A t \in Media : reader'.open[t] = NoFrame
    BY <1>4 DEF Reads
  <2> QED BY <1>4, <2>1, <2>2, <2>3, Zenon DEF Reads
<1>6. Comes'
  <2>1. \A u : Cut(u)' <=> Cut(u)
    BY <1>1, Zenon DEF Cut, At
  <2>2. /\ \A e \in reader'.got : Timed(e)' /\ Whole(e)'
        /\ \A t \in Media : reader'.open[t] = reader.open[t]
    BY <1>1, <1>4 DEF Comes, Timed, Whole, At
  <2>3. /\ \A e : Timed(e) => Timed(e)'
        /\ \A e : Whole(e) => Whole(e)'
    BY <1>1 DEF Timed, Whole, At
  <2> QED BY <1>1, <1>4, <2>1, <2>2, <2>3 DEF Comes
<1>7. Tabled'
  <2>1. tablesAt = Never \/ \E l \in 1 .. Len(emitted) : tablesAt = At(l)
    BY DEF Muxing
  <2>2. 1 .. Len(emitted) = 1 .. reader'.joined - 1
    BY <1>3, <1>4
  <2> QED BY <1>1, <2>1, <2>2 DEF Tabled, At
<1>8. Keeps'
  <2>1. \A n \in 1 .. Len(emitted)' : ~(n >= reader'.joined)
    BY <1>1, <1>3, <1>4
  <2> QED BY <2>1 DEF Keeps, Owed
<1> QED BY <1>2, <1>5, <1>6, <1>7, <1>8

-----------------------------------------------------------------------------
(* A frame is emitted.                                                     *)

LEMMA EmitReads ==
  ASSUME Muxing, Reads, Comes, Tabled, Keeps, NEW t \in Media, EmitFrame(t)
  PROVE  Muxing' /\ Reads' /\ Comes' /\ Tabled' /\ Keeps'
<1>1. /\ Muxing' /\ todo = <<>> /\ UNCHANGED <<carried, continuity, reader>>
      /\ Len(emitted) \in Nat
  BY EmitMuxes
<1>2. PICK n \in Nat :
        /\ n = Len(emitted) + 1 /\ Len(emitted') = n /\ emitted'[n] \in Recorded
        /\ \A i \in 1 .. Len(emitted) : emitted'[i] = emitted[i] /\ At(i)' = At(i)
        /\ \/ emitted'[n].track # "video" /\ ~carried /\ todo' = <<>> /\ tablesAt' = tablesAt
           \/ \E u :
                /\ u.frame = n /\ u.first /\ Cut(u)'
                /\ \/ todo' = <<Section("pat"), Section("pmt"), u>>
                   \/ todo' = <<u>> /\ tablesAt' = tablesAt /\ FALSE \in Due(At(n)')
  BY EmitMuxes
<1>3. \A u : ~Cut(u)
  BY <1>1 DEF Cut
<1>4. \A u : Cut(u)' => u.first
  <2> SUFFICES ASSUME NEW w, Cut(w)' PROVE w.first
    OBVIOUS
  <2>1. todo' # <<>>
    <3>1. /\ <<w>> # <<>> /\ <<Section("pmt"), w>> # <<>>
          /\ <<Section("pat"), Section("pmt"), w>> # <<>>
      OBVIOUS
    <3> QED BY <3>1 DEF Cut
  <2>2. PICK u : /\ u.first /\ Cut(u)'
    BY <1>2, <2>1
  <2>3. w = todo'[Len(todo')] /\ u = todo'[Len(todo')]
    BY <2>2, LastOf DEF Cut
  <2> QED BY <2>2, <2>3
<1>5. Reads'
  <2>1. reader.joined <= Len(emitted') + 1
    <3>1. reader.joined <= Len(emitted) + 1 /\ reader.joined \in Nat
      BY DEF Reads, Readers
    <3> QED BY <1>1, <1>2, <3>1
  <2> QED BY <1>1, <2>1 DEF Reads
<1>6. ASSUME NEW e, Timed(e) PROVE Timed(e)' /\ (Whole(e) => Whole(e)')
  <2>1. e.frame \in 1 .. Len(emitted) /\ e.time = At(e.frame)
    BY <1>6 DEF Timed
  <2>2. emitted'[e.frame] = emitted[e.frame] /\ At(e.frame)' = At(e.frame)
    BY <1>2, <2>1
  <2>3. e.frame \in 1 .. Len(emitted')
    BY <1>1, <1>2, <2>1
  <2> QED BY <2>1, <2>2, <2>3 DEF Timed, Whole
<1>7. Comes'
  <2>1. \A e \in reader.got : Timed(e) /\ Whole(e)
    BY DEF Comes
  <2>2. \A s \in Media : reader.open[s] # NoFrame => Timed(reader.open[s]) /\ Whole(reader.open[s])
    BY <1>3 DEF Comes
  <2> QED BY <1>1, <1>4, <1>6, <2>1, <2>2 DEF Comes
<1>8. Tabled'
  <2> SUFFICES ASSUME reader.on, reader.tables < 2
               PROVE  \/ tablesAt' = Never
                      \/ \E l \in 1 .. reader.joined - 1 : tablesAt' = At(l)'
                      \/ \E u : Cut(u)' /\ TablesComing(u)'
    BY <1>1 DEF Tabled
  <2>1. \/ tablesAt = Never
        \/ \E l \in 1 .. reader.joined - 1 : tablesAt = At(l)
    BY <1>3 DEF Tabled
  <2>2. \A l \in 1 .. reader.joined - 1 : l \in 1 .. Len(emitted)
    <3>1. reader.joined <= Len(emitted) + 1 /\ reader.joined \in Nat
      BY DEF Reads, Readers
    <3> QED BY <1>1, <3>1
  <2>3. \/ tablesAt' = tablesAt
        \/ \E u : Cut(u)' /\ TablesComing(u)'
    BY <1>2 DEF TablesComing
  <2> QED BY <1>2, <2>1, <2>2, <2>3
<1>n. DOMAIN emitted = 1 .. Len(emitted) /\ DOMAIN emitted' = 1 .. n
  BY <1>1, <1>2 DEF Muxing
<1>j. reader.joined \in Nat \ {0} /\ reader.joined <= Len(emitted) + 1
  BY DEF Reads, Readers
<1>9. ASSUME Unwrapped', NEW i \in 1 .. Len(emitted), Owed(i)' PROVE Has(i)
  <2>1. Unwrapped
    <3>1. \A m \in 1 .. Len(emitted) : m \in 1 .. n /\ emitted'[m] = emitted[m]
      BY <1>1, <1>2
    <3> QED BY <1>9, <1>n, <3>1 DEF Unwrapped
  <2>2. \A m \in reader.joined .. i : m \in 1 .. Len(emitted) /\ emitted'[m] = emitted[m]
    BY <1>1, <1>2, <1>j
  <2>3. \A l \in 1 .. reader.joined - 1 : emitted'[l] = emitted[l]
    BY <1>1, <1>2, <1>j
  <2>4. emitted'[i] = emitted[i]
    BY <1>2
  <2>5. Owed(i)
    BY <1>1, <1>9, <2>2, <2>3, <2>4 DEF Owed
  <2>6. ~Awaited(i)
    BY <1>3 DEF Awaited
  <2> QED BY <2>1, <2>5, <2>6 DEF Keeps
<1>10. ASSUME Unwrapped', Owed(n)' PROVE Awaited(n)'
  <2>1. /\ emitted'[n].track = "video" \/ carried
        /\ reader.on /\ n >= reader.joined
    BY <1>1, <1>10 DEF Owed
  <2>2. PICK u :
          /\ u.frame = n /\ u.first /\ Cut(u)'
          /\ \/ todo' = <<Section("pat"), Section("pmt"), u>>
             \/ todo' = <<u>> /\ tablesAt' = tablesAt /\ FALSE \in Due(At(n)')
    BY <1>2, <2>1
  <2>3. CASE todo' = <<Section("pat"), Section("pmt"), u>>
    BY <2>2, <2>3 DEF Awaited, TablesComing
  <2>4. CASE todo' = <<u>> /\ FALSE \in Due(At(n)') /\ reader.tables = 2
    BY <1>1, <2>2, <2>4 DEF Awaited
  <2>5. CASE FALSE \in Due(At(n)') /\ reader.tables # 2
    <3>1. reader.tables < 2
      BY <2>5 DEF Reads, Readers
    <3>2. tablesAt # Never
      BY <2>5 DEF Due
    <3>3. PICK l \in 1 .. reader.joined - 1 : tablesAt = At(l)
      BY <1>3, <2>1, <3>1, <3>2 DEF Tabled
    <3>4. reader.joined # 1 /\ l \in 1 .. Len(emitted) /\ 1 \in 1 .. reader.joined - 1
      BY <1>1, <1>j, <3>3
    <3>5. PICK m \in reader.joined .. n :
            /\ emitted'[m].track = "video" \/ carried
            /\ \A k \in 1 .. reader.joined - 1 :
                 emitted'[m].ms > emitted'[k].ms + TableInterval
      BY <1>1, <1>10, <3>4 DEF Owed
    <3>6. CASE m \in 1 .. Len(emitted)
      <4>1. Owed(m)'
        BY <1>1, <1>j, <2>1, <3>5, <3>6 DEF Owed
      <4>2. Has(m)
        BY <1>9, <1>10, <3>6, <4>1
      <4>3. reader.got = {} /\ \A s \in Media : reader.open[s] = NoFrame
        BY <3>1 DEF Reads
      <4> QED BY <4>2, <4>3 DEF Has, Read, Came
    <3>7. CASE m = n
      <4>1. /\ emitted' \in Seq(Recorded) /\ origin' = emitted'[1].ms % Clock
        BY <1>1, <1>2 DEF Muxing
      <4>2. 1 \in 1 .. n /\ l \in 1 .. n /\ n \in 1 .. n
        BY <1>1, <1>2, <3>4
      <4>3. \A k \in 1 .. n : emitted'[k] \in Recorded
        BY <1>2, <4>1, ElementOfSeq
      <4>4. \A k \in 1 .. n : emitted'[k].ms \in Nat /\ emitted'[k].ms < Clock
        BY <1>10, <1>n, <4>3 DEF Recorded, Unwrapped
      <4>5. /\ emitted'[n].ms > emitted'[1].ms + TableInterval
            /\ emitted'[n].ms > emitted'[l].ms + TableInterval
        BY <3>3, <3>4, <3>5, <3>7
      <4>6. /\ At(n)' = Time(emitted'[n].ms % Clock, emitted'[1].ms % Clock)
            /\ At(l)' = Time(emitted'[l].ms % Clock, emitted'[1].ms % Clock)
        BY <4>1 DEF At
      <4>7. At(n)' - At(l)' > TableInterval /\ At(n)' \in Nat /\ At(l)' \in Nat
        BY <4>2, <4>4, <4>5, <4>6, Elapsed
      <4>8. tablesAt = At(l)'
        BY <1>2, <3>3, <3>4
      <4>9. At(n)' - tablesAt > TableInterval
        BY <4>7, <4>8
      <4> QED BY <2>5, <4>9 DEF Due
    <3> QED BY <1>1, <1>2, <1>j, <3>6, <3>7
  <2> QED BY <2>2, <2>3, <2>4, <2>5
<1>11. Keeps'
  <2>1. \A i \in 1 .. n : i \in 1 .. Len(emitted) \/ i = n
    BY <1>1, <1>2
  <2>2. \A i : Has(i) => Has(i)'
    BY <1>1 DEF Has, Read, Came
  <2> QED BY <1>2, <1>9, <1>10, <2>1, <2>2 DEF Keeps
<1> QED BY <1>1, <1>5, <1>7, <1>8, <1>11

-----------------------------------------------------------------------------
(* A packet is sent.                                                       *)

Cutting(u, h) ==
  /\ Cut(u) /\ h.pid \in Pids /\ h.left \in Nat \ {0} /\ h.first \in BOOLEAN
  /\ h.frame \in Nat /\ h.time \in Nat
  /\ reader' = Receive(reader, Packet(h))
  /\ \/ /\ todo = <<Section("pat"), Section("pmt"), u>> /\ h = Section("pat")
        /\ todo' = <<Section("pmt"), u>> /\ Cut(u)' /\ u.first
     \/ /\ todo = <<Section("pmt"), u>> /\ h = Section("pmt")
        /\ todo' = <<u>> /\ Cut(u)' /\ u.first
     \/ todo = <<u>> /\ h = u /\ todo' = <<>> /\ u.left = Chunk(u)
     \/ /\ todo = <<u>> /\ h = u
        /\ \E v : /\ todo' = <<v>> /\ Cut(v)' /\ ~v.first /\ v.pid = u.pid
                  /\ v.frame = u.frame /\ v.left = u.left - Chunk(u)

\* What is cut next, if anything, is the rest of the same frame.
LEMMA Rest ==
  ASSUME NEW u, NEW h, Cutting(u, h), NEW w, Cut(w)'
  PROVE  \/ w = u /\ u.first /\ h.pid \notin Media
         \/ /\ h = u /\ ~w.first /\ w.pid = u.pid /\ w.frame = u.frame
            /\ w.left = u.left - Chunk(u)
<1>1. w = todo'[Len(todo')]
  BY LastOf DEF Cut
<1>2. \A p \in {"pat", "pmt"} : Section(p).pid \notin Media
  BY DEF Section, Media
<1>3. CASE h = Section("pat") /\ todo' = <<Section("pmt"), u>> /\ u.first
  <2>1. u = todo'[Len(todo')]
    BY <1>3, LastOf
  <2> QED BY <1>1, <1>2, <1>3, <2>1
<1>4. CASE h = Section("pmt") /\ todo' = <<u>> /\ u.first
  <2>1. u = todo'[Len(todo')]
    BY <1>4, LastOf
  <2> QED BY <1>1, <1>2, <1>4, <2>1
<1>5. CASE todo' = <<>>
  <2>1. /\ <<w>> # <<>> /\ <<Section("pmt"), w>> # <<>>
        /\ <<Section("pat"), Section("pmt"), w>> # <<>>
    OBVIOUS
  <2> QED BY <1>5, <2>1 DEF Cut
<1>6. ASSUME NEW v, h = u, todo' = <<v>>, ~v.first, v.pid = u.pid, v.frame = u.frame,
             v.left = u.left - Chunk(u)
      PROVE  h = u /\ ~w.first /\ w.pid = u.pid /\ w.frame = u.frame /\ w.left = u.left - Chunk(u)
  <2>1. v = todo'[Len(todo')]
    BY <1>6, LastOf
  <2> QED BY <1>1, <1>6, <2>1
<1> QED BY <1>3, <1>4, <1>5, <1>6 DEF Cutting

LEMMA SendComes ==
  ASSUME Muxing, Reads, Comes, NEW u, NEW h, Cutting(u, h), Hears(h),
         UNCHANGED <<origin, emitted>>
  PROVE  Comes'
<1>1. ASSUME \A e \in reader'.got : Timed(e) /\ Whole(e),
             \A t \in Media : reader'.open[t] # NoFrame =>
               /\ Timed(reader'.open[t])
               /\ (\A w : Cut(w)' /\ w.pid = t => w.first) => Whole(reader'.open[t])
               /\ \A w : Cut(w)' /\ w.pid = t /\ ~w.first =>
                    /\ reader'.open[t].frame = w.frame
                    /\ reader'.open[t].bytes + w.left = HeaderBytes + emitted[w.frame].size
      PROVE  Comes'
  BY <1>1 DEF Comes, Timed, Whole, At
<1>2. \A w : Cut(w) => w = u
  BY CutOnce DEF Cutting
<1>3. /\ reader.open \in [Media -> Entries] /\ reader.on \in BOOLEAN /\ reader.tables \in 0 .. 2
  BY DEF Reads, Readers
<1>4. /\ u \in [pid : Media, frame : Nat, time : Nat, left : Nat \ {0}, first : BOOLEAN]
      /\ u.frame \in 1 .. Len(emitted) /\ u.time = At(u.frame)
      /\ u.first => u.left = HeaderBytes + emitted[u.frame].size
  <2>1. Len(emitted) \in Nat
    BY LenProperties DEF Muxing
  <2> QED BY <2>1 DEF Cutting, Cut
<1>5. CASE reader.on /\ reader.tables = 2 /\ h.pid \in Media
  <2>1. h = u
    <3>1. \A p \in {"pat", "pmt"} : Section(p).pid \notin Media
      BY DEF Section, Media
    <3> QED BY <1>5, <3>1 DEF Cutting
  <2>2. Chunk(u) \in 1 .. u.left
    BY <1>4, PacketsFit DEF Pids
  <2>3. /\ reader'.open =
             [reader.open EXCEPT ![u.pid] =
                IF u.first THEN [frame |-> u.frame, time |-> u.time, bytes |-> Chunk(u)]
                ELSE IF @ = NoFrame THEN NoFrame
                ELSE [frame |-> @.frame, time |-> @.time, bytes |-> @.bytes + Chunk(u)]]
        /\ reader'.got = IF u.first THEN reader.got \cup Came(reader, u.pid) ELSE reader.got
    BY <1>5, <2>1 DEF Hears
  <2>4. \A t \in Media : u.first /\ reader.open[t] # NoFrame =>
          Timed(reader.open[t]) /\ Whole(reader.open[t])
    BY <1>2 DEF Comes
  <2>5. \A e \in reader'.got : Timed(e) /\ Whole(e)
    BY <1>4, <2>3, <2>4 DEF Comes, Came
  <2>6. \A w : Cut(w)' => /\ ~w.first /\ w.pid = u.pid /\ w.frame = u.frame
                           /\ w.left = u.left - Chunk(u)
    BY <1>5, <2>1, Rest
  <2>7. (\A w : ~Cut(w)') => u.left = Chunk(u)
    BY DEF Cutting
  <2>8. ASSUME NEW t \in Media \ {u.pid}, reader'.open[t] # NoFrame
        PROVE  Timed(reader'.open[t]) /\ Whole(reader'.open[t])
    <3>1. reader'.open[t] = reader.open[t]
      BY <1>3, <2>3
    <3>2. ~u.first => Whole(reader.open[t])
      BY <1>2, <2>8, <3>1 DEF Comes
    <3>3. Timed(reader.open[t]) /\ Whole(reader.open[t])
      BY <2>4, <2>8, <3>1, <3>2 DEF Comes
    <3> QED BY <3>1, <3>3
  <2>9. ASSUME reader'.open[u.pid] # NoFrame
        PROVE  /\ Timed(reader'.open[u.pid]) /\ reader'.open[u.pid].frame = u.frame
               /\ reader'.open[u.pid].bytes \in Nat
               /\ reader'.open[u.pid].bytes + (u.left - Chunk(u)) = HeaderBytes + emitted[u.frame].size
    <3>1. CASE u.first
      <4>1. reader'.open[u.pid] = [frame |-> u.frame, time |-> u.time, bytes |-> Chunk(u)]
        BY <1>3, <1>4, <2>3, <3>1
      <4>2. Timed(reader'.open[u.pid])
        BY <1>4, <4>1 DEF Timed
      <4> QED BY <1>4, <2>2, <3>1, <4>1, <4>2
    <3>2. CASE ~u.first
      <4>1. reader.open[u.pid] # NoFrame
        BY <1>3, <1>4, <2>3, <2>9, <3>2
      <4>2. reader'.open[u.pid] = [frame |-> reader.open[u.pid].frame,
                                   time |-> reader.open[u.pid].time,
                                   bytes |-> reader.open[u.pid].bytes + Chunk(u)]
        BY <1>3, <1>4, <2>3, <3>2, <4>1
      <4>3. /\ Timed(reader.open[u.pid]) /\ reader.open[u.pid].frame = u.frame
            /\ reader.open[u.pid].bytes + u.left = HeaderBytes + emitted[u.frame].size
        BY <1>4, <3>2, <4>1 DEF Comes, Cutting
      <4>4. reader.open[u.pid].bytes \in Nat
        BY <1>3, <1>4 DEF Entries
      <4>5. Timed(reader'.open[u.pid])
        BY <4>2, <4>3 DEF Timed
      <4>6. reader'.open[u.pid].bytes = reader.open[u.pid].bytes + Chunk(u)
            /\ reader'.open[u.pid].frame = u.frame
        BY <4>2, <4>3
      <4>7. \A b \in Nat : b + Chunk(u) \in Nat /\ b + Chunk(u) + (u.left - Chunk(u)) = b + u.left
        BY <1>4, <2>2
      <4> QED BY <4>3, <4>4, <4>5, <4>6, <4>7, Zenon
    <3> QED BY <3>1, <3>2
  <2>10. ASSUME reader'.open[u.pid] # NoFrame, \A w : ~Cut(w)'
         PROVE  Whole(reader'.open[u.pid])
    <3>1. u.left - Chunk(u) = 0
      BY <1>4, <2>7, <2>10
    <3>2. reader'.open[u.pid].bytes = HeaderBytes + emitted[u.frame].size
      BY <2>9, <2>10, <3>1
    <3> QED BY <2>9, <2>10, <3>2 DEF Whole
  <2>11. ASSUME NEW t \in Media, reader'.open[t] # NoFrame
         PROVE  /\ Timed(reader'.open[t])
                /\ (\A w : Cut(w)' /\ w.pid = t => w.first) => Whole(reader'.open[t])
                /\ \A w : Cut(w)' /\ w.pid = t /\ ~w.first =>
                     /\ reader'.open[t].frame = w.frame
                     /\ reader'.open[t].bytes + w.left = HeaderBytes + emitted[w.frame].size
    <3>1. CASE t = u.pid
      BY <2>6, <2>9, <2>10, <2>11, <3>1
    <3>2. CASE t # u.pid
      BY <2>6, <2>8, <2>11, <3>2
    <3> QED BY <3>1, <3>2
  <2> QED BY <1>1, <2>5, <2>11
<1>6. CASE ~(reader.on /\ reader.tables = 2) /\ h.pid \in Media
  <2>1. reader.tables < 2
    BY <1>3, <1>6 DEF Reads
  <2>2. reader'.open = reader.open /\ reader'.got = reader.got
    BY <2>1 DEF Hears
  <2> QED BY <1>1, <2>1, <2>2 DEF Reads
<1>7. CASE h.pid \notin Media
  <2>1. reader'.open = reader.open /\ reader'.got = reader.got
    BY <1>7 DEF Hears
  <2>2. h # u
    BY <1>4, <1>7
  <2>3. \A w : Cut(w)' => w.first
    BY <2>2, Rest
  <2>4. u.first
    BY <2>2 DEF Cutting
  <2>5. \A e \in reader'.got : Timed(e) /\ Whole(e)
    BY <2>1 DEF Comes
  <2>6. \A t \in Media : reader'.open[t] # NoFrame =>
          Timed(reader'.open[t]) /\ Whole(reader'.open[t])
    BY <1>2, <2>1, <2>4 DEF Comes
  <2> QED BY <1>1, <2>3, <2>5, <2>6
<1> QED BY <1>5, <1>6, <1>7

LEMMA SendTabled ==
  ASSUME Muxing, Reads, Tabled, NEW u, NEW h, Cutting(u, h), Hears(h),
         UNCHANGED <<origin, emitted, tablesAt>>
  PROVE  Tabled'
<1>1. /\ reader'.on = reader.on /\ reader'.joined = reader.joined
      /\ reader.tables \in 0 .. 2 /\ \A l : At(l)' = At(l)
  BY DEF Hears, Reads, Readers, At
<1>2. \A w : Cut(w) => w = u
  BY CutOnce DEF Cutting
<1>3. \A p \in {"pat", "pmt"} : Section(p).pid = p /\ p \notin Media
  BY DEF Section, Media
<1> SUFFICES ASSUME reader.on, reader'.tables < 2
             PROVE  \/ tablesAt = Never
                    \/ \E l \in 1 .. reader.joined - 1 : tablesAt = At(l)
                    \/ \E w : Cut(w)' /\ TablesComing(w)'
  BY <1>1 DEF Tabled
<1>4. CASE todo = <<Section("pat"), Section("pmt"), u>> /\ h = Section("pat")
           /\ todo' = <<Section("pmt"), u>> /\ Cut(u)'
  <2>1. reader'.tables >= 1
    BY <1>1, <1>3, <1>4 DEF Hears
  <2> QED BY <1>4, <2>1 DEF TablesComing
<1>5. CASE todo = <<Section("pmt"), u>> /\ h = Section("pmt")
  <2>1. ~(reader.tables >= 1) /\ reader.tables < 2
    BY <1>1, <1>3, <1>5 DEF Hears
  <2>2. todo # <<Section("pat"), Section("pmt"), u>>
    BY <1>5
  <2>3. ~TablesComing(u)
    BY <2>1, <2>2 DEF TablesComing
  <2> QED BY <1>2, <2>1, <2>3 DEF Tabled
<1>6. CASE todo = <<u>> /\ h = u
  <2>1. h.pid \in Media
    BY <1>6 DEF Cutting, Cut
  <2>2. reader.tables < 2
    BY <2>1 DEF Hears
  <2>3. todo # <<Section("pmt"), u>> /\ todo # <<Section("pat"), Section("pmt"), u>>
    BY <1>6
  <2> QED BY <1>2, <2>2, <2>3 DEF Tabled, TablesComing
<1> QED BY <1>4, <1>5, <1>6 DEF Cutting

LEMMA SendKeeps ==
  ASSUME Muxing, Reads, Keeps, NEW u, NEW h, Cutting(u, h), Hears(h),
         UNCHANGED <<carried, origin, emitted>>
  PROVE  Keeps'
<1>1. /\ reader'.on = reader.on /\ reader'.joined = reader.joined
      /\ reader.open \in [Media -> Entries] /\ reader.tables \in 0 .. 2
  BY DEF Hears, Reads, Readers
<1>2. \A w : Cut(w) => w = u
  BY CutOnce DEF Cutting
<1>3. \A p \in {"pat", "pmt"} : Section(p).pid = p /\ p \notin Media
  BY DEF Section, Media
<1>4. u.pid \in Media /\ u.left \in Nat \ {0} /\ u.frame # 0
  BY DEF Cutting, Cut
<1>5. Chunk(h) \in Nat \ {0}
  BY PacketsFit DEF Cutting
<1> SUFFICES ASSUME Unwrapped, NEW i \in 1 .. Len(emitted), Owed(i)
             PROVE  Has(i)' \/ Awaited(i)'
  BY <1>1 DEF Keeps, Unwrapped, Owed
<1>6. reader.on
  BY DEF Owed
<1>7. ASSUME NEW e \in Read PROVE \E f \in Read' : f.frame = e.frame
  <2>1. reader.got \subseteq reader'.got
    BY <1>1, <1>6 DEF Hears
  <2>2. CASE e \in reader.got
    BY <2>1, <2>2 DEF Read
  <2>3. ASSUME NEW t \in Media, e = reader.open[t], e # NoFrame
        PROVE  \E f \in Read' : f.frame = e.frame
    <3>1. CASE reader'.open[t] = e
      BY <2>3, <3>1 DEF Read, Came
    <3>2. CASE h.pid = t /\ reader.tables = 2 /\ h.first
      <4>1. e \in reader'.got
        BY <1>1, <1>6, <2>3, <3>2 DEF Hears, Came
      <4> QED BY <4>1 DEF Read
    <3>3. CASE h.pid = t /\ reader.tables = 2 /\ ~h.first
      <4>1. e \in Entries
        BY <1>1, <2>3
      <4>2. reader'.open[t] = [frame |-> e.frame, time |-> e.time, bytes |-> e.bytes + Chunk(h)]
        BY <1>1, <1>6, <2>3, <3>3 DEF Hears
      <4>3. reader'.open[t].frame = e.frame /\ reader'.open[t].bytes > 0
        BY <1>5, <4>1, <4>2 DEF Entries
      <4>4. reader'.open[t] # NoFrame
        BY <4>3 DEF NoFrame
      <4> QED BY <4>3, <4>4 DEF Read, Came
    <3>4. h.pid # t \/ reader.tables < 2 => reader'.open[t] = e
      BY <1>1, <1>6, <2>3 DEF Hears
    <3> QED BY <1>1, <3>1, <3>2, <3>3, <3>4
  <2> QED BY <2>2, <2>3 DEF Read, Came
<1>8. Has(i) => Has(i)'
  BY <1>7 DEF Has
<1>9. CASE Awaited(i) /\ todo = <<Section("pat"), Section("pmt"), u>> /\ h = Section("pat")
           /\ todo' = <<Section("pmt"), u>> /\ Cut(u)'
  <2>1. reader'.tables >= 1
    BY <1>1, <1>3, <1>6, <1>9 DEF Hears
  <2>2. u.frame = i /\ u.first
    BY <1>2, <1>9 DEF Awaited
  <2> QED BY <1>9, <2>1, <2>2 DEF Awaited, TablesComing
<1>10. CASE Awaited(i) /\ todo = <<Section("pmt"), u>> /\ h = Section("pmt")
            /\ todo' = <<u>> /\ Cut(u)'
  <2>1. todo # <<Section("pat"), Section("pmt"), u>> /\ todo # <<u>>
    BY <1>10
  <2>2. u.frame = i /\ u.first /\ reader.tables >= 1
    BY <1>2, <1>10, <2>1 DEF Awaited, TablesComing
  <2>3. reader'.tables = 2
    BY <1>1, <1>3, <1>6, <1>10, <2>2 DEF Hears
  <2> QED BY <1>10, <2>2, <2>3 DEF Awaited
<1>11. CASE Awaited(i) /\ todo = <<u>> /\ h = u
  <2>1. todo # <<Section("pmt"), u>> /\ todo # <<Section("pat"), Section("pmt"), u>>
    BY <1>11
  <2>2. u.frame = i /\ u.first /\ reader.tables = 2
    BY <1>2, <1>11, <2>1 DEF Awaited, TablesComing
  <2>3. reader'.open[u.pid] = [frame |-> u.frame, time |-> u.time, bytes |-> Chunk(u)]
    BY <1>1, <1>4, <1>6, <1>11, <2>2 DEF Hears
  <2>4. reader'.open[u.pid] # NoFrame /\ reader'.open[u.pid].frame = i
    BY <1>4, <2>2, <2>3 DEF NoFrame
  <2>5. reader'.open[u.pid] \in Read'
    BY <1>4, <2>4 DEF Read, Came
  <2> QED BY <2>4, <2>5 DEF Has
<1> QED BY <1>8, <1>9, <1>10, <1>11 DEF Cutting, Keeps

LEMMA SendReads ==
  ASSUME Muxing, Reads, Comes, Tabled, Keeps, Send
  PROVE  Muxing' /\ Reads' /\ Comes' /\ Tabled' /\ Keeps'
<1>1. Muxing' /\ UNCHANGED <<carried, ms, origin, tablesAt, emitted>>
  BY SendCuts
<1>2. PICK u, h : Cutting(u, h)
  BY SendCuts DEF Cutting
<1>3. Hears(h)
  BY <1>2, PacketReceived DEF Cutting
<1> QED BY <1>1, <1>2, <1>3, ReadsOn, SendComes, SendTabled, SendKeeps

-----------------------------------------------------------------------------
(* The theorem.                                                            *)

ReadInv == Muxing /\ Reads /\ Comes /\ Tabled /\ Keeps

LEMMA StreamStepReads ==
  ASSUME ReadInv, [StreamNext]_streamVars
  PROVE  ReadInv'
<1>1. CASE UNCHANGED streamVars
  <2>1. UNCHANGED <<carried, ms, origin, continuity, tablesAt, todo, emitted, reader>>
    BY <1>1 DEF streamVars, muxer
  <2>2. Muxing'
    BY <2>1 DEF ReadInv, Muxing, Cut, At
  <2>3. Reads'
    BY <2>1 DEF ReadInv, Reads
  <2>4. Comes'
    BY <2>1 DEF ReadInv, Comes, Timed, Whole, Cut, At
  <2>5. Tabled'
    BY <2>1 DEF ReadInv, Tabled, TablesComing, Cut, At
  <2>6. Keeps'
    <3>1. \A n : (Owed(n)' <=> Owed(n)) /\ (Has(n) => Has(n)')
      BY <2>1 DEF Owed, Has, Read, Came
    <3>2. \A n : Awaited(n) => Awaited(n)'
      BY <2>1 DEF Awaited, TablesComing, Cut, At
    <3>3. Unwrapped' <=> Unwrapped
      BY <2>1 DEF Unwrapped
    <3> QED BY <2>1, <3>1, <3>2, <3>3 DEF ReadInv, Keeps
  <2> QED BY <2>2, <2>3, <2>4, <2>5, <2>6 DEF ReadInv
<1>2. CASE Join
  BY <1>2, JoinReads DEF ReadInv
<1>3. CASE Send
  BY <1>3, SendReads DEF ReadInv
<1>4. ASSUME NEW t \in Media, EmitFrame(t) PROVE ReadInv'
  BY <1>4, EmitReads DEF ReadInv
<1> QED BY <1>1, <1>2, <1>3, <1>4 DEF StreamNext

\* With nothing left to cut, the reader is where the camera is.
LEMMA ReaderAtRest ==
  ASSUME ReadInv
  PROVE  ReaderFollows
<1> SUFFICES ASSUME todo = <<>>, Unwrapped
             PROVE  /\ \A n \in DOMAIN emitted : Owed(n) => \E e \in Read : e.frame = n
                    /\ \A e \in Read : e.bytes = HeaderBytes + emitted[e.frame].size
                    /\ \A d, e \in {e \in Read : emitted[e.frame].ms >= emitted[1].ms} :
                         e.time - d.time = emitted[e.frame].ms - emitted[d.frame].ms
  BY DEF ReaderFollows
<1>1. /\ emitted \in Seq(Recorded) /\ Len(emitted) \in Nat /\ DOMAIN emitted = 1 .. Len(emitted)
      /\ origin = IF emitted = <<>> THEN Never ELSE emitted[1].ms % Clock
  BY LenProperties DEF ReadInv, Muxing
<1>2. \A u : ~Cut(u)
  BY DEF Cut
<1>3. \A n \in DOMAIN emitted : Owed(n) => \E e \in Read : e.frame = n
  BY <1>1, <1>2 DEF ReadInv, Keeps, Has, Awaited
<1>4. \A e \in Read : Timed(e) /\ Whole(e)
  BY <1>2 DEF ReadInv, Comes, Read, Came
<1>5. ASSUME NEW e \in Read, emitted[e.frame].ms >= emitted[1].ms
      PROVE  /\ e.time = emitted[e.frame].ms - emitted[1].ms
             /\ emitted[e.frame].ms \in Nat /\ emitted[1].ms \in Nat
  <2>1. e.frame \in 1 .. Len(emitted) /\ e.time = At(e.frame)
    BY <1>4 DEF Timed
  <2>2. 1 \in 1 .. Len(emitted)
    BY <1>1, <2>1
  <2>3. emitted # <<>>
    BY <1>1, <2>2
  <2>4. \A n \in 1 .. Len(emitted) : emitted[n] \in Recorded
    BY <1>1, ElementOfSeq
  <2>5. \A n \in 1 .. Len(emitted) : emitted[n].ms \in Nat /\ emitted[n].ms < Clock
    BY <1>1, <2>4 DEF Recorded, Unwrapped
  <2>6. \A n \in 1 .. Len(emitted) : emitted[n].ms % Clock = emitted[n].ms
    BY <2>5, Stamps
  <2>7. e.time = Time(emitted[e.frame].ms, emitted[1].ms)
    BY <1>1, <2>1, <2>2, <2>3, <2>6 DEF At
  <2> QED BY <1>5, <2>1, <2>2, <2>5, <2>7 DEF Time
<1>6. ASSUME NEW d \in Read, NEW e \in Read,
             emitted[d.frame].ms >= emitted[1].ms, emitted[e.frame].ms >= emitted[1].ms
      PROVE  e.time - d.time = emitted[e.frame].ms - emitted[d.frame].ms
  <2>1. /\ e.time = emitted[e.frame].ms - emitted[1].ms /\ emitted[e.frame].ms \in Nat
        /\ d.time = emitted[d.frame].ms - emitted[1].ms /\ emitted[d.frame].ms \in Nat
        /\ emitted[1].ms \in Nat
    BY <1>5, <1>6
  <2> QED BY <2>1
<1> QED BY <1>3, <1>4, <1>6 DEF Whole

\* Whoever reads a response has every frame it is owed, whole and at the
\* camera's distance from the others (get_av, TSMuxer): for any frame sizes,
\* stamps and any number of frames, joined at any packet.
THEOREM ReaderKeepsUp == StreamSpec => []ReaderFollows
<1>1. StreamInit => ReadInv
  BY StreamBegins DEF ReadInv
<1>2. ReadInv /\ [StreamNext]_streamVars => ReadInv'
  BY StreamStepReads
<1>3. ReadInv => ReaderFollows
  BY ReaderAtRest
<1> QED BY <1>1, <1>2, <1>3, PTL DEF StreamSpec
=============================================================================
