-------------------------- MODULE TransportStream --------------------------
(***************************************************************************)
(* The stream of one /av response on its way out: get_av puts each frame   *)
(* on the camera's clock, TSMuxer cuts it into packets, behind the tables  *)
(* when they are due, and somebody reads them, perhaps from the middle on. *)
(* A frame is its size and its stamp; of the bytes of a packet there are   *)
(* those that say where its payload begins.                                *)
(***************************************************************************)
EXTENDS Integers, Sequences

CONSTANTS
  PacketSize,     \* PACKET_SIZE, in bytes
  Counters,       \* 16: continuity counters wrap there
  TableInterval,  \* TABLE_INTERVAL, in ms
  Clock,          \* 2^32: the camera's stamps, in ms, wrap there
  Starts,         \* what the camera's clock may be when a track begins
  Steps,          \* how long after a frame of a track its next may come
  Sizes,          \* the sizes of frames
  MaxEmitted      \* bound: frames of one response

ASSUME StreamAssumption ==
  /\ {PacketSize, TableInterval, MaxEmitted} \subseteq Nat
  /\ {Counters, Clock} \subseteq Nat \ {0}
  /\ PacketSize > 4 + 27
  /\ Starts \cup Steps \cup Sizes \subseteq Nat

VARIABLES
  carried,     \* the tables name a sound track
  ms,          \* how far the camera is with each track, before it wraps
  origin,      \* get_av's origin
  continuity,  \* TSMuxer._continuity
  tablesAt,    \* TSMuxer._tables_at
  todo,        \* what _packets has still to cut, in order
  emitted,     \* history: the frames emit was given
  reader       \* whoever reads the stream: see Reading

muxer == <<continuity, tablesAt, todo>>
streamVars == <<carried, ms, origin, muxer, emitted, reader>>

Media == {"video", "audio"}
Pids == Media \cup {"pat", "pmt"}
Never == -1

\* A table fits a packet, with room to spare.
Section(pid) == [pid |-> pid, frame |-> 0, time |-> 0, left |-> 27, first |-> TRUE]

\* Start code, stream id and length, then flags, header length and PTS.
HeaderBytes == 6 + 3 + 5
Pes(t, n, time, size) ==
  [pid |-> t, frame |-> n, time |-> time, left |-> HeaderBytes + size, first |-> TRUE]
-----------------------------------------------------------------------------
(* get_av and TSMuxer.                                                     *)

\* emit: since the first frame taken, and not before it.
Time(stamp, from) == IF stamp >= from THEN stamp - from ELSE 0

\* Seconds are floating-point: a difference of exactly the interval may fall
\* short of it.
Due(now) ==
  IF tablesAt = Never \/ now - tablesAt > TableInterval THEN {TRUE}
  ELSE IF now - tablesAt = TableInterval THEN BOOLEAN ELSE {FALSE}

Frame(t, n, size, now) ==
  LET pes == Pes(t, n, now, size) IN
  \E due \in Due(now) :
    /\ tablesAt' = (IF due THEN now ELSE tablesAt)
    /\ todo' = (IF due THEN <<Section("pat"), Section("pmt"), pes>> ELSE <<pes>>)
    /\ UNCHANGED continuity

\* The next frame of a track: sound without a format is left out.
EmitFrame(t) ==
  /\ todo = <<>> /\ Len(emitted) < MaxEmitted
  /\ \E size \in Sizes, step \in Steps :
       LET stamp == ms[t] % Clock IN
       /\ origin' = (IF origin = Never THEN stamp ELSE origin)
       /\ emitted' = Append(emitted, [track |-> t, ms |-> ms[t], size |-> size])
       /\ ms' = [ms EXCEPT ![t] = @ + step]
       /\ IF t = "video" \/ carried
          THEN Frame(t, Len(emitted'), size, Time(stamp, origin'))
          ELSE UNCHANGED muxer
  /\ UNCHANGED <<carried, reader>>

\* The adaptation field starts with its own length, and with the clock in the
\* first packet of a picture.
Bare(u) == IF u.first /\ u.pid = "video" THEN 8 ELSE 0
Room(u) == PacketSize - 4 - Bare(u)
Chunk(u) == IF u.left < Room(u) THEN u.left ELSE Room(u)
Padding(u) == Room(u) - Chunk(u)

\* Mutant: a field that only pads always has its flags byte.
StuffedFlags(u) == IF Bare(u) = 0 /\ Padding(u) = 1 THEN 2 ELSE Bare(u) + Padding(u)

\* Its size: padding of a single byte is the length byte alone.
Stuffed(u) == Bare(u) + Padding(u)

\* What its length byte says.
LengthByte(u) == IF Bare(u) > 0 THEN 7 + Padding(u) ELSE Padding(u) - 1

Packet(u) ==
  [pid |-> u.pid, frame |-> u.frame, time |-> u.time, start |-> u.first,
   counter |-> continuity[u.pid],
   size |-> 4 + Stuffed(u) + Chunk(u),
   skip |-> IF Stuffed(u) > 0 THEN LengthByte(u) + 1 ELSE 0]
-----------------------------------------------------------------------------
(* Whoever reads: ffmpeg, for go2rtc.                                      *)

\* "on": it has joined, before frame "joined".  "lost": packets do not begin
\* where they should.  "tables": how many of the two it knows.  "seen": the
\* counters it saw last.  "open": the frame of each track that is coming in,
\* and "got" those that have come.
NoFrame == [frame |-> 0, time |-> 0, bytes |-> 0]
Reading ==
  [on |-> FALSE, joined |-> 1, lost |-> FALSE, tables |-> 0,
   seen |-> [p \in Pids |-> Never], open |-> [t \in Media |-> NoFrame], got |-> {}]

\* A counter that has not gone on by one means that something is missing.
Follows(r, p) == r.seen[p.pid] \in {Never, (p.counter + Counters - 1) % Counters}

Payload(p) == PacketSize - 4 - p.skip

Opened(r, p) ==
  IF p.start THEN [frame |-> p.frame, time |-> p.time, bytes |-> Payload(p)]
  ELSE IF r.open[p.pid] = NoFrame \/ ~Follows(r, p) THEN NoFrame
  ELSE [r.open[p.pid] EXCEPT !.bytes = @ + Payload(p)]

\* A frame has come when the next one starts.
Came(r, t) == {r.open[t]} \ {NoFrame}

Receive(r, p) ==
  LET heard == [r EXCEPT !.seen[p.pid] = p.counter, !.lost = @ \/ p.size # PacketSize]
  IN  IF ~r.on \/ r.lost THEN r
      ELSE IF p.pid = "pat" THEN [heard EXCEPT !.tables = IF @ = 0 THEN 1 ELSE @]
      ELSE IF p.pid = "pmt" THEN [heard EXCEPT !.tables = IF @ = 1 THEN 2 ELSE @]
      ELSE IF r.tables < 2 THEN heard
      ELSE [heard EXCEPT
              !.open[p.pid] = Opened(r, p),
              !.got = IF p.start /\ Follows(r, p) THEN @ \cup Came(r, p.pid) ELSE @]

\* It comes in between any two packets.
Join ==
  /\ ~reader.on
  /\ reader' = [reader EXCEPT !.on = TRUE, !.joined = Len(emitted) + 1]
  /\ UNCHANGED <<carried, ms, origin, muxer, emitted>>

\* _packets: one more of them.
Send ==
  /\ todo # <<>>
  /\ LET u == Head(todo) IN
     /\ continuity' = [continuity EXCEPT ![u.pid] = (@ + 1) % Counters]
     /\ reader' = Receive(reader, Packet(u))
     /\ todo' = (IF u.left > Chunk(u)
                 THEN [todo EXCEPT ![1] = [u EXCEPT !.left = @ - Chunk(u), !.first = FALSE]]
                 ELSE Tail(todo))
  /\ UNCHANGED <<carried, ms, origin, tablesAt, emitted>>

StreamInit ==
  /\ carried \in BOOLEAN /\ ms \in [Media -> Starts]
  /\ origin = Never /\ continuity = [p \in Pids |-> 0] /\ tablesAt = Never
  /\ todo = <<>> /\ emitted = <<>> /\ reader = Reading

StreamNext == (\E t \in Media : EmitFrame(t)) \/ Send \/ Join

StreamSpec == StreamInit /\ [][StreamNext]_streamVars
-----------------------------------------------------------------------------
(* Properties.                                                             *)

Unwrapped == \A n \in DOMAIN emitted : emitted[n].ms < Clock

\* The reader was there from the start, or the tables were due since it came.
Owed(n) ==
  /\ emitted[n].track = "video" \/ carried
  /\ reader.on /\ n >= reader.joined
  /\ \/ reader.joined = 1
     \/ \E m \in reader.joined .. n :
          /\ emitted[m].track = "video" \/ carried
          /\ \A l \in 1 .. reader.joined - 1 : emitted[m].ms > emitted[l].ms + TableInterval

Read == reader.got \cup UNION {Came(reader, t) : t \in Media}

\* Whoever reads from the start has every frame, whoever joins has them all
\* from the next tables on; each is whole, and they are as far apart as the
\* camera's stamps are, sound and picture alike: "the camera does stamp both,
\* on one clock, and that is the only honest source of alignment there is".
\* Frames from before the first one taken come with it; and not so once the
\* camera's clock has wrapped.
ReaderFollows ==
  todo = <<>> /\ Unwrapped =>
    /\ \A n \in DOMAIN emitted : Owed(n) => \E e \in Read : e.frame = n
    /\ \A e \in Read : e.bytes = HeaderBytes + emitted[e.frame].size
    /\ \A d, e \in {e \in Read : emitted[e.frame].ms >= emitted[1].ms} :
         e.time - d.time = emitted[e.frame].ms - emitted[d.frame].ms
=============================================================================
