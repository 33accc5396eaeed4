----------------------------- MODULE AvResponse -----------------------------
(***************************************************************************)
(* The body of one /av response: get_av takes the frames of both tracks    *)
(* from the queue and writes them as one transport stream.  Its tables go  *)
(* out first and say whether there is a sound track, so until the sound's  *)
(* format has been settled frames are held.  A viewer that leaves half way *)
(* is StreamSession's subject.                                             *)
(***************************************************************************)
EXTENDS FrameQueue

CONSTANT ProbeFrames  \* AUDIO_PROBE_FRAMES: enough sound to ask a decoder

ASSUME AvAssumption ==
  /\ Tracks = {"video", "audio"}
  /\ ProbeFrames \in Nat \ {0}

VARIABLES
  sound,      \* what the camera's microphone sends: "aac" or "other"
  known,      \* worker.audio_format is set
  heldOff,    \* worker.audio_retry_at lies ahead
  stage,      \* the handler awaits the "next" part, a "probe", or "closing"
  tables,     \* "none" yet, or a muxer for "video" or for "both"
  held,       \* frames taken before there are tables
  late,       \* the deadline has passed
  stopped,    \* close_stream has set the readers' stop flag
  taken,      \* history: every frame taken, in order
  out         \* history: every frame written, in order

camera == <<sound, known, heldOff>>
handler == <<stage, tables, held, late, stopped, taken, out>>
avVars == <<vars, camera, handler>>

-----------------------------------------------------------------------------
\* What tables like these carry, of a frame and of several.
Kept(t, item) == IF item.track = "video" \/ t = "both" THEN <<item>> ELSE <<>>

Carried(t, s) ==
  LET upTo[i \in 0 .. Len(s)] == IF i = 0 THEN <<>> ELSE upTo[i - 1] \o Kept(t, s[i])
  IN  upTo[Len(s)]

Sample(s) == {i \in DOMAIN s : s[i].track = "audio"}

\* Mutant: the stream starts with what comes next.
BeginAnew(t, s) ==
  /\ tables' = t /\ held' = <<>>
  /\ UNCHANGED out

\* begin: the tables, then what has been held.
Begin(t, s) ==
  /\ tables' = t /\ held' = <<>>
  /\ out' = out \o Carried(t, s)

\* prove: nothing to ask about holds the question off; a decoder is asked in a
\* thread, while the queue fills up.
Prove(s) ==
  \/ Sample(s) = {} /\ heldOff' = TRUE /\ stage' = "next" /\ Begin("video", s)
  \/ Sample(s) # {} /\ stage' = "probe" /\ held' = s /\ UNCHANGED <<heldOff, tables, out>>

\* "Do not make this viewer's picture wait on it again".
HoldsOff == heldOff

\* A frame before the tables: held, and enough to settle them or not.
Hold(item) ==
  LET s == Append(held, item) IN
  IF known THEN stage' = "next" /\ Begin("both", s) /\ UNCHANGED heldOff
  ELSE IF HoldsOff THEN stage' = "next" /\ Begin("video", s) /\ UNCHANGED heldOff
  ELSE IF Cardinality(Sample(s)) >= ProbeFrames \/ late THEN Prove(s)
  ELSE held' = s /\ UNCHANGED <<heldOff, stage, tables, out>>

\* emit
Emit(item) ==
  /\ out' = out \o Kept(tables, item)
  /\ UNCHANGED <<heldOff, stage, tables, held>>

\* Mutant: the end of the sound is not the end of waiting for it.
SoundEndsUnseen == UNCHANGED <<heldOff, stage, tables, held, out>>

\* The sound ended: what turned up gets its one chance.
SoundEnds ==
  IF tables = "none" THEN Prove(held) ELSE UNCHANGED <<heldOff, stage, tables, held, out>>

\* The picture ended: the stream is over, so the sound's reader is stopped.
PictureEnds == stage' = "closing" /\ UNCHANGED <<heldOff, tables, held, out>>

\* One turn of get_av's loop, up to its next await.
TakePart ==
  /\ stage = "next" /\ Get
  /\ LET item == Head(items) IN
     IF item.final
     THEN (IF item.track = "video" THEN PictureEnds ELSE SoundEnds) /\ UNCHANGED taken
     ELSE /\ taken' = Append(taken, item)
          /\ IF tables = "none" THEN Hold(item) ELSE Emit(item)
  /\ UNCHANGED <<sound, known, late, stopped>>

CloseEnds ==
  /\ stage = "closing" /\ stage' = "next" /\ stopped' = TRUE
  /\ UNCHANGED <<vars, camera, tables, held, late, taken, out>>

\* Mutant: a decoder that could not be asked has not said no.
YesUnlessNo(answer) == answer # "no"

\* "Only a yes is kept".
Yes(answer) == answer = "yes"

\* identify, in its thread: a sample may be unlucky, and ffmpeg may be missing.
ProbeEnds ==
  /\ stage = "probe" /\ stage' = "next"
  /\ \E answer \in IF sound = "aac" THEN {"yes", "no", "undecided"} ELSE {"no", "undecided"} :
       IF Yes(answer)
       THEN known' = TRUE /\ Begin("both", held) /\ UNCHANGED heldOff
       ELSE heldOff' = TRUE /\ Begin("video", held) /\ UNCHANGED known
  /\ UNCHANGED <<vars, sound, late, stopped, taken>>

\* Time: the deadline of this response, and the end of the hold-off.
Deadline ==
  /\ ~late /\ late' = TRUE
  /\ UNCHANGED <<vars, camera, stage, tables, held, stopped, taken, out>>

HoldOffAges ==
  /\ heldOff /\ heldOff' = FALSE
  /\ UNCHANGED <<vars, sound, known, handler>>

Reader(t) == (PumpFrame(t) \/ PumpEnd(t)) /\ UNCHANGED <<camera, handler>>

OfferPart == Offer /\ UNCHANGED <<camera, handler>>

\* Earlier viewers may have settled the format, or put the question off.
AvInit ==
  /\ Init
  /\ sound \in {"aac", "other"} /\ known \in {FALSE, sound = "aac"} /\ heldOff \in BOOLEAN
  /\ stage = "next" /\ tables = "none" /\ held = <<>> /\ late = FALSE /\ stopped = FALSE
  /\ taken = <<>> /\ out = <<>>

Handle == TakePart \/ CloseEnds \/ ProbeEnds

AvNext == (\E t \in Tracks : Reader(t)) \/ OfferPart \/ Handle \/ Deadline \/ HoldOffAges

AvSpec == AvInit /\ [][AvNext]_avVars

\* The event loop and the executor go on and time passes; the picture's reader
\* gives up where no frame comes, the sound's ends once it has been stopped.
AvFairSpec ==
  /\ AvSpec
  /\ WF_avVars(OfferPart) /\ WF_avVars(Handle) /\ WF_avVars(Deadline)
  /\ WF_avVars(Reader("video"))
  /\ WF_avVars(stopped /\ PumpEnd("audio") /\ UNCHANGED <<camera, handler>>)

-----------------------------------------------------------------------------
\* The type invariant of the handler: something is held only while there are no
\* tables, and is asked about only if it has sound in it.  What has been written
\* is typed by TakenGoesOut.
AvTypeOK ==
  /\ sound \in {"aac", "other"} /\ known \in BOOLEAN /\ heldOff \in BOOLEAN
  /\ stage \in {"next", "probe", "closing"} /\ tables \in {"none", "video", "both"}
  /\ held \in Seq(Items) /\ taken \in Seq(Items)
  /\ late \in BOOLEAN /\ stopped \in BOOLEAN
  /\ held # <<>> => tables = "none"
  /\ stage = "probe" => tables = "none" /\ Sample(held) # {}

\* No frame taken from the queue is lost or overtaken, whenever and however the
\* format is settled: "frames that arrive first are held, not dropped".  What is
\* written and what is held are what was taken, without the sound where the
\* tables have none.
TakenGoesOut == out \o held = Carried(IF tables = "none" THEN "both" ELSE tables, taken)

\* The tables never name a sound track that is not there: "declaring a track
\* the payload does not match is worse than declaring no track at all".
TablesHold == tables = "both" => sound = "aac"

\* A held picture always goes out, sound or no sound: no viewer waits for a
\* format that nobody can settle.
HeldGoesOut == held # <<>> ~> held = <<>>
=============================================================================
