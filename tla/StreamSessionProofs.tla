------------------------ MODULE StreamSessionProofs ------------------------
(***************************************************************************)
(* Safety of StreamSession, for any number of viewers, sessions and jobs.  *)
(* IInv is the inductive invariant; what each conjunct is for is said      *)
(* where it is defined.                                                    *)
(***************************************************************************)
EXTENDS StreamSession, FiniteSetTheorems, SequenceTheorems, TLAPS

-----------------------------------------------------------------------------
(* The inductive invariant.                                                *)

\* worker._readers counts the readers that are between enter and leave.
ReaderCount == readers = Cardinality(Inside)

\* Before the first session is opened no reader can get into the SDK.
Pristine ==
  /\ session = 0
  /\ wpc \in {"idle", "ensure", "close"}
  /\ \A r \in Readers : rpc[r] \in {"none", "start", "ended"}

\* From then on the event is set whenever the slot is free.
StopWhenFree == streaming \/ stop \/ Pristine

\* Sessions are numbered in the order they are opened.
SessionNumbers ==
  /\ alive => session # 0
  /\ session <= opened
  /\ serving <= opened
  /\ wpc = "connect" => session = 0

\* The camera serves the session held only for a slot that is taken, or that
\* _drop has just taken away and remembers in wasStreaming, or if the session
\* refused to carry the stop.
ServingAccounted ==
  (alive /\ serving = session)
    => \/ IF wpc = "drop" THEN wasStreaming ELSE streaming
       \/ "video" \in unheard

\* On a live session the motor runs only while the executor waits to stop it,
\* has yet to stop what an earlier session left running, or was refused.
MotorAccounted == alive /\ turning => wpc \in {"greet", "turn"} \/ "motor" \in unheard

\* A track has no reader thread before its handler has sent the headers.
ReadersStartLate ==
  \A r \in Readers : hpc[r[1]] \in {"idle", "open", "prepare"} => rpc[r] = "none"

IInv ==
  /\ TypeOK
  /\ ReadersStartLate
  /\ ReaderCount
  /\ StopWhenFree
  /\ SessionNumbers
  /\ ServingAccounted
  /\ MotorAccounted

\* While the bridge is up, a viewer waiting for open_stream has exactly one
\* such job, queued or running.
OpenQueued(i, v) == queue[i].op = "open" /\ queue[i].who = v
OpenRunning(v) == job.op = "open" /\ job.who = v

OpenJobsWaited ==
  /\ \A i \in DOMAIN queue :
       /\ queue[i].op = "open" => queue[i].who \in Viewers \ AudioViewers
       /\ queue[i].who \in Viewers => queue[i].op \in {"open", "close"}
  /\ job.who \in Viewers => job.op = "open"
  /\ job.op = "open" => job.who \in Viewers \ AudioViewers
  /\ \A v \in Viewers : \A i \in DOMAIN queue : OpenQueued(i, v) =>
       /\ hpc[v] = "open"
       /\ ~OpenRunning(v)
       /\ \A j \in DOMAIN queue : OpenQueued(j, v) => i = j
  /\ \A v \in Viewers : OpenRunning(v) => hpc[v] = "open"

\* The slot belongs to a viewer that will run close_stream, since none hangs
\* up between asking for the stream and the start of its headers.
SlotInv ==
  down = "up" =>
    /\ OpenJobsWaited
    /\ \A v \in Viewers : hpc[v] \in {"idle", "open", "prepare"} => conn[v]
    /\ streaming => owner \in Viewers \ AudioViewers
    /\ SlotHasAHandler

-----------------------------------------------------------------------------
(* What the helpers on queues and readers return.                          *)

\* A job queued, taken or withdrawn leaves a sequence of jobs.
LEMMA QueueTyping ==
  ASSUME queue \in Seq(Jobs)
  PROVE  /\ \A op \in {"open", "close", "control", "off", "shutdown"}, v \in Viewers \cup {NoViewer} :
              Append(queue, Job(op, v)) \in Seq(Jobs)
         /\ queue # <<>> => Head(queue) \in Jobs /\ Tail(queue) \in Seq(Jobs)
         /\ \A v \in Viewers : Withdraw(v) \in Seq(Jobs)
         /\ \A v \in Viewers : Append(Withdraw(v), Job("close", v)) \in Seq(Jobs)
         /\ NoJob \in Jobs
<1>1. \A op \in {"none", "open", "close", "control", "off", "shutdown"},
         v \in Viewers \cup {NoViewer} : Job(op, v) \in Jobs
  BY DEF Job, Jobs
<1>2. NoJob \in Jobs
  BY <1>1 DEF NoJob
<1>3. queue # <<>> => Head(queue) \in Jobs /\ Tail(queue) \in Seq(Jobs)
  BY HeadTailProperties
<1>4. ASSUME NEW v \in Viewers
      PROVE  Withdraw(v) \in Seq(Jobs)
  <2>1. /\ DOMAIN queue = 1..Len(queue)
        /\ Len(queue) \in Nat
        /\ \A i \in DOMAIN queue : queue[i] \in Jobs
    BY LenProperties, ElementOfSeq
  <2>2. Withdraw(v) \in [1..Len(queue) -> Jobs]
    BY <1>2, <2>1 DEF Withdraw
  <2> QED
    BY <2>1, <2>2, SeqDef
<1>5. \A s \in Seq(Jobs), j \in Jobs : Append(s, j) \in Seq(Jobs)
  OBVIOUS
<1> QED
  BY <1>1, <1>2, <1>3, <1>4, <1>5

\* A reader is a viewer's track.
LEMMA ReaderParts ==
  \A r \in Readers : r[1] \in Viewers /\ r[2] \in {"video", "audio"}
BY DEF Readers

\* EndTrack keeps the types of the two variables it changes.
LEMMA EndTrackTyping ==
  ASSUME TypeOK, NEW r \in Readers, EndTrack(r)
  PROVE  /\ rpc' \in [Readers -> {"none", "start", "enter", "check", "recv", "ended"}]
         /\ marker' \in [Viewers -> SUBSET {"video", "audio"}]
BY ReaderParts DEF EndTrack, TypeOK

-----------------------------------------------------------------------------
(* Type correctness.                                                       *)

\* Inside is finite, and is not empty with a reader in it.
LEMMA InsideFinite ==
  /\ IsFiniteSet(Inside)
  /\ Cardinality(Inside) \in Nat
  /\ \A r \in Inside : Cardinality(Inside) > 0
<1>1. IsFiniteSet({"video"}) /\ IsFiniteSet({"video"} \cup {"audio"})
  BY FS_Singleton, FS_AddElement
<1>2. {"video"} \cup {"audio"} = {"video", "audio"}
  OBVIOUS
<1>3. IsFiniteSet(Readers)
  BY <1>1, <1>2, FS_Product, ViewersAssumption DEF Readers
<1>4. Inside \in SUBSET Readers
  BY DEF Inside
<1>5. IsFiniteSet(Inside)
  BY <1>3, <1>4, FS_Subset
<1>6. Cardinality(Inside) \in Nat /\ (Cardinality(Inside) = 0 <=> Inside = {})
  BY <1>5, FS_CardinalityType, FS_EmptySet
<1> QED
  BY <1>5, <1>6

LEMMA TypeInit == Init => TypeOK
<1> SUFFICES ASSUME Init PROVE TypeOK
  OBVIOUS
<1>1. queue \in Seq(Jobs) /\ job \in Jobs
  BY EmptySeq DEF Init, NoJob, Job, Jobs
<1>2. /\ alive \in BOOLEAN /\ needsLogin \in BOOLEAN /\ streaming \in BOOLEAN
      /\ stop \in BOOLEAN /\ wasStreaming \in BOOLEAN /\ turning \in BOOLEAN
  BY Zenon DEF Init
<1>3. /\ hpc \in [Viewers -> {"idle", "open", "prepare", "stream", "halting", "close",
                             "done", "busy", "failed", "aborted"}]
      /\ conn \in [Viewers -> BOOLEAN]
      /\ pending \in [Viewers -> BOOLEAN]
      /\ marker \in [Viewers -> SUBSET {"video", "audio"}]
      /\ rpc \in [Readers -> {"none", "start", "enter", "check", "recv", "ended"}]
      /\ rsess \in [Readers -> Nat]
  BY DEF Init
<1> QED
  BY <1>1, <1>2, <1>3 DEF Init, TypeOK

\* A step of a handler or a reader leaves the session, the slot and the job
\* alone, so that only what it writes has to be typed.
LEMMA TypeFrame ==
  ASSUME TypeOK, UNCHANGED <<workerVars, slotVars, job, wpc, wasStreaming, down>>,
         queue' \in Seq(Jobs),
         hpc' \in [Viewers -> {"idle", "open", "prepare", "stream", "halting", "close",
                              "done", "busy", "failed", "aborted"}],
         conn' \in [Viewers -> BOOLEAN],
         pending' \in [Viewers -> BOOLEAN],
         marker' \in [Viewers -> SUBSET {"video", "audio"}],
         readers' \in Nat,
         rpc' \in [Readers -> {"none", "start", "enter", "check", "recv", "ended"}],
         rsess' \in [Readers -> Nat]
  PROVE  TypeOK'
<1>1. /\ UNCHANGED session /\ UNCHANGED alive /\ UNCHANGED opened /\ UNCHANGED needsLogin
      /\ UNCHANGED serving /\ UNCHANGED turning /\ UNCHANGED unheard
      /\ UNCHANGED streaming /\ UNCHANGED owner /\ UNCHANGED stop
      /\ UNCHANGED job /\ UNCHANGED wpc /\ UNCHANGED wasStreaming /\ UNCHANGED down
  BY DEF workerVars, slotVars
<1>2. /\ alive' \in BOOLEAN /\ needsLogin' \in BOOLEAN /\ turning' \in BOOLEAN
      /\ streaming' \in BOOLEAN /\ stop' \in BOOLEAN /\ wasStreaming' \in BOOLEAN
  BY <1>1, Zenon DEF TypeOK
<1>3. queue' \in Seq(Jobs) /\ job' \in Jobs
  BY <1>1 DEF TypeOK
<1> QED
  BY <1>1, <1>2, <1>3 DEF TypeOK

\* A stop, taken or refused, keeps the types of the two variables it changes.
LEMMA StopVideoTyping ==
  ASSUME TypeOK, NEW running, StopVideo(running)
  PROVE  serving' \in Nat /\ unheard' \in SUBSET {"video", "motor"}
<1>1. serving' \in {serving, 0}
  BY Zenon DEF StopVideo
<1>2. unheard' \in {unheard, unheard \ {"video"}, unheard \cup {"video"}}
  BY Zenon DEF StopVideo, Taken, Refused
<1> QED
  BY <1>1, <1>2 DEF TypeOK

LEMMA TypeStep == TypeOK /\ ReaderCount /\ [Next]_vars => TypeOK'
<1> SUFFICES ASSUME TypeOK, ReaderCount, [Next]_vars
             PROVE  TypeOK'
  OBVIOUS
<1> USE DEF workerVars, slotVars, executor, handlerVars, readerVars
<1>q. /\ queue \in Seq(Jobs)
      /\ \A op \in {"open", "close", "control", "off", "shutdown"}, v \in Viewers \cup {NoViewer} :
           Append(queue, Job(op, v)) \in Seq(Jobs)
      /\ queue # <<>> => Head(queue) \in Jobs /\ Tail(queue) \in Seq(Jobs)
      /\ \A v \in Viewers : Withdraw(v) \in Seq(Jobs)
      /\ \A v \in Viewers : Append(Withdraw(v), Job("close", v)) \in Seq(Jobs)
      /\ NoJob \in Jobs
  BY QueueTyping DEF TypeOK
<1>1. CASE Worker
  <2>1. CASE TakeJob
    BY <1>q, <2>1 DEF TakeJob, TypeOK, Answer, Finish
  <2>2. CASE SkipJob
    BY <1>q, <2>2 DEF SkipJob, TypeOK
  <2>3. CASE CloseStream
    <3>1. serving' \in Nat /\ unheard' \in SUBSET {"video", "motor"}
      BY <2>3, StopVideoTyping DEF CloseStream
    <3> QED
      BY <1>q, <2>3, <3>1 DEF CloseStream, TypeOK, GiveBack
  <2>4. CASE EnsureAlive
    BY <2>4 DEF EnsureAlive, TypeOK
  <2>5. CASE EnsureHeldOff
    BY <1>q, <2>5 DEF EnsureHeldOff, TypeOK, Answer, Finish
  <2>6. CASE DropBegin
    BY <2>6 DEF DropBegin, TypeOK, GiveBack
  <2>7. CASE DropFinish
    <3>1. serving' \in Nat /\ unheard' \in SUBSET {"video", "motor"}
      BY <2>7, StopVideoTyping DEF DropFinish
    <3>2. session' \in Nat /\ alive' \in BOOLEAN
      BY <2>7 DEF DropFinish
    <3>3. /\ job' \in Jobs
          /\ wpc' \in {"idle", "ensure", "drop", "connect", "greet", "close", "act", "turn"}
      BY <1>q, <2>7 DEF DropFinish, Finish, TypeOK
    <3> QED
      BY <2>7, <3>1, <3>2, <3>3 DEF DropFinish, TypeOK
  <2>8. CASE Connect
    <3>1. session' \in Nat /\ opened' \in Nat
      BY <2>8 DEF Connect, TypeOK
    <3>2. /\ alive' \in BOOLEAN /\ needsLogin' \in BOOLEAN /\ turning' \in BOOLEAN
          /\ streaming' \in BOOLEAN /\ stop' \in BOOLEAN /\ wasStreaming' \in BOOLEAN
      BY <2>8, Zenon DEF Connect, TypeOK
    <3>3. unheard' \in SUBSET {"video", "motor"}
      BY <2>8 DEF Connect
    <3> QED
      BY <2>8, <3>1, <3>2, <3>3, SMTT(30) DEF Connect, TypeOK
  <2>9. CASE ConnectFails
    BY <1>q, <2>9 DEF ConnectFails, TypeOK, Answer, Finish
  <2>10. CASE OpenStream
    <3>1. serving' \in Nat /\ unheard' \in SUBSET {"video", "motor"}
      BY <2>10 DEF OpenStream, Taken, TypeOK
    <3>2. /\ owner' \in Viewers \cup {NoViewer}
          /\ job' \in Jobs /\ wpc' = "idle"
          /\ stop' \in BOOLEAN /\ streaming' \in BOOLEAN
      BY <1>q, <2>10 DEF OpenStream, Finish, TypeOK, Jobs
    <3>3. hpc' \in [Viewers -> {"idle", "open", "prepare", "stream", "halting", "close",
                               "done", "busy", "failed", "aborted"}]
      BY <2>10 DEF OpenStream, Answer, TypeOK
    <3> QED
      BY <2>10, <3>1, <3>2, <3>3 DEF OpenStream, TypeOK
  <2>11. CASE Operate
    BY <1>q, <2>11 DEF Operate, TypeOK, Finish
  <2>12. CASE SwitchOff
    BY <1>q, <2>12 DEF SwitchOff, TypeOK, Finish
  <2>13. CASE StartMotor
    <3>1. /\ alive' \in BOOLEAN /\ needsLogin' \in BOOLEAN /\ turning' \in BOOLEAN
          /\ streaming' \in BOOLEAN /\ stop' \in BOOLEAN /\ wasStreaming' \in BOOLEAN
      BY <2>13, Zenon DEF StartMotor, TypeOK
    <3>2. unheard' \in SUBSET {"video", "motor"}
      BY <2>13 DEF StartMotor, Taken, TypeOK
    <3> QED
      BY <2>13, <3>1, <3>2 DEF StartMotor, TypeOK
  <2>15. CASE Greet
    <3>1. /\ alive' \in BOOLEAN /\ needsLogin' \in BOOLEAN /\ turning' \in BOOLEAN
          /\ streaming' \in BOOLEAN /\ stop' \in BOOLEAN /\ wasStreaming' \in BOOLEAN
      BY <2>15, Zenon DEF Greet, HaltPan, TypeOK
    <3>2. unheard' \in SUBSET {"video", "motor"}
      BY <2>15 DEF Greet, HaltPan, Taken, Refused, TypeOK
    <3> QED
      BY <2>15, <3>1, <3>2 DEF Greet, TypeOK
  <2>14. CASE StopMotor
    <3>1. /\ alive' \in BOOLEAN /\ needsLogin' \in BOOLEAN /\ turning' \in BOOLEAN
          /\ streaming' \in BOOLEAN /\ stop' \in BOOLEAN /\ wasStreaming' \in BOOLEAN
      BY <2>14, Zenon DEF StopMotor, HaltPan, TypeOK
    <3>2. unheard' \in SUBSET {"video", "motor"}
      BY <2>14 DEF StopMotor, HaltPan, Taken, Refused, TypeOK
    <3> QED
      BY <1>q, <2>14, <3>1, <3>2 DEF StopMotor, TypeOK, Finish
  <2> QED
    BY <1>1, <2>1, <2>2, <2>3, <2>4, <2>5, <2>6, <2>7, <2>8, <2>9, <2>10, <2>11, <2>12, <2>13,
       <2>14, <2>15 DEF Worker
<1>2. ASSUME NEW v \in Viewers, Request(v) \/ Handler(v) \/ Disconnect(v) \/ Cancel(v)
      PROVE  TypeOK'
  <2>1. CASE Request(v)
    <3>1. queue' \in Seq(Jobs)
      BY <1>q, <2>1 DEF Request, Submit
    <3>2. /\ hpc' \in [Viewers -> {"idle", "open", "prepare", "stream", "halting", "close",
                                  "done", "busy", "failed", "aborted"}]
          /\ UNCHANGED <<workerVars, slotVars, job, wpc, wasStreaming, down, conn, pending,
                         marker, readerVars>>
      BY <2>1 DEF Request, TypeOK
    <3> QED
      BY <3>1, <3>2 DEF TypeOK, workerVars, slotVars, readerVars
  <2>2. CASE Prepare(v)
    BY <2>2 DEF Prepare, TypeOK
  <2>3. CASE PrepareFails(v)
    BY <2>3 DEF PrepareFails, TypeOK
  <2>4. CASE WriteFrame(v)
    <3>1. queue' \in Seq(Jobs)
      BY <1>q, <2>4 DEF WriteFrame, LeaveLoop, Submit
    <3>2. hpc' \in [Viewers -> {"idle", "open", "prepare", "stream", "halting", "close",
                               "done", "busy", "failed", "aborted"}]
      BY <2>4 DEF WriteFrame, LeaveLoop, TypeOK
    <3>3. pending' \in [Viewers -> BOOLEAN]
      BY <2>4 DEF WriteFrame, TypeOK
    <3>4. /\ UNCHANGED <<workerVars, slotVars, job, wpc, wasStreaming, down>>
          /\ UNCHANGED <<conn, marker, readers, rpc, rsess>>
      BY <2>4 DEF WriteFrame
    <3> QED
      BY <3>1, <3>2, <3>3, <3>4, TypeFrame DEF TypeOK
  <2>5. CASE CloseAgain(v)
    <3>1. queue' \in Seq(Jobs)
      BY <1>q, <2>5 DEF CloseAgain, LeaveLoop, Submit
    <3> QED
      BY <2>5, <3>1 DEF CloseAgain, TypeOK, LeaveLoop
  <2>6. ASSUME NEW k \in Tracks(v), TakeMarker(v, k)
        PROVE  TypeOK'
    <3>1. queue' \in Seq(Jobs)
      BY <1>q, <2>6 DEF TakeMarker, LeaveLoop, Submit
    <3> QED
      BY <2>6, <3>1 DEF TakeMarker, TypeOK, LeaveLoop
  <2>7. CASE Disconnect(v)
    BY <2>7 DEF Disconnect, TypeOK
  <2>8. CASE Cancel(v)
    <3>1. queue' \in Seq(Jobs)
      BY <1>q, <2>8 DEF Cancel, LeaveLoop, Submit
    <3>2. hpc' \in [Viewers -> {"idle", "open", "prepare", "stream", "halting", "close",
                               "done", "busy", "failed", "aborted"}]
      BY <2>8 DEF Cancel, LeaveLoop, TypeOK
    <3>3. pending' \in [Viewers -> BOOLEAN]
      BY <2>8 DEF Cancel, TypeOK
    <3>4. /\ UNCHANGED <<workerVars, slotVars, job, wpc, wasStreaming, down>>
          /\ UNCHANGED <<conn, marker, readers, rpc, rsess>>
      BY <2>8 DEF Cancel
    <3> QED
      BY <3>1, <3>2, <3>3, <3>4, TypeFrame DEF TypeOK
  <2> QED
    BY <1>2, <2>1, <2>2, <2>3, <2>4, <2>5, <2>6, <2>7, <2>8 DEF Handler
<1>3. ASSUME NEW r \in Readers, Reader(r)
      PROVE  TypeOK'
  <2>1. CASE ReaderStart(r)
    <3>1. /\ UNCHANGED <<workerVars, slotVars, queue, job, wpc, wasStreaming, down>>
          /\ UNCHANGED <<hpc, conn, pending, readers>>
      BY <2>1 DEF ReaderStart
    <3>2. CASE EndTrack(r) /\ UNCHANGED rsess
      BY <3>1, <3>2, EndTrackTyping, TypeFrame DEF TypeOK
    <3>3. CASE /\ rpc' = [rpc EXCEPT ![r] = "enter"]
               /\ rsess' = [rsess EXCEPT ![r] = session]
               /\ UNCHANGED marker
      <4>1. /\ rpc' \in [Readers -> {"none", "start", "enter", "check", "recv", "ended"}]
            /\ rsess' \in [Readers -> Nat]
        BY <3>3 DEF TypeOK
      <4> QED
        BY <3>1, <3>3, <4>1, TypeFrame DEF TypeOK
    <3> QED
      BY <2>1, <3>2, <3>3 DEF ReaderStart
  <2>2. CASE EnterReader(r)
    BY <2>2 DEF EnterReader, TypeOK
  <2>3. CASE ReaderStopped(r)
    <3>1. r \in Inside
      BY <2>3 DEF ReaderStopped, Inside
    <3>2. readers' \in Nat
      BY <2>3, <3>1, InsideFinite DEF ReaderStopped, LeaveReader, TypeOK, ReaderCount
    <3>3. EndTrack(r)
      BY <2>3 DEF ReaderStopped, LeaveReader
    <3> QED
      BY <2>3, <3>2, <3>3, EndTrackTyping DEF ReaderStopped, LeaveReader, TypeOK
  <2>4. CASE ReaderRecv(r)
    BY <2>4 DEF ReaderRecv, TypeOK
  <2>5. CASE RecvFrame(r)
    BY <2>5, ReaderParts DEF RecvFrame, TypeOK
  <2>6. CASE RecvNothing(r)
    BY <2>6 DEF RecvNothing, TypeOK
  <2>7. CASE RecvEnds(r)
    <3>1. r \in Inside
      BY <2>7 DEF RecvEnds, Inside
    <3>2. readers' \in Nat
      BY <2>7, <3>1, InsideFinite DEF RecvEnds, LeaveReader, TypeOK, ReaderCount
    <3>3. EndTrack(r)
      BY <2>7 DEF RecvEnds, LeaveReader
    <3> QED
      BY <2>7, <3>2, <3>3, EndTrackTyping DEF RecvEnds, LeaveReader, TypeOK
  <2> QED
    BY <1>3, <2>1, <2>2, <2>3, <2>4, <2>5, <2>6, <2>7 DEF Reader
<1>4. ASSUME NEW op \in Background, SubmitBackground(op)
      PROVE  TypeOK'
  <2>1. queue' \in Seq(Jobs)
    BY <1>q, <1>4, BoundAssumption DEF SubmitBackground, Submit
  <2>2. UNCHANGED <<workerVars, slotVars, job, wpc, wasStreaming, down, handlerVars, readerVars>>
    BY <1>4 DEF SubmitBackground
  <2> QED
    BY <2>1, <2>2 DEF TypeOK, workerVars, slotVars, handlerVars, readerVars
<1>5. CASE SessionDies
  <2>1. /\ alive' = FALSE
        /\ UNCHANGED <<session, opened, needsLogin, serving, turning, unheard, slotVars, executor,
                       handlerVars, readerVars>>
    BY <1>5 DEF SessionDies
  <2>2. /\ alive' \in BOOLEAN /\ needsLogin' \in BOOLEAN /\ turning' \in BOOLEAN
        /\ streaming' \in BOOLEAN /\ stop' \in BOOLEAN /\ wasStreaming' \in BOOLEAN
    BY <2>1, Zenon DEF TypeOK, slotVars, executor
  <2> QED
    BY <2>1, <2>2, Zenon DEF TypeOK, slotVars, executor, handlerVars, readerVars
<1>9. CASE EndStop
  <2>1. /\ alive' \in BOOLEAN /\ needsLogin' \in BOOLEAN /\ turning' \in BOOLEAN
        /\ streaming' \in BOOLEAN /\ stop' \in BOOLEAN /\ wasStreaming' \in BOOLEAN
    BY <1>9, Zenon DEF EndStop, TypeOK
  <2>2. unheard' \in SUBSET {"video", "motor"}
    BY <1>9 DEF EndStop, TypeOK
  <2> QED
    BY <1>9, <2>1, <2>2 DEF EndStop, TypeOK
<1>6. CASE Terminate
  BY <1>6 DEF Terminate, TypeOK
<1>7. CASE SubmitClose
  BY <1>q, <1>7 DEF SubmitClose, TypeOK, Submit
<1>8. CASE UNCHANGED vars
  BY <1>8 DEF vars, TypeOK
<1> QED
  BY <1>1, <1>2, <1>3, <1>4, <1>5, <1>6, <1>7, <1>8, <1>9 DEF Next

-----------------------------------------------------------------------------
(* What each kind of step leaves alone.                                    *)

\* Only a reader's own steps and the start of its handler's loop move readers.
LEMMA ReaderFrame ==
  ASSUME [Next]_vars
  PROVE  \/ UNCHANGED <<readers, rpc, rsess>>
         \/ \E v \in Viewers : Prepare(v)
         \/ \E r \in Readers : Reader(r)
<1> USE DEF workerVars, slotVars, executor, handlerVars, readerVars
<1>1. CASE Worker
  BY <1>1 DEF Worker, TakeJob, SkipJob, CloseStream, EnsureAlive, EnsureHeldOff, DropBegin,
              DropFinish, Connect, ConnectFails, OpenStream, Operate, SwitchOff, StartMotor,
              StopMotor, Greet
<1>2. ASSUME NEW v \in Viewers, Request(v) \/ Handler(v) \/ Disconnect(v) \/ Cancel(v)
      PROVE  Prepare(v) \/ UNCHANGED <<readers, rpc, rsess>>
  BY <1>2 DEF Handler, Request, PrepareFails, WriteFrame, CloseAgain, TakeMarker, Disconnect, Cancel
<1>3. CASE SessionDies \/ EndStop \/ Terminate \/ SubmitClose \/ UNCHANGED vars
  BY <1>3 DEF SessionDies, EndStop, Terminate, SubmitClose, vars
<1>4. CASE \E op \in Background : SubmitBackground(op)
  BY <1>4 DEF SubmitBackground
<1> QED
  BY <1>1, <1>2, <1>3, <1>4 DEF Next

\* Only the executor thread, the network and the camera move the session and
\* the slot.
LEMMA SessionFrame ==
  ASSUME [Next]_vars
  PROVE  \/ UNCHANGED <<workerVars, slotVars, job, wpc, wasStreaming>>
         \/ Worker
         \/ SessionDies
         \/ EndStop
<1> USE DEF workerVars, slotVars, executor, handlerVars, readerVars
<1>1. ASSUME NEW v \in Viewers, Request(v) \/ Handler(v) \/ Disconnect(v) \/ Cancel(v)
      PROVE  UNCHANGED <<workerVars, slotVars, job, wpc, wasStreaming>>
  BY <1>1 DEF Handler, Request, Prepare, PrepareFails, WriteFrame, CloseAgain, TakeMarker,
              Disconnect, Cancel
<1>2. ASSUME NEW r \in Readers, Reader(r)
      PROVE  UNCHANGED <<workerVars, slotVars, job, wpc, wasStreaming>>
  BY <1>2 DEF Reader, ReaderStart, EnterReader, ReaderStopped, ReaderRecv, RecvFrame,
              RecvNothing, RecvEnds, LeaveReader
<1>3. CASE Terminate \/ SubmitClose \/ UNCHANGED vars
  BY <1>3 DEF Terminate, SubmitClose, vars
<1>4. CASE \E op \in Background : SubmitBackground(op)
  BY <1>4 DEF SubmitBackground
<1> QED
  BY <1>1, <1>2, <1>3, <1>4 DEF Next

-----------------------------------------------------------------------------
(* The rest of the inductive invariant.                                    *)

LEMMA ReadersStartLateStep ==
  ASSUME TypeOK, ReadersStartLate, [Next]_vars
  PROVE  ReadersStartLate'
<1> USE DEF workerVars, slotVars, executor, handlerVars, readerVars
<1>r. \A r \in Readers : r[1] \in Viewers
  BY ReaderParts
<1>1. CASE Worker
  <2>1. rpc' = rpc
    BY <1>1 DEF Worker, TakeJob, SkipJob, CloseStream, EnsureAlive, EnsureHeldOff, DropBegin,
                DropFinish, Connect, ConnectFails, OpenStream, Operate, SwitchOff, StartMotor,
                StopMotor, Greet
  <2>2. \A v \in Viewers : hpc'[v] \in {"idle", "open", "prepare"}
          => hpc[v] \in {"idle", "open", "prepare"}
    <3>1. CASE TakeJob \/ EnsureHeldOff \/ ConnectFails \/ OpenStream
      BY <3>1 DEF TakeJob, EnsureHeldOff, ConnectFails, OpenStream, Answer, TypeOK
    <3>2. CASE CloseStream
      BY <3>2 DEF CloseStream, TypeOK
    <3>3. CASE UNCHANGED hpc
      BY <3>3
    <3> QED
      BY <1>1, <3>1, <3>2, <3>3 DEF Worker, SkipJob, EnsureAlive, DropBegin, DropFinish, Connect,
                                    Greet, Operate, SwitchOff, StartMotor, StopMotor
  <2> QED
    BY <2>1, <2>2, <1>r DEF ReadersStartLate
<1>2. ASSUME NEW v \in Viewers, Request(v) \/ Handler(v) \/ Disconnect(v) \/ Cancel(v)
      PROVE  ReadersStartLate'
  <2>1. CASE Prepare(v)
    BY <2>1, <1>r DEF Prepare, ReadersStartLate, ReadersOf, TypeOK
  <2>2. CASE ~Prepare(v)
    <3>1. rpc' = rpc
      BY <1>2, <2>2 DEF Handler, Request, PrepareFails, WriteFrame, CloseAgain, TakeMarker,
                        Disconnect, Cancel
    <3>2. \A w \in Viewers : hpc'[w] \in {"idle", "open", "prepare"}
            => hpc[w] \in {"idle", "open", "prepare"}
      BY <1>2, <2>2 DEF Handler, Request, PrepareFails, WriteFrame, CloseAgain, TakeMarker,
                        Disconnect, Cancel, LeaveLoop, TypeOK
    <3> QED
      BY <3>1, <3>2, <1>r DEF ReadersStartLate
  <2> QED
    BY <2>1, <2>2
<1>3. ASSUME NEW r \in Readers, Reader(r)
      PROVE  ReadersStartLate'
  <2>1. hpc' = hpc
    BY <1>3 DEF Reader, ReaderStart, EnterReader, ReaderStopped, ReaderRecv, RecvFrame,
                RecvNothing, RecvEnds, LeaveReader
  <2>2. rpc[r] # "none" /\ \A q \in Readers \ {r} : rpc'[q] = rpc[q]
    BY <1>3 DEF Reader, ReaderStart, EnterReader, ReaderStopped, ReaderRecv, RecvFrame,
                RecvNothing, RecvEnds, LeaveReader, EndTrack, TypeOK
  <2> QED
    BY <2>1, <2>2 DEF ReadersStartLate
<1>4. CASE SessionDies \/ EndStop \/ Terminate \/ SubmitClose \/ UNCHANGED vars
  BY <1>4 DEF SessionDies, EndStop, Terminate, SubmitClose, vars, ReadersStartLate
<1>5. CASE \E op \in Background : SubmitBackground(op)
  BY <1>5 DEF SubmitBackground, ReadersStartLate
<1> QED
  BY <1>1, <1>2, <1>3, <1>4, <1>5 DEF Next

\* The count follows the set of readers it stands for.
LEMMA ReaderCountStep ==
  ASSUME TypeOK, ReadersStartLate, ReaderCount, [Next]_vars
  PROVE  ReaderCount'
<1> USE DEF workerVars, slotVars, executor, handlerVars, readerVars
<1>1. ASSUME Inside' = Inside, readers' = readers
      PROVE  ReaderCount'
  BY <1>1 DEF ReaderCount
<1>2. CASE UNCHANGED <<readers, rpc, rsess>>
  BY <1>1, <1>2 DEF Inside
<1>3. ASSUME NEW v \in Viewers, Prepare(v)
      PROVE  ReaderCount'
  <2>1. \A r \in ReadersOf(v) : r \in Readers => r[1] = v /\ rpc[r] = "none"
    BY <1>3 DEF Prepare, ReadersOf, ReadersStartLate
  <2>2. Inside' = Inside
    BY <1>3, <2>1 DEF Prepare, Inside
  <2> QED
    BY <1>1, <1>3, <2>2 DEF Prepare
<1>4. ASSUME NEW r \in Readers, Reader(r)
      PROVE  ReaderCount'
  <2>1. CASE ReaderStart(r) \/ ReaderRecv(r) \/ RecvFrame(r) \/ RecvNothing(r)
    <3>1. Inside' = Inside
      BY <2>1 DEF ReaderStart, ReaderRecv, RecvFrame, RecvNothing, EndTrack, Inside, TypeOK
    <3> QED
      BY <1>1, <2>1, <3>1 DEF ReaderStart, ReaderRecv, RecvFrame, RecvNothing
  <2>2. CASE EnterReader(r)
    <3>1. r \notin Inside /\ Inside' = Inside \cup {r}
      BY <2>2 DEF EnterReader, Inside, TypeOK
    <3>2. Cardinality(Inside') = Cardinality(Inside) + 1
      BY <3>1, InsideFinite, FS_AddElement
    <3> QED
      BY <2>2, <3>2 DEF EnterReader, ReaderCount
  <2>3. CASE ReaderStopped(r) \/ RecvEnds(r)
    <3>1. r \in Inside /\ Inside' = Inside \ {r}
      BY <2>3 DEF ReaderStopped, RecvEnds, LeaveReader, EndTrack, Inside, TypeOK
    <3>2. Cardinality(Inside') = Cardinality(Inside) - 1
      BY <3>1, InsideFinite, FS_RemoveElement
    <3> QED
      BY <2>3, <3>2 DEF ReaderStopped, RecvEnds, LeaveReader, ReaderCount
  <2> QED
    BY <1>4, <2>1, <2>2, <2>3 DEF Reader
<1> QED
  BY <1>2, <1>3, <1>4, ReaderFrame

LEMMA StopWhenFreeStep ==
  ASSUME TypeOK, ReadersStartLate, SessionNumbers, StopWhenFree, [Next]_vars
  PROVE  StopWhenFree'
<1> USE DEF workerVars, slotVars, executor, handlerVars, readerVars
<1>1. ASSUME Pristine, rpc' = rpc, session' = session, wpc' \in {"idle", "ensure", "close"}
      PROVE  Pristine'
  BY <1>1 DEF Pristine
<1>2. CASE Worker
  <2>1. CASE TakeJob \/ SkipJob \/ EnsureAlive \/ EnsureHeldOff \/ Operate
    BY <1>1, <2>1 DEF TakeJob, SkipJob, EnsureAlive, EnsureHeldOff, Operate, Finish,
                      StopWhenFree, Pristine, SessionNumbers
  <2>2. CASE CloseStream \/ DropBegin \/ SwitchOff
    BY <2>2, Zenon DEF CloseStream, DropBegin, SwitchOff, GiveBack, StopWhenFree
  <2>3. CASE DropFinish \/ Connect \/ ConnectFails
    BY <2>3 DEF DropFinish, Connect, ConnectFails, Pristine, StopWhenFree
  <2>4. CASE OpenStream
    BY <2>4, Zenon DEF OpenStream, StopWhenFree
  <2>5. CASE Greet \/ StartMotor \/ StopMotor
    BY <2>5 DEF Greet, StartMotor, StopMotor, Pristine, StopWhenFree
  <2> QED
    BY <1>2, <2>1, <2>2, <2>3, <2>4, <2>5 DEF Worker
<1>3. CASE UNCHANGED <<workerVars, slotVars, wpc>>
  <2>1. SUFFICES ASSUME Pristine PROVE Pristine'
    BY <1>3 DEF StopWhenFree
  <2>2. CASE UNCHANGED <<readers, rpc, rsess>>
    BY <1>1, <1>3, <2>1, <2>2 DEF Pristine
  <2>3. ASSUME NEW v \in Viewers, Prepare(v)
        PROVE  Pristine'
    BY <1>3, <2>1, <2>3 DEF Prepare, Pristine
  <2>4. ASSUME NEW r \in Readers, Reader(r)
        PROVE  Pristine'
    BY <1>3, <2>1, <2>4 DEF Reader, ReaderStart, EnterReader, ReaderStopped, ReaderRecv,
         RecvFrame, RecvNothing, RecvEnds, EndTrack, Pristine, TypeOK
  <2> QED
    BY <2>2, <2>3, <2>4, ReaderFrame
<1>4. CASE SessionDies \/ EndStop
  BY <1>4 DEF SessionDies, EndStop, StopWhenFree, Pristine
<1> QED
  BY <1>2, <1>3, <1>4, SessionFrame

LEMMA SessionNumbersStep ==
  ASSUME TypeOK, SessionNumbers, [Next]_vars
  PROVE  SessionNumbers'
<1> USE DEF workerVars, slotVars, executor, handlerVars, readerVars
<1>1. CASE Worker
  <2>1. CASE TakeJob \/ SkipJob \/ EnsureAlive \/ EnsureHeldOff \/ Operate \/ SwitchOff
             \/ DropBegin \/ ConnectFails
    <3>1. UNCHANGED <<session, alive, opened, serving>>
      BY <2>1 DEF TakeJob, SkipJob, EnsureAlive, EnsureHeldOff, Operate, SwitchOff, DropBegin,
                  ConnectFails
    <3>2. wpc' # "connect"
      BY <2>1 DEF TakeJob, SkipJob, EnsureAlive, EnsureHeldOff, Operate, SwitchOff, DropBegin,
                  ConnectFails, Finish
    <3> QED
      BY <3>1, <3>2 DEF SessionNumbers
  <2>2. CASE CloseStream
    BY <2>2 DEF CloseStream, StopVideo, SessionNumbers, TypeOK
  <2>3. CASE DropFinish
    BY <2>3 DEF DropFinish, Finish, StopVideo, SessionNumbers, TypeOK
  <2>4. CASE Connect
    BY <2>4 DEF Connect, SessionNumbers, TypeOK
  <2>5. CASE OpenStream
    BY <2>5 DEF OpenStream, Finish, SessionNumbers, TypeOK
  <2>6. CASE Greet \/ StartMotor \/ StopMotor
    BY <2>6 DEF Greet, StartMotor, StopMotor, Finish, SessionNumbers
  <2> QED
    BY <1>1, <2>1, <2>2, <2>3, <2>4, <2>5, <2>6 DEF Worker
<1>2. CASE UNCHANGED <<workerVars, wpc>>
  BY <1>2 DEF SessionNumbers
<1>3. CASE SessionDies \/ EndStop
  BY <1>3 DEF SessionDies, EndStop, SessionNumbers
<1> QED
  BY <1>1, <1>2, <1>3, SessionFrame

LEMMA ServingAccountedStep ==
  ASSUME TypeOK, SessionNumbers, ServingAccounted, [Next]_vars
  PROVE  ServingAccounted'
<1> USE DEF workerVars, slotVars, executor, handlerVars, readerVars
<1>1. CASE Worker
  <2>1. CASE TakeJob \/ SkipJob \/ EnsureAlive \/ EnsureHeldOff \/ Operate \/ SwitchOff
             \/ ConnectFails \/ Greet \/ StartMotor \/ StopMotor
    <3>1. /\ UNCHANGED <<session, alive, serving, streaming>>
          /\ "video" \in unheard => "video" \in unheard'
      BY <2>1 DEF TakeJob, SkipJob, EnsureAlive, EnsureHeldOff, Operate, SwitchOff, ConnectFails,
                  Greet, StartMotor, StopMotor, HaltPan, Taken, Refused
    <3>2. wpc # "drop" /\ wpc' # "drop"
      BY <2>1 DEF TakeJob, SkipJob, EnsureAlive, EnsureHeldOff, Operate, SwitchOff,
                  ConnectFails, Greet, StartMotor, StopMotor, Finish
    <3> QED
      BY <3>1, <3>2 DEF ServingAccounted
  <2>2. CASE CloseStream
    BY <2>2 DEF CloseStream, StopVideo, Taken, Refused, GiveBack, ServingAccounted, SessionNumbers,
                TypeOK
  <2>3. CASE DropBegin
    BY <2>3 DEF DropBegin, GiveBack, ServingAccounted
  <2>4. CASE DropFinish
    BY <2>4 DEF DropFinish, ServingAccounted
  <2>5. CASE Connect
    BY <2>5 DEF Connect, ServingAccounted, SessionNumbers, TypeOK
  <2>6. CASE OpenStream
    BY <2>6 DEF OpenStream, Finish, ServingAccounted
  <2> QED
    BY <1>1, <2>1, <2>2, <2>3, <2>4, <2>5, <2>6 DEF Worker
<1>2. CASE UNCHANGED <<workerVars, slotVars, wpc, wasStreaming>>
  BY <1>2 DEF ServingAccounted
<1>3. CASE SessionDies
  BY <1>3 DEF SessionDies, ServingAccounted
<1>4. CASE EndStop
  <2>1. /\ UNCHANGED <<session, alive, serving, streaming, wpc, wasStreaming>>
        /\ "video" \in unheard => "video" \in unheard'
    BY <1>4 DEF EndStop
  <2> QED
    BY <2>1 DEF ServingAccounted
<1> QED
  BY <1>1, <1>2, <1>3, <1>4, SessionFrame

\* A pan that ends on a live session stops the motor, and so does a new session.
LEMMA MotorAccountedStep ==
  ASSUME MotorAccounted, [Next]_vars
  PROVE  MotorAccounted'
<1> USE DEF workerVars, slotVars, executor, handlerVars, readerVars
<1>1. CASE Worker
  <2>1. CASE TakeJob \/ SkipJob \/ CloseStream \/ EnsureAlive \/ EnsureHeldOff \/ DropBegin
             \/ ConnectFails \/ OpenStream \/ Operate \/ SwitchOff
    <3>1. /\ UNCHANGED <<session, alive, turning>>
          /\ "motor" \in unheard => "motor" \in unheard'
      BY <2>1 DEF TakeJob, SkipJob, CloseStream, EnsureAlive, EnsureHeldOff, DropBegin,
                  ConnectFails, OpenStream, Operate, SwitchOff, StopVideo, Taken, Refused
    <3>2. wpc \notin {"greet", "turn"}
      BY <2>1 DEF TakeJob, SkipJob, CloseStream, EnsureAlive, EnsureHeldOff, DropBegin,
                  ConnectFails, OpenStream, Operate, SwitchOff
    <3> QED
      BY <3>1, <3>2 DEF MotorAccounted
  <2>2. CASE DropFinish
    BY <2>2 DEF DropFinish, MotorAccounted
  <2>3. CASE Connect
    BY <2>3 DEF Connect, MotorAccounted
  <2>4. CASE StartMotor
    BY <2>4 DEF StartMotor, MotorAccounted
  <2>5. CASE Greet \/ StopMotor
    BY <2>5 DEF Greet, StopMotor, HaltPan, Taken, Refused, MotorAccounted
  <2> QED
    BY <1>1, <2>1, <2>2, <2>3, <2>4, <2>5 DEF Worker
<1>2. CASE UNCHANGED <<workerVars, wpc>>
  BY <1>2 DEF MotorAccounted
<1>3. CASE SessionDies
  BY <1>3 DEF SessionDies, MotorAccounted
<1>4. CASE EndStop
  BY <1>4, Zenon DEF EndStop, MotorAccounted
<1> QED
  BY <1>1, <1>2, <1>3, <1>4, SessionFrame

-----------------------------------------------------------------------------
(* The theorems.                                                           *)

LEMMA IInvInit == Init => IInv
<1> SUFFICES ASSUME Init PROVE IInv
  OBVIOUS
<1>1. TypeOK
  BY TypeInit
<1>2. Inside = {}
  BY DEF Init, Inside
<1>3. ReaderCount
  BY <1>2, FS_EmptySet DEF Init, ReaderCount
<1>4. ReadersStartLate /\ StopWhenFree
  BY DEF Init, ReadersStartLate, StopWhenFree, Pristine
<1>5. SessionNumbers /\ ServingAccounted /\ MotorAccounted
  BY DEF Init, SessionNumbers, ServingAccounted, MotorAccounted
<1> QED
  BY <1>1, <1>3, <1>4, <1>5 DEF IInv

LEMMA IInvStep == IInv /\ [Next]_vars => IInv'
BY TypeStep, ReadersStartLateStep, ReaderCountStep, StopWhenFreeStep, SessionNumbersStep,
   ServingAccountedStep, MotorAccountedStep DEF IInv

LEMMA Inductive == Spec => []IInv
BY IInvInit, IInvStep, PTL DEF Spec

\* Every variable keeps its type; in particular the count of readers inside
\* the SDK that _enter_reader and _leave_reader keep never goes below zero.
THEOREM TypeCorrect == Spec => []TypeOK
<1>1. IInv => TypeOK
  BY DEF IInv
<1> QED
  BY <1>1, Inductive, PTL

\* While the slot is free every reader inside the SDK has been told to stop:
\* each of close_stream and _drop sets the event as it frees the slot.
THEOREM FreeSlotSafe == Spec => []FreeSlotStopsReaders
<1>1. IInv => FreeSlotStopsReaders
  <2> SUFFICES ASSUME IInv, ~streaming, readers > 0, Pristine
               PROVE  FALSE
    BY DEF IInv, StopWhenFree, FreeSlotStopsReaders
  <2>1. Inside = {}
    BY DEF Pristine, Inside
  <2> QED
    BY <2>1, FS_EmptySet DEF IInv, ReaderCount
<1> QED
  BY <1>1, Inductive, PTL

\* At rest a reachable camera serves video only to a viewer that holds the slot,
\* and its motor does not run, unless the session refused to carry the stop.
THEOREM CameraAtRestSafe == Spec => []CameraAtRest
<1>1. IInv => CameraAtRest
  BY DEF IInv, ServingAccounted, MotorAccounted, CameraAtRest
<1> QED
  BY <1>1, Inductive, PTL

\* close() and _ensure never close a live session the camera is still sending
\* to, unless it refused to carry the stop: _drop remembers that the slot was
\* taken and sends IPCAM_STOP first.
THEOREM CameraToldSafe == Spec => CameraToldBeforeClose
<1>1. IInv /\ [Next]_vars
        => [(alive /\ session # 0 /\ session' = 0)
              => serving' # session \/ "video" \in unheard']_vars
  <2> SUFFICES ASSUME IInv, [Next]_vars, alive, session # 0, session' = 0
               PROVE  serving' # session \/ "video" \in unheard'
    OBVIOUS
  <2> USE DEF workerVars, slotVars, executor, handlerVars, readerVars
  <2>1. DropFinish
    <3>1. ~SessionDies /\ ~EndStop
      BY DEF SessionDies, EndStop
    <3>2. ~Connect
      BY DEF Connect, IInv, TypeOK
    <3> QED
      BY <3>1, <3>2, SessionFrame DEF Worker, TakeJob, SkipJob, CloseStream, EnsureAlive,
           EnsureHeldOff, DropBegin, ConnectFails, OpenStream, Operate, SwitchOff, StartMotor,
           StopMotor, Greet
  <2> QED
    BY <2>1 DEF DropFinish, StopVideo, Taken, Refused, IInv, ServingAccounted, SessionNumbers, TypeOK
<1> QED
  BY <1>1, Inductive, PTL DEF Spec, CameraToldBeforeClose

\* As long as no reader outlasts READER_EXIT_TIMEOUT, the session is never
\* closed or replaced while a reader is inside the SDK on it.
THEOREM NoCloseUnderReaderSafe ==
  ASSUME HungReaders = FALSE
  PROVE  Spec => NoCloseUnderReader
<1>1. IInv /\ [Next]_vars
        => [\A r \in Readers :
              (rpc[r] = "recv" /\ session # 0 /\ rsess[r] = session) => session' = session]_vars
  <2> SUFFICES ASSUME IInv, [Next]_vars, NEW r \in Readers, rpc[r] = "recv", session # 0,
                      session' # session
               PROVE  FALSE
    OBVIOUS
  <2> USE DEF workerVars, slotVars, executor, handlerVars, readerVars
  <2>1. DropFinish \/ Connect
    <3>1. ~SessionDies /\ ~EndStop
      BY DEF SessionDies, EndStop
    <3> QED
      BY <3>1, SessionFrame DEF Worker, TakeJob, SkipJob, CloseStream, EnsureAlive,
           EnsureHeldOff, DropBegin, ConnectFails, OpenStream, Operate, SwitchOff, StartMotor,
           StopMotor, Greet
  <2>2. ~Connect
    BY DEF Connect, IInv, SessionNumbers
  <2>3. readers = 0
    BY <2>1, <2>2 DEF DropFinish, ReadersGone
  <2>4. r \in Inside
    BY DEF Inside
  <2> QED
    BY <2>3, <2>4, InsideFinite DEF IInv, ReaderCount
<1> QED
  BY <1>1, Inductive, PTL DEF Spec, NoCloseUnderReader

-----------------------------------------------------------------------------
(* The slot always has a handler, if clients wait for their headers.       *)

\* The queue after each of the three ways it changes while the bridge is up.
LEMMA QueueSteps ==
  ASSUME queue \in Seq(Jobs)
  PROVE  /\ \A j \in Jobs :
              /\ DOMAIN Append(queue, j) = DOMAIN queue \cup {Len(queue) + 1}
              /\ \A i \in DOMAIN queue : Append(queue, j)[i] = queue[i]
              /\ Append(queue, j)[Len(queue) + 1] = j
         /\ Len(queue) + 1 \notin DOMAIN queue
         /\ queue # <<>> =>
              /\ 1 \in DOMAIN queue
              /\ Head(queue) = queue[1]
              /\ \A i \in DOMAIN Tail(queue) :
                   i \in Nat /\ i + 1 \in DOMAIN queue \ {1} /\ Tail(queue)[i] = queue[i + 1]
<1>1. Len(queue) \in Nat /\ DOMAIN queue = 1..Len(queue)
  BY LenProperties
<1>2. ASSUME queue # <<>>
      PROVE  /\ Len(Tail(queue)) = Len(queue) - 1
             /\ DOMAIN Tail(queue) = 1..(Len(queue) - 1)
             /\ \A i \in 1..(Len(queue) - 1) : Tail(queue)[i] = queue[i + 1]
             /\ Len(queue) > 0
  BY <1>1, <1>2, HeadTailProperties, LenProperties, EmptySeq
<1>3. queue # <<>> => Head(queue) = queue[1]
  OBVIOUS
<1>4. \A j \in Jobs :
        /\ DOMAIN Append(queue, j) = DOMAIN queue \cup {Len(queue) + 1}
        /\ \A i \in DOMAIN queue : Append(queue, j)[i] = queue[i]
        /\ Append(queue, j)[Len(queue) + 1] = j
  BY <1>1
<1> QED
  BY <1>1, <1>2, <1>3, <1>4

\* A step that leaves the queue, and every waiting viewer, alone.
LEMMA OpenJobsKept ==
  ASSUME OpenJobsWaited, queue' = queue, job' \in {job, NoJob},
         \A v \in Viewers : hpc[v] = "open" => hpc'[v] = "open"
  PROVE  OpenJobsWaited'
BY ViewersAssumption DEF OpenJobsWaited, OpenQueued, OpenRunning, NoJob, Job

\* A job that is not open_stream joins the queue.
LEMMA OpenJobsOther ==
  ASSUME queue \in Seq(Jobs), OpenJobsWaited, NEW j \in Jobs, j.op # "open",
         j.who \in Viewers => j.op = "close",
         queue' = Append(queue, j), job' = job,
         \A v \in Viewers : hpc[v] = "open" => hpc'[v] = "open"
  PROVE  OpenJobsWaited'
<1>1. \A i \in DOMAIN queue' :
        \/ i \in DOMAIN queue /\ queue'[i] = queue[i]
        \/ queue'[i] = j
  BY QueueSteps
<1> QED
  BY <1>1 DEF OpenJobsWaited, OpenQueued, OpenRunning

LEMMA OpenJobsStep ==
  ASSUME TypeOK, OpenJobsWaited, [Next]_vars, down = "up", down' = "up"
  PROVE  OpenJobsWaited'
<1> USE DEF workerVars, slotVars, executor, handlerVars, readerVars
<1>t. queue \in Seq(Jobs)
  BY DEF TypeOK
<1>n. NoJob.op # "open" /\ NoJob.who \notin Viewers
  BY ViewersAssumption DEF NoJob, Job
<1>j. \A op \in {"open", "close", "control", "off"}, v \in Viewers \cup {NoViewer} :
        Job(op, v) \in Jobs /\ Job(op, v).op = op /\ Job(op, v).who = v
  BY DEF Job, Jobs
<1>1. CASE Worker
  <2>1. CASE TakeJob
    <3> DEFINE h == Head(queue)
    <3>1. /\ h = queue[1]
          /\ 1 \in DOMAIN queue
          /\ \A i \in DOMAIN queue' :
               i \in Nat /\ i + 1 \in DOMAIN queue \ {1} /\ queue'[i] = queue[i + 1]
      BY <2>1, <1>t, QueueSteps DEF TakeJob
    <3>2. /\ h.op = "open" => h.who \in Viewers \ AudioViewers /\ hpc[h.who] = "open"
          /\ h.who \in Viewers => h.op = "open"
      BY <2>1, <3>1 DEF TakeJob, OpenJobsWaited, OpenQueued
    <3>3. \A v \in Viewers, i \in DOMAIN queue' : OpenQueued(i, v)' => ~(h.op = "open" /\ h.who = v)
      BY <3>1 DEF OpenJobsWaited, OpenQueued
    <3>4. CASE h.op = "open" /\ streaming
      <4>1. job' = NoJob /\ hpc' = [hpc EXCEPT ![h.who] = "busy"]
        BY <2>1, <3>2, <3>4 DEF TakeJob, Finish, Answer
      <4> QED
        BY <4>1, <3>1, <3>2, <3>3, <3>4, <1>n DEF OpenJobsWaited, OpenQueued, OpenRunning, TypeOK
    <3>5. CASE ~(h.op = "open" /\ streaming)
      <4>1. job' = h /\ hpc' = hpc
        BY <2>1, <3>5 DEF TakeJob
      <4> QED
        BY <4>1, <3>1, <3>2, <3>3 DEF OpenJobsWaited, OpenQueued, OpenRunning
    <3> QED
      BY <3>4, <3>5
  <2>2. CASE SkipJob
    <3>1. \A i \in DOMAIN queue' :
            i \in Nat /\ i + 1 \in DOMAIN queue \ {1} /\ queue'[i] = queue[i + 1]
      BY <2>2, <1>t, QueueSteps DEF SkipJob
    <3> QED
      BY <2>2, <3>1 DEF SkipJob, OpenJobsWaited, OpenQueued, OpenRunning
  <2>3. CASE CloseStream
    <3>1. \A i \in DOMAIN queue' :
            i \in Nat /\ i + 1 \in DOMAIN queue \ {1} /\ queue'[i] = queue[i + 1]
      BY <2>3, <1>t, QueueSteps DEF CloseStream
    <3>2. job' = job /\ \A v \in Viewers : hpc[v] = "open" => hpc'[v] = "open"
      BY <2>3 DEF CloseStream, TypeOK
    <3> QED
      BY <3>1, <3>2 DEF OpenJobsWaited, OpenQueued, OpenRunning
  <2>4. CASE EnsureAlive \/ DropBegin \/ Connect \/ Greet \/ StartMotor
    <3>1. UNCHANGED <<queue, job, hpc>>
      BY <2>4 DEF EnsureAlive, DropBegin, Connect, Greet, StartMotor
    <3> QED
      BY <3>1, OpenJobsKept
  <2>5. CASE DropFinish \/ Operate \/ SwitchOff \/ StopMotor
    <3>1. UNCHANGED <<queue, hpc>> /\ job' \in {job, NoJob}
      BY <2>5 DEF DropFinish, Operate, SwitchOff, StopMotor, Finish
    <3> QED
      BY <3>1, <1>n, OpenJobsKept
  <2>6. CASE EnsureHeldOff \/ ConnectFails \/ OpenStream
    <3>1. UNCHANGED queue /\ job' = NoJob
      BY <2>6 DEF EnsureHeldOff, ConnectFails, OpenStream, Finish
    <3>2. hpc' = hpc \/ \E o \in {"failed", "prepare"} : hpc' = [hpc EXCEPT ![job.who] = o]
      BY <2>6 DEF EnsureHeldOff, ConnectFails, OpenStream, Answer
    <3>3. \A v \in Viewers : hpc[v] = "open" => hpc'[v] = "open" \/ OpenRunning(v)
      BY <3>2 DEF TypeOK, OpenJobsWaited, OpenRunning
    <3> QED
      BY <3>1, <3>3, <1>n DEF OpenJobsWaited, OpenQueued, OpenRunning
  <2> QED
    BY <1>1, <2>1, <2>2, <2>3, <2>4, <2>5, <2>6 DEF Worker
<1>2. ASSUME NEW v \in Viewers, Request(v) \/ Handler(v) \/ Disconnect(v) \/ Cancel(v)
      PROVE  OpenJobsWaited'
  <2>1. CASE Request(v)
    <3>1. CASE v \in AudioViewers
      <4>1. UNCHANGED <<queue, job>> /\ \A w \in Viewers : hpc[w] = "open" => hpc'[w] = "open"
        BY <2>1, <3>1 DEF Request, TypeOK
      <4> QED
        BY <4>1, OpenJobsKept
    <3>2. CASE v \notin AudioViewers
      <4> DEFINE n == Len(queue) + 1
      <4>1. /\ queue' = Append(queue, Job("open", v))
            /\ job' = job
            /\ hpc' = [hpc EXCEPT ![v] = "open"]
            /\ hpc[v] = "idle"
        BY <2>1, <3>2 DEF Request, Submit
      <4>2. /\ DOMAIN queue' = DOMAIN queue \cup {n}
            /\ \A i \in DOMAIN queue : queue'[i] = queue[i]
            /\ queue'[n].op = "open" /\ queue'[n].who = v
        BY <4>1, <1>t, <1>j, QueueSteps
      <4>3. /\ ~OpenRunning(v)
            /\ \A i \in DOMAIN queue : ~OpenQueued(i, v)
        BY <4>1 DEF OpenJobsWaited
      <4> QED
        BY <4>1, <4>2, <4>3, <3>2 DEF OpenJobsWaited, OpenQueued, OpenRunning, TypeOK
    <3> QED
      BY <3>1, <3>2
  <2>2. CASE Prepare(v) \/ PrepareFails(v) \/ Disconnect(v)
    <3>1. UNCHANGED <<queue, job>> /\ \A w \in Viewers : hpc[w] = "open" => hpc'[w] = "open"
      BY <2>2 DEF Prepare, PrepareFails, Disconnect, TypeOK
    <3> QED
      BY <3>1, OpenJobsKept
  <2>3. CASE WriteFrame(v) \/ CloseAgain(v) \/ \E k \in Tracks(v) : TakeMarker(v, k)
    <3>1. job' = job /\ \A w \in Viewers : hpc[w] = "open" => hpc'[w] = "open"
      BY <2>3 DEF WriteFrame, CloseAgain, TakeMarker, LeaveLoop, TypeOK
    <3>2. UNCHANGED queue \/ queue' = Append(queue, Job("close", v))
      BY <2>3 DEF WriteFrame, CloseAgain, TakeMarker, LeaveLoop, Submit
    <3>3. CASE UNCHANGED queue
      BY <3>1, <3>3, OpenJobsKept
    <3>4. CASE queue' = Append(queue, Job("close", v))
      BY <3>1, <3>4, <1>t, <1>j, OpenJobsOther
    <3> QED
      BY <3>2, <3>3, <3>4
  <2>4. ~Cancel(v)
    BY DEF Cancel
  <2> QED
    BY <1>2, <2>1, <2>2, <2>3, <2>4 DEF Handler
<1>3. ASSUME NEW r \in Readers, Reader(r)
      PROVE  OpenJobsWaited'
  <2>1. UNCHANGED <<queue, job, hpc>>
    BY <1>3 DEF Reader, ReaderStart, EnterReader, ReaderStopped, ReaderRecv, RecvFrame,
                RecvNothing, RecvEnds, LeaveReader
  <2> QED
    BY <2>1, OpenJobsKept
<1>4. ASSUME NEW op \in Background, SubmitBackground(op)
      PROVE  OpenJobsWaited'
  <2>1. op \in {"control", "off"}
    BY BoundAssumption
  <2>2. queue' = Append(queue, Job(op, NoViewer)) /\ UNCHANGED <<job, hpc>>
    BY <1>4 DEF SubmitBackground, Submit
  <2> QED
    BY <2>1, <2>2, <1>t, <1>j, OpenJobsOther, ViewersAssumption
<1>5. CASE SessionDies \/ EndStop \/ UNCHANGED vars
  <2>1. UNCHANGED <<queue, job, hpc>>
    BY <1>5 DEF SessionDies, EndStop, vars
  <2> QED
    BY <2>1, OpenJobsKept
<1>6. ~Terminate /\ ~SubmitClose
  BY DEF Terminate, SubmitClose
<1> QED
  BY <1>1, <1>2, <1>3, <1>4, <1>5, <1>6 DEF Next

LEMMA SlotInit == Init => SlotInv
BY ViewersAssumption DEF Init, SlotInv, OpenJobsWaited, OpenQueued, OpenRunning, NoJob, Job,
                          SlotHasAHandler


LEMMA SlotStep ==
  ASSUME PatientClients = TRUE, TypeOK, SlotInv, [Next]_vars
  PROVE  SlotInv'
<1> USE DEF workerVars, slotVars, executor, handlerVars, readerVars
<1>1. SUFFICES ASSUME down' = "up"
               PROVE  SlotInv'
  BY DEF SlotInv
<1>2. down = "up"
  BY <1>1 DEF Next, Worker, TakeJob, SkipJob, CloseStream, EnsureAlive, EnsureHeldOff, DropBegin,
     DropFinish, Connect, ConnectFails, OpenStream, Operate, SwitchOff, Request, Handler, Prepare,
     PrepareFails, WriteFrame, CloseAgain, TakeMarker, Disconnect, Cancel, Reader, ReaderStart,
     EnterReader, ReaderStopped, ReaderRecv, RecvFrame, RecvNothing, RecvEnds, LeaveReader,
     Greet, StartMotor, StopMotor, SubmitBackground, SessionDies, EndStop, Terminate, SubmitClose, vars
<1>3. /\ OpenJobsWaited
      /\ \A v \in Viewers : hpc[v] \in {"idle", "open", "prepare"} => conn[v]
      /\ streaming => owner \in Viewers \ AudioViewers
      /\ streaming => hpc[owner] \in {"prepare", "stream", "halting", "close"}
  BY <1>2 DEF SlotInv, SlotHasAHandler
<1> DEFINE Rest ==
      /\ \A v \in Viewers : hpc'[v] \in {"idle", "open", "prepare"} => conn'[v]
      /\ streaming' => owner' \in Viewers \ AudioViewers
      /\ streaming' => hpc'[owner'] \in {"prepare", "stream", "halting", "close"}
<1>4. SUFFICES Rest
  BY <1>1, <1>2, <1>3, OpenJobsStep DEF SlotInv, SlotHasAHandler
<1>5. CASE Worker
  <2>1. conn' = conn
    BY <1>5 DEF Worker, TakeJob, SkipJob, CloseStream, EnsureAlive, EnsureHeldOff, DropBegin,
         DropFinish, Connect, Greet, ConnectFails, OpenStream, Operate, SwitchOff, StartMotor,
         StopMotor
  <2>2. CASE TakeJob
    <3>1. Head(queue) = queue[1] /\ 1 \in DOMAIN queue
      BY <2>2, QueueSteps DEF TakeJob, TypeOK
    <3>2. UNCHANGED <<streaming, owner>>
      BY <2>2 DEF TakeJob
    <3>3. UNCHANGED hpc \/ Answer(Head(queue).who, "busy")
      BY <2>2 DEF TakeJob
    <3>4. hpc \in [Viewers -> {"idle", "open", "prepare", "stream", "halting", "close",
                              "done", "busy", "failed", "aborted"}]
      BY DEF TypeOK
    <3>5. \A v \in Viewers : hpc'[v] = hpc[v] \/ (hpc[v] = "open" /\ hpc'[v] = "busy")
      BY <3>3, <3>4 DEF Answer
    <3> QED
      BY <2>1, <3>2, <3>5, <1>3
  <2>3. CASE CloseStream
    <3>1. ~streaming' /\ \A v \in Viewers : hpc'[v] \in {"idle", "open", "prepare"} => hpc'[v] = hpc[v]
      BY <2>3 DEF CloseStream, GiveBack, TypeOK
    <3> QED
      BY <2>1, <3>1, <1>3
  <2>4. CASE DropBegin
    BY <2>1, <2>4, <1>3 DEF DropBegin, GiveBack
  <2>5. CASE EnsureHeldOff \/ ConnectFails
    <3>1. UNCHANGED <<streaming, owner>> /\ Answer(job.who, "failed")
      BY <2>5 DEF EnsureHeldOff, ConnectFails
    <3>2. hpc \in [Viewers -> {"idle", "open", "prepare", "stream", "halting", "close",
                              "done", "busy", "failed", "aborted"}]
      BY DEF TypeOK
    <3>3. \A v \in Viewers : hpc'[v] = hpc[v] \/ (hpc[v] = "open" /\ hpc'[v] = "failed")
      BY <3>1, <3>2 DEF Answer
    <3> QED
      BY <2>1, <3>1, <3>3, <1>3
  <2>6. CASE OpenStream
    <3>1. /\ owner' = job.who
          /\ job.who \in Viewers \ AudioViewers
          /\ hpc[job.who] = "open"
          /\ hpc' = [hpc EXCEPT ![job.who] = "prepare"]
      BY <2>6, <1>3 DEF OpenStream, Answer, OpenJobsWaited, OpenRunning
    <3> QED
      BY <2>1, <3>1, <1>3 DEF TypeOK
  <2>7. CASE SkipJob \/ EnsureAlive \/ DropFinish \/ Connect \/ Operate \/ SwitchOff
             \/ Greet \/ StartMotor \/ StopMotor
    <3>1. UNCHANGED <<streaming, owner, hpc>>
      BY <2>7 DEF SkipJob, EnsureAlive, DropFinish, Connect, Operate, SwitchOff, StartMotor,
                  StopMotor, Greet
    <3> QED
      BY <2>1, <3>1, <1>3
  <2> QED
    BY <1>5, <2>2, <2>3, <2>4, <2>5, <2>6, <2>7 DEF Worker
<1>6. ASSUME NEW v \in Viewers, Request(v) \/ Handler(v) \/ Disconnect(v) \/ Cancel(v)
      PROVE  Rest
  <2>0. UNCHANGED <<streaming, owner>>
    BY <1>6 DEF Handler, Request, Prepare, PrepareFails, WriteFrame, CloseAgain, TakeMarker,
                Disconnect, Cancel
  <2>1. CASE Request(v)
    BY <2>0, <2>1, <1>3 DEF Request, TypeOK
  <2>2. CASE Prepare(v)
    BY <2>0, <2>2, <1>3 DEF Prepare, TypeOK
  <2>3. ~PrepareFails(v) /\ ~Cancel(v)
    BY <1>2, <1>3 DEF PrepareFails, Cancel
  <2>4. CASE WriteFrame(v) \/ CloseAgain(v) \/ \E k \in Tracks(v) : TakeMarker(v, k)
    <3>1. conn' = conn /\ hpc[v] = "stream"
      BY <2>4 DEF WriteFrame, CloseAgain, TakeMarker
    <3>2. \/ hpc' = hpc
          \/ hpc' = [hpc EXCEPT ![v] = "halting"]
          \/ hpc' = [hpc EXCEPT ![v] = "close"]
          \/ v \in AudioViewers /\ hpc' = [hpc EXCEPT ![v] = "done"]
      BY <2>4 DEF WriteFrame, CloseAgain, TakeMarker, LeaveLoop
    <3>3. hpc \in [Viewers -> {"idle", "open", "prepare", "stream", "halting", "close",
                              "done", "busy", "failed", "aborted"}]
      BY DEF TypeOK
    <3>4. /\ \A w \in Viewers \ {v} : hpc'[w] = hpc[w]
          /\ \/ hpc'[v] \in {"stream", "halting", "close"}
             \/ v \in AudioViewers /\ hpc'[v] = "done"
      BY <3>1, <3>2, <3>3
    <3> QED
      BY <2>0, <3>1, <3>4, <1>3
  <2>5. CASE Disconnect(v)
    BY <2>0, <2>5, <1>3 DEF Disconnect, TypeOK
  <2> QED
    BY <1>6, <2>1, <2>2, <2>3, <2>4, <2>5 DEF Handler
<1>7. ASSUME NEW r \in Readers, Reader(r)
      PROVE  Rest
  <2>1. UNCHANGED <<streaming, owner, hpc, conn>>
    BY <1>7 DEF Reader, ReaderStart, EnterReader, ReaderStopped, ReaderRecv, RecvFrame,
                RecvNothing, RecvEnds, LeaveReader
  <2> QED
    BY <2>1, <1>3
<1>8. CASE SessionDies \/ EndStop \/ UNCHANGED vars
             \/ \E op \in Background : SubmitBackground(op)
  <2>1. UNCHANGED <<streaming, owner, hpc, conn>>
    BY <1>8 DEF SessionDies, EndStop, vars, SubmitBackground
  <2> QED
    BY <2>1, <1>3
<1>9. ~Terminate /\ ~SubmitClose
  BY <1>1 DEF Terminate, SubmitClose
<1> QED
  BY <1>5, <1>6, <1>7, <1>8, <1>9 DEF Next

\* While the bridge is up the slot is never orphaned: the viewer that took it
\* is still to run close_stream.  That needs clients that wait for their
\* headers: `prepare` stands outside the try that gives the slot back.
THEOREM SlotHandled ==
  ASSUME PatientClients = TRUE
  PROVE  Spec => []SlotHasAHandler
<1>1. IInv /\ SlotInv /\ [Next]_vars => SlotInv'
  BY SlotStep DEF IInv
<1>2. SlotInv => SlotHasAHandler
  BY DEF SlotInv, SlotHasAHandler
<1> QED
  BY <1>1, <1>2, SlotInit, Inductive, PTL DEF Spec

=============================================================================
