--------------------------- MODULE StreamSession ---------------------------
(***************************************************************************)
(* One camera of the bridge: the P2PWorker that owns its session, the      *)
(* single-threaded executor every control operation queues on, the HTTP    *)
(* handlers that stream from it and the reader threads they start.         *)
(*                                                                         *)
(* Three kinds of actor interleave here and only one of them is            *)
(* serialised.  Jobs (open_stream, close_stream, refresh, apply) run one   *)
(* at a time, in the order they were submitted, on the executor.  The      *)
(* handlers run on the event loop and wait for their jobs.  The readers    *)
(* run on threads of their own and take no lock: all that holds them and   *)
(* the worker apart is the stop event and the count of readers inside the  *)
(* SDK.  SIGTERM ends all of it: handlers are cancelled, the session closed. *)
(***************************************************************************)
EXTENDS Naturals, Sequences, FiniteSets

CONSTANTS
  Viewers,         \* HTTP requests that read from the camera
  AvViewers,       \* those asking for /av: two readers, video and audio
  AudioViewers,    \* those asking for /audio: attach to a running stream
  Background,      \* bound: which other jobs arrive, "control" and "off"
  MaxDeaths,       \* bound: how often the P2P session may die
  MayTerminate,    \* bound: whether SIGTERM arrives
  MayRefuse,       \* bound: which sends a live session may refuse to carry
  PatientClients,  \* assumption: no client hangs up before its headers go out
  HungReaders,     \* whether a reader may outlast READER_EXIT_TIMEOUT
  AudioEnabled,    \* FURBO_AUDIO: /stream asks the camera for sound as well
  NoViewer         \* the owner of a free slot

ASSUME ViewersAssumption ==
  /\ IsFiniteSet(Viewers)
  /\ AvViewers \subseteq Viewers
  /\ AudioViewers \subseteq Viewers
  /\ AvViewers \cap AudioViewers = {}
  /\ NoViewer \notin Viewers

ASSUME BoundAssumption ==
  /\ Background \subseteq {"control", "off"}
  /\ MaxDeaths \in Nat
  /\ MayTerminate \in BOOLEAN
  /\ MayRefuse \subseteq {"start", "video", "motor"}
  /\ PatientClients \in BOOLEAN
  /\ HungReaders \in BOOLEAN
  /\ AudioEnabled \in BOOLEAN

VARIABLES
  session,      \* worker._p2p: 0 for None, else the number of the session
  alive,        \* what _p2p.alive() would answer
  opened,       \* how many sessions have been established so far
  needsLogin,   \* worker.needs_login: reconnecting is being held off
  streaming,    \* worker._streaming: the single video slot is taken
  owner,        \* history: the viewer whose open_stream took the slot
  stop,         \* worker._stream_stop
  readers,      \* worker._readers
  serving,      \* the session the camera itself is sending video on, or 0
  turning,      \* the motor of a camera that pans until stopped is running
  unheard,      \* history: what the camera goes on doing because the stop sent
                \* for it on this session, alive, came back refused
  queue,        \* jobs submitted to the executor, oldest first
  job,          \* the job the executor thread is running
  wpc,          \* where that thread is in it
  wasStreaming, \* local of _drop
  hpc,          \* where each request handler is
  conn,         \* whether each client is still connected
  pending,      \* a frame is waiting in the viewer's queue
  marker,       \* tracks whose end-of-stream marker is waiting there
  rpc,          \* where each reader thread is
  rsess,        \* the session each reader took from worker._p2p
  down          \* serve(): "up", "stopping" (SIGTERM), "closing" (close queued)

workerVars  == <<session, alive, opened, needsLogin, serving, turning, unheard>>
slotVars    == <<streaming, owner, stop>>
executor    == <<queue, job, wpc, wasStreaming, down>>
handlerVars == <<hpc, conn, pending, marker>>
readerVars  == <<readers, rpc, rsess>>
vars == <<workerVars, slotVars, executor, handlerVars, readerVars>>

-----------------------------------------------------------------------------
Tracks(v) == IF v \in AudioViewers THEN {"audio"}
             ELSE IF v \in AvViewers THEN {"video", "audio"} ELSE {"video"}

Readers == Viewers \X {"video", "audio"}

ReadersOf(v) == {<<v, k>> : k \in Tracks(v)}

\* The readers worker._readers counts: between _enter_reader and _leave_reader.
Inside == {r \in Readers : rpc[r] \in {"check", "recv"}}

Job(op, v) == [op |-> op, who |-> v]
NoJob == Job("none", NoViewer)
Jobs == [op : {"none", "open", "close", "control", "off", "shutdown"},
         who : Viewers \cup {NoViewer}]

\* worker._audio: the running stream asked for sound as well as pictures.
Audio == streaming /\ (owner \in AvViewers \/ AudioEnabled)

Init ==
  /\ session = 0 /\ alive = FALSE /\ opened = 0 /\ needsLogin = FALSE
  /\ streaming = FALSE /\ owner = NoViewer /\ stop = FALSE
  /\ readers = 0 /\ serving = 0 /\ unheard = {}
  /\ turning \in BOOLEAN  \* an earlier run of the bridge may have died in a pan
  /\ queue = <<>> /\ job = NoJob /\ wpc = "idle" /\ wasStreaming = FALSE
  /\ down = "up"
  /\ hpc = [v \in Viewers |-> "idle"]
  /\ conn = [v \in Viewers |-> TRUE]
  /\ pending = [v \in Viewers |-> FALSE]
  /\ marker = [v \in Viewers |-> {}]
  /\ rpc = [r \in Readers |-> "none"]
  /\ rsess = [r \in Readers |-> 0]

-----------------------------------------------------------------------------
(* The executor thread.  A job is over when `job` is NoJob again.          *)

Submit(j) == queue' = Append(queue, j)

Finish ==
  /\ job' = NoJob
  /\ wpc' = "idle"

\* Mutant: the slot is given back without setting the stop event.
GiveBackSilently == /\ streaming' = FALSE
                    /\ owner' = NoViewer
                    /\ UNCHANGED stop

\* What giving the slot back always does, in close_stream and in _drop.
GiveBack == /\ streaming' = FALSE
            /\ owner' = NoViewer
            /\ stop' = TRUE

\* A live session carries a stop to the camera, or send returns a negative code
\* that none of the stops looks at: the camera goes on as it was.
Taken(what) == unheard' = unheard \ {what}
Refused(what) == what \in MayRefuse /\ unheard' = unheard \cup {what}

\* Mutant: the camera is never told to stop.
StopVideoNot(running) == UNCHANGED <<serving, unheard>>

\* IPCAM_STOP, sent only for a stream that was running; to a camera that sends
\* nothing on this session it makes no difference.
StopVideo(running) ==
  IF running /\ alive /\ serving = session
  THEN \/ serving' = 0 /\ Taken("video")
       \/ UNCHANGED serving /\ Refused("video")
  ELSE UNCHANGED <<serving, unheard>>

\* Mutant: the channel is closed without waiting for the readers.
NoWait == TRUE

\* _drop's wait: no reader inside the SDK, or READER_EXIT_TIMEOUT has run out.
ReadersGone == readers = 0 \/ HungReaders

\* Cancelling a task that awaits run() cancels its job if it has not started:
\* it keeps its place in the executor's queue but will be skipped.
Withdraw(v) == [i \in DOMAIN queue |-> IF queue[i].who = v THEN NoJob ELSE queue[i]]

\* Mutant: a handler whose open_stream failed is never answered.
AnswerSuccess(v, outcome) ==
  hpc' = IF v \in Viewers /\ outcome = "prepare" THEN [hpc EXCEPT ![v] = outcome] ELSE hpc

\* run() hands the outcome of open_stream back to the handler awaiting it.
Answer(v, outcome) ==
  hpc' = IF v \in Viewers /\ hpc[v] = "open" THEN [hpc EXCEPT ![v] = outcome] ELSE hpc

\* The next job starts: open_stream is refused while the slot is taken, and
\* every job but close_stream and close needs a session first.
TakeJob ==
  /\ wpc = "idle"
  /\ queue # <<>>
  /\ Head(queue).op \notin {"close", "none"}
  /\ queue' = Tail(queue)
  /\ IF Head(queue).op = "open" /\ streaming
     THEN Finish /\ Answer(Head(queue).who, "busy")
     ELSE /\ job' = Head(queue)
          /\ wpc' = IF Head(queue).op = "shutdown" THEN "close" ELSE "ensure"
          /\ UNCHANGED hpc
  /\ UNCHANGED <<workerVars, slotVars, wasStreaming, down, conn, pending, marker, readerVars>>

SkipJob ==
  /\ wpc = "idle"
  /\ queue # <<>>
  /\ Head(queue) = NoJob
  /\ queue' = Tail(queue)
  /\ UNCHANGED <<workerVars, slotVars, job, wpc, wasStreaming, down, handlerVars, readerVars>>

\* close_stream: the event is set whatever happens, the slot only given back
\* (and the camera only told) when it is taken.
CloseStream ==
  /\ wpc = "idle"
  /\ queue # <<>>
  /\ Head(queue).op = "close"
  /\ queue' = Tail(queue)
  /\ GiveBack
  /\ StopVideo(streaming)
  /\ LET v == Head(queue).who
     IN hpc' = [hpc EXCEPT ![v] = IF @ = "halting" THEN "stream"
                                  ELSE IF @ = "close" THEN "done" ELSE @]
  /\ UNCHANGED <<session, alive, opened, needsLogin, turning, job, wpc, wasStreaming, down,
                 conn, pending, marker, readerVars>>

\* _ensure with a live session: nothing to do.
EnsureAlive ==
  /\ wpc = "ensure"
  /\ alive
  /\ wpc' = "act"
  /\ UNCHANGED <<workerVars, slotVars, queue, job, wasStreaming, down, handlerVars, readerVars>>

\* _ensure while a refused login is being held off: give up, drop nothing.
EnsureHeldOff ==
  /\ wpc = "ensure"
  /\ ~alive
  /\ needsLogin
  /\ Finish
  /\ Answer(job.who, "failed")
  /\ UNCHANGED <<workerVars, slotVars, queue, wasStreaming, down, conn, pending, marker,
                 readerVars>>

\* The first half of _drop, for a reconnect or for close(): stop the readers,
\* free the slot, start waiting.
DropBegin ==
  /\ \/ wpc = "ensure" /\ ~alive
     \/ wpc = "close"
  /\ GiveBack
  /\ wasStreaming' = streaming
  /\ wpc' = "drop"
  /\ UNCHANGED <<workerVars, queue, job, down, handlerVars, readerVars>>

\* The second half: the channel is closed once no reader is inside the SDK,
\* or once READER_EXIT_TIMEOUT has run out with one still there.
DropFinish ==
  /\ wpc = "drop"
  /\ ReadersGone
  /\ session' = 0
  /\ alive' = FALSE
  /\ StopVideo(wasStreaming)
  /\ IF job.op = "shutdown"
     THEN Finish
     ELSE wpc' = "connect" /\ UNCHANGED job
  /\ wasStreaming' = FALSE
  /\ UNCHANGED <<opened, needsLogin, turning, slotVars, queue, down, handlerVars,
                 readerVars>>

\* Credentials fetched, session connected, AV channel started.
Connect ==
  /\ wpc = "connect"
  /\ opened' = opened + 1
  /\ session' = opened + 1
  /\ alive' = TRUE
  /\ unheard' = {}
  /\ wpc' = "greet"
  /\ UNCHANGED <<needsLogin, serving, turning, slotVars, queue, job, wasStreaming, down,
                 handlerVars, readerVars>>

\* Mutant: a camera is not told to stop turning.
HaltPanNot == UNCHANGED <<turning, unheard>>

\* _halt_pan: one packet, that a dead session does not carry and that is
\* harmless to a camera already still.
HaltPan ==
  IF alive /\ turning
  THEN \/ turning' = FALSE /\ Taken("motor")
       \/ UNCHANGED turning /\ Refused("motor")
  ELSE UNCHANGED <<turning, unheard>>

\* The first thing a new session does is stop a camera that still turns.
Greet ==
  /\ wpc = "greet"
  /\ HaltPan
  /\ needsLogin' = FALSE
  /\ wpc' = "act"
  /\ UNCHANGED <<session, alive, opened, serving, slotVars, queue, job, wasStreaming, down,
                 handlerVars, readerVars>>

\* Any of it failed; a refused login also starts holding off.
ConnectFails ==
  /\ wpc = "connect"
  /\ needsLogin' \in {needsLogin, TRUE}
  /\ Finish
  /\ Answer(job.who, "failed")
  /\ UNCHANGED <<session, alive, opened, serving, turning, unheard, slotVars, queue,
                 wasStreaming, down, conn, pending, marker, readerVars>>

\* open_stream with a session: stop, settle, start, clear the event.  Neither
\* send is looked at: a start the camera never got leaves it as the stop did.
\* The settle time is far longer than a reader's 5 ms pass, so a reader that
\* was told to stop has left by the time the event is cleared.
OpenStream ==
  /\ wpc = "act"
  /\ job.op = "open"
  /\ stop => ReadersGone
  /\ serving' \in IF ~alive THEN {serving}
                  ELSE IF "start" \in MayRefuse THEN {session, 0, serving} ELSE {session}
  /\ Taken("video")
  /\ stop' = FALSE
  /\ streaming' = TRUE
  /\ owner' = job.who
  /\ Finish
  /\ Answer(job.who, "prepare")
  /\ UNCHANGED <<session, alive, opened, needsLogin, turning, queue, wasStreaming, down,
                 conn, pending, marker, readerVars>>

\* refresh, toss, treat_sound, a pan that stops by itself, and apply for any
\* other setting: commands on the session that leave the stream as it is.
Operate ==
  /\ wpc = "act"
  /\ job.op = "control"
  /\ Finish
  /\ UNCHANGED <<workerVars, slotVars, queue, wasStreaming, down, handlerVars, readerVars>>

\* apply({camera_on: False}): ends the reader, leaves the slot to its handler.
SwitchOff ==
  /\ wpc = "act"
  /\ job.op = "off"
  /\ stop' = TRUE
  /\ Finish
  /\ UNCHANGED <<workerVars, streaming, owner, queue, wasStreaming, down, handlerVars, readerVars>>

\* _pan_until_stopped: the motor is set going and the executor waits.  If that
\* could not be sent, nothing is moving and the pan ends as in Operate.
StartMotor ==
  /\ wpc = "act"
  /\ job.op = "control"
  /\ alive
  /\ turning' = TRUE
  /\ Taken("motor")
  /\ wpc' = "turn"
  /\ UNCHANGED <<session, alive, opened, needsLogin, serving, slotVars, queue, job, wasStreaming,
                 down, handlerVars, readerVars>>

StopMotor ==
  /\ wpc = "turn"
  /\ HaltPan
  /\ Finish
  /\ UNCHANGED <<session, alive, opened, needsLogin, serving, slotVars, queue, wasStreaming,
                 down, handlerVars, readerVars>>

-----------------------------------------------------------------------------
(* The event loop: request handlers, _refresh_loop, settings requests.      *)

\* get_stream and get_av queue open_stream; get_audio only attaches.
Request(v) ==
  /\ hpc[v] = "idle"
  /\ down = "up"
  /\ IF v \in AudioViewers
     THEN hpc' = [hpc EXCEPT ![v] = "prepare"] /\ UNCHANGED queue
     ELSE hpc' = [hpc EXCEPT ![v] = "open"] /\ Submit(Job("open", v))
  /\ UNCHANGED <<workerVars, slotVars, job, wpc, wasStreaming, down, conn, pending, marker,
                 readerVars>>

\* The headers go out and the readers start.
Prepare(v) ==
  /\ hpc[v] = "prepare"
  /\ conn[v]
  /\ hpc' = [hpc EXCEPT ![v] = "stream"]
  /\ rpc' = [r \in Readers |-> IF r \in ReadersOf(v) THEN "start" ELSE rpc[r]]
  /\ UNCHANGED <<workerVars, slotVars, executor, conn, pending, marker, readers, rsess>>

\* The client has gone before its headers: prepare() raises.  It stands
\* outside the try whose finally would have run close_stream.
PrepareFails(v) ==
  /\ hpc[v] = "prepare"
  /\ ~conn[v]
  /\ hpc' = [hpc EXCEPT ![v] = "aborted"]
  /\ UNCHANGED <<workerVars, slotVars, executor, conn, pending, marker, readerVars>>

\* Mutant: a handler leaves its loop without close_stream.
LeaveLoopHolding(v) == hpc' = [hpc EXCEPT ![v] = "done"] /\ UNCHANGED queue

\* Every way out of the loop runs close_stream, except for get_audio's.
LeaveLoop(v) ==
  IF v \in AudioViewers
  THEN hpc' = [hpc EXCEPT ![v] = "done"] /\ UNCHANGED queue
  ELSE hpc' = [hpc EXCEPT ![v] = "close"] /\ Submit(Job("close", v))

\* A frame is taken and written; writing to a client that has gone raises.
WriteFrame(v) ==
  /\ hpc[v] = "stream"
  /\ pending[v]
  /\ pending' = [pending EXCEPT ![v] = FALSE]
  /\ IF conn[v] THEN UNCHANGED <<hpc, queue>> ELSE LeaveLoop(v)
  /\ UNCHANGED <<workerVars, slotVars, job, wpc, wasStreaming, down, conn, marker, readerVars>>

\* Mutant: the sound goes on when the picture has ended.
StopsNothing(v, k) == FALSE

\* The end of an /av request's picture stops the sound; a /stream has none.
StopsSound(v, k) == k = "video" /\ v \in AvViewers

\* A marker is taken.  The loop ends with the last track, or stops the stream
\* first and goes on until the other track has ended too.
TakeMarker(v, k) ==
  LET last == \A j \in Tracks(v) \ {k} : rpc[<<v, j>>] = "ended" /\ j \notin marker[v]
  IN
  /\ hpc[v] = "stream"
  /\ k \in marker[v]
  /\ marker' = [marker EXCEPT ![v] = @ \ {k}]
  /\ IF StopsSound(v, k)
     THEN hpc' = [hpc EXCEPT ![v] = "halting"] /\ Submit(Job("close", v))
     ELSE IF last THEN LeaveLoop(v) ELSE UNCHANGED <<hpc, queue>>
  /\ UNCHANGED <<workerVars, slotVars, job, wpc, wasStreaming, down, conn, pending, readerVars>>

\* Back from that first close_stream with no track left: the finally clause
\* runs close_stream a second time.
CloseAgain(v) ==
  /\ hpc[v] = "stream"
  /\ v \in AvViewers
  /\ \A r \in ReadersOf(v) : rpc[r] = "ended"
  /\ marker[v] = {}
  /\ LeaveLoop(v)
  /\ UNCHANGED <<workerVars, slotVars, job, wpc, wasStreaming, down, conn, pending, marker,
                 readerVars>>

\* _refresh_loop waits for its refresh before it asks for the next one, and
\* the controls behave like it: one job of each kind at a time (bound).
SubmitBackground(op) ==
  /\ down = "up"
  /\ Job(op, NoViewer) \notin {job} \cup {queue[i] : i \in DOMAIN queue}
  /\ Submit(Job(op, NoViewer))
  /\ UNCHANGED <<workerVars, slotVars, job, wpc, wasStreaming, down, handlerVars, readerVars>>

\* SIGTERM: nothing new is accepted, and runner.cleanup() waits for handlers.
Terminate ==
  /\ down = "up"
  /\ MayTerminate
  /\ down' = "stopping"
  /\ UNCHANGED <<workerVars, slotVars, queue, job, wpc, wasStreaming, handlerVars, readerVars>>

\* runner.cleanup() has waited long enough: the handler is cancelled wherever
\* it is awaiting.  Only inside the try does that still run close_stream, and
\* cancelled while it awaits that the handler withdraws it.
Cancel(v) ==
  /\ down = "stopping"
  /\ \/ hpc[v] = "stream" /\ LeaveLoop(v)
     \/ /\ hpc[v] = "halting"
        /\ hpc' = [hpc EXCEPT ![v] = "close"]
        /\ queue' = Append(Withdraw(v), Job("close", v))
     \/ /\ hpc[v] = "close"
        /\ hpc' = [hpc EXCEPT ![v] = "done"]
        /\ queue' = Withdraw(v)
     \/ /\ hpc[v] \in {"open", "prepare"}
        /\ hpc' = [hpc EXCEPT ![v] = "aborted"]
        /\ queue' = Withdraw(v)
  /\ UNCHANGED <<workerVars, slotVars, job, wpc, wasStreaming, down, conn, pending, marker,
                 readerVars>>

\* Mutant: serve() ends without queueing the close.
SubmitCloseLost ==
  /\ down = "stopping"
  /\ down' = "closing"
  /\ UNCHANGED <<workerVars, slotVars, queue, job, wpc, wasStreaming, handlerVars, readerVars>>

\* The handlers have been dealt with: close() is queued behind their jobs.
SubmitClose ==
  /\ down = "stopping"
  /\ \A v \in Viewers : hpc[v] \notin {"open", "prepare", "stream", "halting"}
  /\ down' = "closing"
  /\ Submit(Job("shutdown", NoViewer))
  /\ UNCHANGED <<workerVars, slotVars, job, wpc, wasStreaming, handlerVars, readerVars>>

-----------------------------------------------------------------------------
(* A reader thread: iter_frames or iter_audio, and the pump around it.     *)

\* Mutant: a track ends without its marker.
EndTrackUnmarked(r) == rpc' = [rpc EXCEPT ![r] = "ended"] /\ UNCHANGED marker

\* The generator ends and pump() queues the track's marker.
EndTrack(r) ==
  /\ rpc' = [rpc EXCEPT ![r] = "ended"]
  /\ marker' = [marker EXCEPT ![r[1]] = @ \cup {r[2]}]

\* worker._p2p is read outside the lock and before the reader is counted.
ReaderStart(r) ==
  /\ rpc[r] = "start"
  /\ IF session = 0 \/ (r[2] = "audio" /\ ~Audio)
     THEN EndTrack(r) /\ UNCHANGED rsess
     ELSE /\ rpc' = [rpc EXCEPT ![r] = "enter"]
          /\ rsess' = [rsess EXCEPT ![r] = session]
          /\ UNCHANGED marker
  /\ UNCHANGED <<workerVars, slotVars, executor, hpc, conn, pending, readers>>

\* _enter_reader, under the condition's lock.
EnterReader(r) ==
  /\ rpc[r] = "enter"
  /\ readers' = readers + 1
  /\ rpc' = [rpc EXCEPT ![r] = "check"]
  /\ UNCHANGED <<workerVars, slotVars, executor, handlerVars, rsess>>

\* The generator ends, and its locals with it.
LeaveReader(r) ==
  /\ readers' = readers - 1
  /\ EndTrack(r)
  /\ rsess' = [rsess EXCEPT ![r] = 0]
  /\ UNCHANGED <<workerVars, slotVars, executor, hpc, conn, pending>>

\* while not stop.is_set(): into the SDK, or out of the loop.
ReaderStopped(r) ==
  /\ rpc[r] = "check"
  /\ stop
  /\ LeaveReader(r)

ReaderRecv(r) ==
  /\ rpc[r] = "check"
  /\ ~stop
  /\ rpc' = [rpc EXCEPT ![r] = "recv"]
  /\ UNCHANGED <<workerVars, slotVars, executor, handlerVars, readers, rsess>>

\* The SDK call returns a frame of the stream the camera is sending.  Once its
\* handler has left the loop nobody takes it.
RecvFrame(r) ==
  /\ rpc[r] = "recv"
  /\ alive /\ rsess[r] = session /\ serving = session
  /\ rpc' = [rpc EXCEPT ![r] = "check"]
  /\ pending' = [pending EXCEPT ![r[1]] = hpc[r[1]] \in {"stream", "halting"}]
  /\ UNCHANGED <<workerVars, slotVars, executor, hpc, conn, marker, readers, rsess>>

\* It returns nothing yet: sleep 5 ms and look again.
RecvNothing(r) ==
  /\ rpc[r] = "recv"
  /\ rpc' = [rpc EXCEPT ![r] = "check"]
  /\ UNCHANGED <<workerVars, slotVars, executor, handlerVars, readers, rsess>>

\* It returns an error (the session is dead or was closed), or the picture has
\* been missing for longer than FIRST_/IDLE_FRAME_TIMEOUT.
RecvEnds(r) ==
  /\ rpc[r] = "recv"
  /\ r[2] = "video" \/ ~alive \/ rsess[r] # session
  /\ LeaveReader(r)

-----------------------------------------------------------------------------
(* The world outside: clients, the network and the camera.                 *)

Disconnect(v) ==
  /\ conn[v]
  /\ hpc[v] \notin {"idle", "done", "busy", "failed", "aborted"}
  /\ PatientClients => hpc[v] \notin {"open", "prepare"}
  /\ conn' = [conn EXCEPT ![v] = FALSE]
  /\ UNCHANGED <<workerVars, slotVars, executor, hpc, pending, marker, readerVars>>

SessionDies ==
  /\ alive
  /\ opened <= MaxDeaths
  /\ alive' = FALSE
  /\ UNCHANGED <<session, opened, needsLogin, serving, turning, unheard, slotVars, executor,
                 handlerVars, readerVars>>

\* A motor that is not stopped stops at its end.
EndStop ==
  /\ turning
  /\ turning' = FALSE
  /\ unheard' = unheard \ {"motor"}
  /\ UNCHANGED <<session, alive, opened, needsLogin, serving, slotVars, executor,
                 handlerVars, readerVars>>

Worker ==
  \/ TakeJob \/ SkipJob \/ CloseStream
  \/ EnsureAlive \/ EnsureHeldOff \/ DropBegin \/ DropFinish \/ Connect \/ Greet \/ ConnectFails
  \/ OpenStream \/ Operate \/ SwitchOff \/ StartMotor \/ StopMotor

Handler(v) ==
  \/ Prepare(v) \/ PrepareFails(v) \/ WriteFrame(v) \/ CloseAgain(v)
  \/ \E k \in Tracks(v) : TakeMarker(v, k)

Reader(r) ==
  \/ ReaderStart(r) \/ EnterReader(r) \/ ReaderStopped(r) \/ ReaderRecv(r)
  \/ RecvFrame(r) \/ RecvNothing(r) \/ RecvEnds(r)

Next ==
  \/ Worker
  \/ \E v \in Viewers : Request(v) \/ Handler(v) \/ Disconnect(v)
  \/ \E r \in Readers : Reader(r)
  \/ \E op \in Background : SubmitBackground(op)
  \/ SessionDies \/ EndStop
  \/ Terminate \/ SubmitClose \/ \E v \in Viewers : Cancel(v)

Spec == Init /\ [][Next]_vars

\* The executor, the event loop and every reader thread keep running; a marker
\* in a viewer's queue gets its turn behind the frames before it; and a reader
\* that keeps calling the SDK is in the end given a frame or gives up.
Fairness ==
  /\ WF_vars(Worker)
  /\ \A v \in Viewers : WF_vars(Handler(v))
  /\ \A v \in Viewers : WF_vars(\E k \in Tracks(v) : TakeMarker(v, k))
  /\ \A r \in Readers : WF_vars(Reader(r))
  /\ \A r \in Readers : SF_vars(RecvFrame(r) \/ RecvEnds(r))
  /\ WF_vars(SubmitClose)
  /\ \A v \in Viewers : WF_vars(Cancel(v))

FairSpec == Spec /\ Fairness

-----------------------------------------------------------------------------
(* Properties.                                                             *)

\* The type invariant: the reader count in particular never goes below zero,
\* whatever the order in which readers come, go and are dropped.
TypeOK ==
  /\ session \in Nat /\ opened \in Nat /\ serving \in Nat
  /\ alive \in BOOLEAN /\ needsLogin \in BOOLEAN /\ streaming \in BOOLEAN
  /\ stop \in BOOLEAN /\ wasStreaming \in BOOLEAN /\ turning \in BOOLEAN
  /\ unheard \in SUBSET {"video", "motor"}
  /\ owner \in Viewers \cup {NoViewer}
  /\ readers \in Nat
  /\ queue \in Seq(Jobs) /\ job \in Jobs
  /\ wpc \in {"idle", "ensure", "drop", "connect", "greet", "close", "act", "turn"}
  /\ down \in {"up", "stopping", "closing"}
  /\ hpc \in [Viewers -> {"idle", "open", "prepare", "stream", "halting", "close",
                          "done", "busy", "failed", "aborted"}]
  /\ conn \in [Viewers -> BOOLEAN]
  /\ pending \in [Viewers -> BOOLEAN]
  /\ marker \in [Viewers -> SUBSET {"video", "audio"}]
  /\ rpc \in [Readers -> {"none", "start", "enter", "check", "recv", "ended"}]
  /\ rsess \in [Readers -> Nat]

\* The channel is never closed, nor a new one put in its place, while a reader
\* is inside the SDK on it: that takes the whole process down.  _drop and the
\* reader count promise it as long as no reader outlasts READER_EXIT_TIMEOUT.
NoCloseUnderReader ==
  [][\A r \in Readers :
       (rpc[r] = "recv" /\ session # 0 /\ rsess[r] = session) => session' = session]_vars

\* While the slot is free nobody may go on reading: every reader still inside
\* the SDK has been told to stop (close_stream and _drop set the event).
FreeSlotStopsReaders == (~streaming /\ readers > 0) => stop

\* While nothing is being done on it, a camera that is reachable does only what
\* somebody still wants, unless the very session it is reached on refused to
\* carry the stop.  It serves video only to a viewer that holds the slot, every
\* way of giving that back telling the camera first (close_stream, _drop); and
\* its motor does not run, whatever became of the session, or of the run of the
\* bridge, that set it going (_pan_until_stopped, _ensure).  A refused stop is
\* not sent again before the next stream, pan or session.
CameraAtRest ==
  wpc = "idle" /\ alive =>
    /\ serving = session => streaming \/ "video" \in unheard
    /\ turning => "motor" \in unheard

\* A live session is never closed with the camera still sending to it, unless
\* that session refused to carry the stop: the camera would refuse the next
\* start until its own timeout (_drop).
CameraToldBeforeClose ==
  [][(alive /\ session # 0 /\ session' = 0)
       => serving' # session \/ "video" \in unheard']_vars

\* The slot is never orphaned: the viewer that took it has a handler that has
\* still to run close_stream.  Otherwise every later viewer is refused as busy
\* with nobody watching.
SlotHasAHandler ==
  (streaming /\ down = "up")
    => hpc[owner] \in {"prepare", "stream", "halting", "close"}

\* Every request for the stream is answered, with a stream or a refusal.
Answered == \A v \in Viewers : hpc[v] = "open" ~> hpc[v] # "open"

\* Once its client has gone, a viewer gives the slot back.
SlotFreed ==
  \A v \in Viewers :
    (streaming /\ owner = v /\ ~conn[v]) ~> ~(streaming /\ owner = v)

\* A response whose picture has ended comes to its end: the marker reaches it
\* and, for /av, stopping the stream ends the sound as well.  (A viewer that
\* takes the slot before the sound's reader has looked at the flag clears it.)
PictureEndsResponse ==
  \A v \in Viewers \ AudioViewers :
    rpc[<<v, "video">>] = "ended"
      ~> hpc[v] \in {"done", "aborted"} \/ (streaming /\ owner # v)

\* SIGTERM closes the session: the shutdown job ends with no session held.
ShutdownCloses == (down # "up") ~> [](session = 0)
=============================================================================
