# Furbo bridge and integration: formal model

This directory holds TLA+ models of ha-furbo: the **add-on** (`furbo-bridge/`), which
keeps one peer-to-peer (P2P) session per camera open through the vendor's SDK and serves
it over HTTP, and the **integration** (`custom_components/furbo/`), which runs inside
Home Assistant, polls the Furbo cloud and drives the cameras through the add-on. TLC
checks the models on small instances; TLAPS proves the safety properties of all of them
for every value of the constants.

Paths below are relative to the repository. `B` is `furbo-bridge/src/furbo_bridge.py`,
`F` is `furbo-bridge/src/furbo_p2p.py`, `H/` is `custom_components/furbo/`.

## 1. Inventory

### The add-on

| Part | State | Operations | What is hard | What makes it correct |
|---|---|---|---|---|
| `P2PWorker` (B 279-917), one per camera | `_p2p`, `_streaming`, `_stream_stop`, `_readers`, `needs_login`, `state` | `open_stream`, `close_stream`, `refresh`, `apply`, `pan`, `toss`, `close`, all on a one-thread executor | reader threads use `_p2p` without the lock; a reconnect closes it; handlers run on the event loop and only wait for jobs; a camera that pans until stopped may lose its session while it turns | nobody is inside the SDK on a session that is closed; one viewer at a time and the slot always comes back; the camera is told to stop sending and turning |
| HTTP handlers (B 1029-1456) | per request: queue, readers, format | `/stream`, `/av`, `/audio`, settings, pan, toss, cloud token | a client that leaves, or shutdown, at any await | every request is answered, every ended picture ends its response |
| `FrameQueue` and the pumps (B 1267-1274, 1458-1503) | deque, frame count, drop count | `offer` (scheduled from threads), `get` | threads outrun the viewer | bounded; order kept; an end marker is never lost |
| Audio decision of `/av` (B 1290-1433, `furbo_audio.py`) | `audio_format`, `audio_retry_at`, held frames | hold, probe with ffmpeg, begin, emit | the queue fills while a decoder is asked; the sound may end first | nothing taken is lost or overtaken; no false sound track; the picture is not held for ever |
| Settings (B 463-622, F 1149-1411) | decoder's `state`, worker's `state` | `apply`, full sweep, light refresh, read-back | late answers, refusals of two kinds, sends that fail, changes from the phone app, lost sessions | the cache shows what the camera took, as far as the bridge looks, and agrees with it in the end |
| Cloud session (F 657-972, B 332-459) | session file, `_LOGIN_LOCK`, hold-off | `silent_relogin`, `fetch_p2p_credentials`, `current_credentials` | several cameras and requests notice one dead token at once | one login per dead token; the newest token is kept; every camera recovers |
| `run.sh` and `cloud_login` (F 542-597) | files in `/data` | reset, two-step login, relogin | several starts, each of which may be killed between two writes or in the middle of one | one reset per request for one; a login made is not thrown away; one device identity |
| Transport stream (`furbo_ts.py`, `emit` of `get_av`) | continuity counters, time of the last tables, origin of the clock | `frame`, `_packets`, `_tables` | stuffing to the byte; two tracks on one clock; readers that join late | a reader has every frame whole and in time from the next tables on |
| Camera registry, go2rtc configuration, request validation, command line | fixed at start, or none | | | not modelled, see section 8 |

### The integration

| Part | State | Operations | What is hard | What makes it correct |
|---|---|---|---|---|
| Account entry (`H/coordinator.py`, `H/__init__.py`, `H/config_flow.py`) | token in the entry and in the client, renewal budget, notice, flow | set-up, poll, renewal from the bridge, sign-in flow, reload | they interleave, and the token dies in between | one token; nobody is asked too early; the entry is not left unattended |
| Binding of cameras (`H/discovery.py`, `H/__init__.py`, `H/bridge.py`, `H/entity.py`) | discovered bridge, bridge per camera, `_scoped`, retry timer | discovery, binding, status polls, presses | the add-on may be starting, old, or serve some cameras only | no entity moves or shows another camera; all are bound in the end |
| Polls of the account (`_async_fetch`, `_async_calendar`, `_async_diary`, `H/switch.py`) | `coordinator.data`, today's figures, the clocks of two hourly calls, alert switches | a refresh, call by call; a switch's write | midnight, dead tokens and writes between any two calls; reloads lose the clocks | no figures of a day that is over; the slow host is asked when due and only then; what is shown agrees with the cloud in the end |
| Diary videos (`H/diary.py`, the save-diary button) | `diary_lock`, a partial and a final file per day | press: report, what is missing, download, move into place | downloads break off; presses fail or are cancelled; a reload brings a second lock | what is in the media folder is whole; no day is fetched twice; every day is saved in the end |
| API client, other entities, services, diagnostics | none of their own | | | not modelled, section 8 |

### How they interact

Home Assistant polls the cloud directly and the add-on over HTTP
(`/api/cameras/<id>/status`). When the cloud refuses the integration's token it asks the
add-on's `/api/cloud-token`, which may log in with the stored credentials under
`_LOGIN_LOCK`; the cameras' workers do the same from their executor threads when they
reconnect. The session file is what all of them share, and what `run.sh` makes, keeps or
clears. go2rtc and Home Assistant read `/stream`, `/av` and `/audio`; each such request
waits for jobs on its camera's executor and is fed by reader threads of its own through
a `FrameQueue`.

## 2. Plan

Done, in this order: the session and its stream (`StreamSession`), the queue and what it
promises (`FrameQueue` implementing `TrackChannel`), the settings (`SettingsCache`), the
shared login (`CloudLogin`), the account entry (`AccountRenewal`), the start of the
add-on (`AddOnStart`), the binding of cameras (`CameraBinding`), the `/av` response
on top of the queue (`AvResponse`, which EXTENDS `FrameQueue` and is proved to use it as
specified), the polls of the account (`AccountPolls`), the diary's videos (`DiarySave`),
the motor of a camera that pans until it is stopped (in `StreamSession`) and the packets of
a response (`TransportStream`).

Left:

1. `AccountPolls` composed with `AccountRenewal`, whose polls it refines: here a renewal
   is one step, there a poll is.
2. Settings written through the entities, composed with `CameraBinding`.

Every safety property that a run checks is proved as well (section 6); what is left to
prove is what these compositions will state.

## 3. Modules

`MC*.tla` only give model values and are instantiated by the `.cfg` files of the same
stem; `*Proofs.tla` hold theorems. Modules that are proved about or checked together
(`FrameQueue`, `AvResponse` and `TransportStream`; `AccountRenewal` and `AccountPolls`)
have no names in common, so that one module can extend both.

To check one: `tlc -config MCCloudLogin.cfg MCCloudLogin.tla`, and `tlapm
CloudLoginProofs.tla` for its proofs.

**StreamSession** - one camera: worker, executor, handlers, readers. `queue`, `job` and
`wpc` are the executor (`TakeJob` to `Operate`); a job is cut into steps where another
thread can see its effect: `_ensure` (`EnsureAlive`, `EnsureHeldOff`, `DropBegin`,
`DropFinish`, `Connect`, `ConnectFails`), then `OpenStream`, `Operate` or `SwitchOff`.
`hpc` is where a handler is; `Request`, `Prepare`, `WriteFrame`, `TakeMarker`,
`CloseAgain` are its steps between awaits, and `Cancel` is what shutdown does to it at
each of them. `rpc` is where a reader thread is: `ReaderStart` takes `worker._p2p`
without the lock, `EnterReader` counts it in, `ReaderRecv` enters the SDK. `serving` is
the camera's own view of whom it sends to. All of refresh, toss, treat_sound, pans that
end by themselves and settings other than the power are one job, `control`: to the stream
they are the same. `turning` is the motor of a camera that pans until it is stopped:
`StartMotor` sets it going, the job then waits under the worker's lock, and `StopMotor`
ends it. A session that dies in between leaves the motor running until it is at its
mechanical end (`EndStop`); `Greet` is what a new session does first, the stop
packet (`HaltPan`) included (B 364-378). An earlier run of the add-on may have left the
motor running too, so `turning` is anything at first. `send` returns a negative code
when the SDK does not carry a packet, on a live session too (F 1149-1173): the start of
a motor raises then, while a stop's result is not looked at (B 422-428, 698-701), so that
the camera goes on as it was. `unheard` records of what; `MayRefuse` says which packets
that may happen to.

**FrameQueue, TrackChannel** - `PumpFrame`/`PumpEnd` schedule an offer from a reader's
thread (`ready` is the event loop's callback list), `Offer` runs it, `Get` is the
handler's. TrackChannel is the abstract promise: a channel for several tracks that keeps
the order and may lose frames but no end marker. FrameQueue implements it with
`chan <- items \o ready` (`LossyInOrder`).

**AvResponse** - `get_av`'s loop over that queue. `TakePart` is one turn up to the next
await; between `stage = "probe"` and `ProbeEnds` the decoder runs in a thread and frames
pile up. `begin`, `prove`, `emit` and `hold_off` are operators named after the closures.

**TransportStream** - `EmitFrame` puts a frame of either track on the clock that starts with
the first one taken, and lines up (`todo`) the tables, when they are due, and the frame;
`Send` cuts the next packet. Of a packet there are its size, its counter and what its
adaptation field says of where the payload begins. `reader` is a demuxer that joins between
any two packets, checks counters, waits for the tables and puts frames together. `ms` is the
camera's time, of which a stamp is the remainder modulo `Clock`; `MCAvResponse` extends it
beside AvResponse and lets TLC take one of the two (`part`), with frames of either track in
any order for what a response may write.

**SettingsCache** - `camera` is what the camera holds, `wire` its answers under way,
`raw` and `rejected` the decoder, `cache` what the bridge shows. `apply` is a list of
commands (`todo`) that run one at a time with the app and the network in between. A
command set (V2, V3) decides how a sweep waits and what opcodes are; `MCSettingsCache`
extends the module for a V2 camera, instantiates it a second time for a V3 camera and lets
`speaks` choose. The schedule is the
JSON document: a flag and the rest of it (`plan`). A SET that is not taken is told in one
of two ways. The camera may reject it in a message of its own, which goes to `rejected`.
Or the bridge hears nothing that it looks at: a V2 camera puts a status into the answer to
the SET, which `decode_v2` keeps under `results` and nobody reads (F 1316-1324), and a
`send` that fails returns a code `apply` does not use (B 526). `unsaid` records these.
A failed GET has no answer (`NoAnswer`).

**CloudLogin** - `pc[a]` follows each camera's reconnect and each token request through
`_session`, the cloud call, `silent_relogin` and the second call. A token is the number
of the login that issued it, and a new one replaces the live one. `file = None` is the
session file between `write_text`'s truncation and its write.

**AccountRenewal** - `pc` is where the entry is (setup retry, idle, a call, asking the
bridge, the second call, waiting for a person); `flow` the sign-in flow; `stored` and
`client` the two copies of the token; `missed` the renewal budget in `hass.data`.

**AddOnStart** - one start of `run.sh` line by line where it touches a file; `Kill` may
come between any two steps, `ChangeOptions` at any time. A file is missing (`None`), holds
a device id, or was emptied and not filled (`Torn`): every `write_text` is two steps, for
the device file (`Remember`, `Keep`), the parked login (`Park`, `Parked`) and the session
(`Truncate`, `Fill`), and may fail in either (`ForgoDevice` goes on without, `WriteFails`
ends the login). `Stored` is `_stored_mobile_id`, with its fall-back to the session.

**CameraBinding** - `Discover`, `Bind`, `AskAgain` and `Reload` are the entry; `Begin`,
`AskCameras`, `PollEnds`, `PressEnds` one camera's client; `Reached` which camera the
bridge resolves a path to; `AddonTurns` the add-on being started, stopped, upgraded or
given other cameras. `found` is what discovery came to; `keyless` is an add-on whose
`/info` the Supervisor did not give, so that its token is missing: it is not asked for its
cameras and, when it is bound, answers nothing. A status may say whose it is or not
(`says`), as the bridge need not know or report a `device_id`, and one that
does not is taken for the camera's. `PressEnds` is also a write of settings, whose answer's
status is published without being looked at.

**AccountPolls** - `step` is the call a refresh is at: `Devices` (the cameras and their
alerts, read first), `Consider` (whether the calendar is due: `tried # day` or the hour is
up), `Calendar`, `Diary`, `Renew` (the bridge's token and the one second fetch). `asked`,
`tried` and `diaryAsked` are the coordinator's clocks, with `was` the local copies that
give an attempt back when it only met a dead token. `SetAlert`, `Reflect` and `LoseAnswer`
are an alert switch: it writes into the `data` of the moment its answer comes, which a
refresh that read the old value may replace. Ages grow to `Interval`
and stay there, and a clock nobody has set reads `Interval`. The figures of a day are the
number of that day. The option that reads the calendar is on.

**DiarySave** - a press goes through the lock of *its* coordinator (`Enter`), the report,
`Look` (which days are missing on disk) and, per day, `Get`, `Open`, `Write`, `Close`,
`Replace`. `Open` to `Replace` are jobs of Home Assistant's executor and one step each.
`handle` says under which name the file a press writes is to be found by now, since a file
that is moved or deleted while it is open goes on being written. `BreakOff` deletes the
partial file, `Raise` is any other failure or a cancellation, `Restart` the end of the
process; `Reload` brings the next coordinator, and `overlapped` records that presses of two
were inside at once. A file is the set of its chunks, and `NoFile` is `{0}`, which no file is.

## 4. Runs

| Run | What it asks | Instance |
|---|---|---|
| `stream_safety` | Do slot, readers, camera, motor and channel stay consistent? `FreeSlotStopsReaders`, `CameraAtRest`, `NoCloseUnderReader` | an `/av` viewer (two readers), an `/audio` request, control and power jobs, pans until stopped, one death of the session, packets of any kind that are not carried, clients that leave at any moment |
| `stream_endings` | Does everything end as it should? `SlotHasAHandler`, `CameraToldBeforeClose`, `PictureEndsResponse`, `Answered`, `SlotFreed`, `ShutdownCloses` | an `/av` and a `/stream` viewer competing for the slot, either with sound, stops of the video that are not carried, SIGTERM at any moment |
| `stream_slot_leak` | violation, section 7 | two `/stream` viewers who may leave before their headers |
| `av_response` | The queue and the response on top of it: `Bounded`, `NothingLostSilently`, `LossyInOrder`, `EndReachesViewer`, `TakenGoesOut`, `TablesHold`, `HeldGoesOut`; and of the packets it becomes: `ReaderFollows` | two tracks of three frames, a queue of two, two frames of sound to decide on; four frames in packets of 188 bytes, with counters that wrap at 4 |
| `settings` | Is what a request leaves in a V2 camera's cache what the camera took (`ShowsOnV2`)? Is a V3 camera's plan that is written back somebody's (`PlanFromCamera`), does the cache come to agree (`Reconciled`)? | V2: power and volume, two requests, refusals of either kind, failed sends, a change from the app, one lost session or GET, answers in time; V3: power and schedule, the same failures, answers as late as they like, one write, one change from the app |
| `settings_refused` | violation, section 7 | V3, one write that may be refused |
| `cloud_login` | `NoNeedlessLogin`, `NewestKept`, `SentForAReason`, `Recovers`, `ToldToSignIn` | two cameras, one token request; one each of token deaths, failing calls, changes of the account, lost sessions, kills |
| `account_renewal` | `OneToken`, `Patient`, `Renews` | a discovered bridge, two token deaths, one each of faults, changes of the bridge, acts of a person, restarts |
| `add_on_start` | `ResetCarriedOut`, `EarnedKept`, `DeviceKept` | any number of starts, kills, failed writes and option changes; four device ids |
| `camera_binding` | `ActsOnItsOwn`, `PlaysItsOwn`, `AllBoundAtLast` | accounts of one or two cameras, one configured by hand; two changes of the add-on, one failing request, one reload |
| `account_polls` | Are yesterday's figures kept out (`NotYesterdays`), is the calendar's host asked when due and only then (`AskedWhenDue`), does what is shown agree in the end (`AgreesAtLast`)? | an hour of two ticks, two days, two token deaths, one each of faults, changes of the alert, reloads |
| `diary_save` | Is what is on disk whole (`SavedIsWhole`), is no day fetched twice (`NeverTwice`), is every day saved at last (`SavedAtLast`)? | two presses, two days of two chunks, one reload, two faults or restarts |

A type invariant that TLAPS proves is not run as well.

### Why the bounds are enough

* StreamSession: a conflict needs a viewer whose session goes away and something that
  takes it away or a second one that wants the slot; two viewers, one with two readers,
  have both. One death lets a reconnect happen under readers of the old session; each
  later one repeats it. `stream_endings` has no deaths: endings come from clients that
  leave, readers that give up, the slot's release and SIGTERM, and a reconnect is only
  one more way of closing a session. Background jobs are one at a time of a kind, as `_refresh_loop`
  awaits its refresh.
* AvResponse: three frames per track against a queue of two makes frames be dropped and
  markers arrive at a full queue; two frames of sound separate "not enough yet" from
  "enough", and leave one that arrives during the probe.
* TransportStream: frames of 162 and 169 bytes leave no byte, one byte, some and nearly a
  whole packet to stuff, in first packets with and without the clock and in later ones.
  Four frames 50 ms apart make the tables due again at 100 or 150 ms. The tracks start together,
  340 ms apart, or 100 ms before the camera's clock wraps.
* CloudLogin: the account changes what it demands once (`MaxTurns = 1`). A second turn
  meets a caller that is waiting for the answer to the demand before it; the proof of
  `SentForAReason` covers any number of turns.
* SettingsCache: two writes let a refusal of the first be mistaken for one of the second;
  one late answer is enough to be merged after a newer value. V2 opcodes are all below
  2^16 and V3's above it, which is what the comparison of refusals turns on.
* CloudLogin: two cameras and a client give three parties at the lock, one that logs in,
  one that waits and skips, one that gives up. One fault, one death and one turn of the
  account in any order give a login that fails with the lock held and a token that dies
  between login and use.
* AccountRenewal: `MAX_RENEWAL_ATTEMPTS` is 2 instead of the code's 3, so that set-up
  retries can spend it; `FullWait` is proved for any value.
* Motion: an outage while the motor runs takes one death; the new session is what has to
  stop the motor, whatever job opens it.
* AccountPolls: with two ticks to the hour, "asked just now", "not yet" and "due" differ.
  A midnight, a dead token before and one after the renewal, and a reload meet every call
  of a refresh.
* DiarySave: two presses are inside one after the other or, over the one reload, at once;
  a second day shows what was done to the first while it is fetched; the second fault
  meets what the first one left.
* AddOnStart: unbounded but for device ids; a second id and more are what a lost one
  would show as.
* CameraBinding: two turns take the add-on down and up again, or up as another version;
  a second camera is the one that must not be moved. The one fault is the Supervisor's,
  the network's or a camera session's, wherever it hurts.

## 5. Fairness

* StreamSession `Fairness`: weak fairness for the worker, each handler and each reader,
  since the executor, the event loop and threads are never starved by design, and for
  shutdown's cancellations (aiohttp's own timeout). A marker gets its turn: it stands in
  a FIFO behind finitely many frames. Strong fairness for "a frame or the end" of a
  receiving reader: it polls, and FIRST_/IDLE_FRAME_TIMEOUT ends a reader that gets
  nothing. No fairness for clients, deaths or SIGTERM.
* AvResponse: the event loop, the executor and time go on; the picture's reader always
  reads on or gives up; the sound's reader ends once it has been told to (its own end
  before that is not assumed).
* SettingsCache: an operation that has begun is run to its end, and a full sweep comes
  again and again however often something else comes first (strong fairness, because
  writes and light refreshes take turns on the same executor;
  FULL_REFRESH_INTERVAL makes it due, whatever they do).
* CloudLogin: calls end, `_refresh_loop` asks every camera again, hold-offs run out.
  Weak fairness is enough at the lock: a waiter gives up after its 65 s and comes back.
  Clients are under no obligation.
* AccountRenewal: Home Assistant retries set-ups and polls, runs flows it has begun and
  reloads it has scheduled. Nobody has to sign in.
* CameraBinding: set-up, the retry timer and each camera's status polls go on. Presses
  are not assumed.
* AccountPolls: Home Assistant retries set-ups and polls, calls end, and time goes on (so
  the hour is up some day). Weak fairness each. Nobody has to touch a switch or sign in.
* DiarySave: somebody presses the button again and again (or an automation does), and
  what a press awaits ends. Strong fairness for entering, as asyncio.Lock serves its
  waiters in turn however many come.
* AddOnStart states safety only.

### Assumptions made

* `PatientClients` (in `stream_endings`): no client leaves between its request and its
  headers. Without it the slot leaks, section 7.
* `HungReaders = FALSE`: no reader outlasts READER_EXIT_TIMEOUT in the SDK. With such a
  reader `_drop` closes the session under it, which its warning announces.
* `open_stream`'s settle time is longer than a reader's 5 ms pass, so a reader told to
  stop has left before the flag is cleared (`OpenStream`).
  `PictureEndsResponse` allows for a viewer that takes the slot in between.
* The add-on is upgraded, not downgraded, while an entry is loaded; the bridge in the
  options is that same add-on; the cameras of an account do not change.
* A press that moves a camera and is under way when its entry is unloaded is not
  followed; one that saves the diary is.
* Writing the marker (`touch`) is one step; every other file takes two.
* DiarySave: a job of Home Assistant's executor is one step. A press that is cancelled
  while it awaits one leaves the job running; it is taken to end before the next press,
  which first asks the cloud for the report, gets to that file.
* CloudLogin: credentials are set. With a session and none (the options may be blanked
  after signing in, `run.sh` 97-100) `_login_again` raises before any call and a dead token
  stays dead until they are back.
* AccountPolls: set-up reads the account (`_async_account_info`) before its first refresh,
  with a renewal of its own. AccountRenewal has that call; here set-up starts at the refresh.

## 6. Proofs

All are by an inductive invariant, proved from `Init` and preserved by every action (one
lemma or step per action), except for the refinements, which are step simulations. The
only assumptions are the modules' ASSUMEs and the premises that a theorem states.

* **StreamSessionProofs**: `TypeCorrect`, `FreeSlotSafe`, `CameraAtRestSafe`,
  `CameraToldSafe`, `NoCloseUnderReaderSafe` (given `HungReaders = FALSE`) and
  `SlotHandled` (given `PatientClients`). `TypeOK` is not inductive, because
  `readers - 1` has to stay in Nat: `ReaderCount` says that the counter is the number of
  threads between enter and leave. `StopWhenFree` ties the free slot to the stop flag for
  the moments inside `_drop`, too; `SessionNumbers` that no reader holds a session that
  has not been opened yet; `ServingAccounted` where a camera may still be sending while
  the slot is free; `MotorAccounted` that on a live session the motor only runs between
  connecting and greeting, while a pan waits, or because that session refused to carry the
  stop. The exception in both theorems (`unheard`) is a fact about the session the bridge
  still holds: a new one greets the camera and wipes it. `SlotInv` adds `OpenJobsWaited`: an open job queued or running has a
  handler that waits for it, and it is the only one of that viewer.
* **AvResponseProofs**, of the queue: `TypeCorrect`, `BoundHolds` (from `CountExact`, the
  counter is the number of frames in the queue, and `OneMarker`, a track ends once) and
  `ImplementsChannel`. Of the response on top of it: `AvTypeCorrect`; `AvIsQueue`, every
  step of the response is a step of FrameQueue or leaves it alone, from which
  `AvBounded` follows by `BoundHolds`; `TablesPromise`. `LostAreCounted` needs to know that
  as long as nothing has been dropped the frames of a track on the way are consecutive, from
  the last one got to the last one sent (`Lossless`; the lemmas about
  it say what happens to the numbers at the two ends of a queue). `AllTakenGoesOut` needs
  that before there are tables everything taken is held and would be carried (`Written`),
  and the lemmas about `Carried` that choosing what the tables have a track for commutes
  with appending. Where these lemmas speak of every position
  of a sequence, the induction is by the least counterexample.
* Of the packets, in the same module: `ReaderKeepsUp`, for any sizes, stamps, counters and
  number of frames, as long as a packet has room for a table (`StreamAssumption`). The invariant has five parts. `Muxing`: what is to be cut is the frame
  emitted last, behind what is left of the tables. `Reads`: a reader that is there misses no
  packet (`PacketsFit` is the arithmetic of the stuffing) and makes nothing of frames
  before it has the tables. `Comes`: a frame that has come is whole, one that is coming lacks
  what is still to be cut. `Tabled`: a reader without the tables came after the last of them,
  or they are on their way; so that they are due by the first frame it is owed
  (`Elapsed`). `Keeps`: it has each frame it is owed or gets it with the next packets.
* **SettingsCacheProofs**: `PlanNeverMadeUp`, where `PlanInv` follows a plan from the app to
  the camera, into an answer, into the decoder and back, for answers of any lateness.
  `ShownAsAnswered`, for a camera of the command set whose refusals name the whole
  opcode and whose answers come in time (`Proto = "v2"`, `Prompt = TRUE`); `ShownOnV2` is
  the same for the V2 camera of `MCSettingsCache`. `Answered` says that
  of what has been written the camera took exactly what it has not refused, where a
  refusal counts from when it is said, in an answer or in the decoder (`Said`), and not from
  when it is read; `WritesLeft` that nothing is written twice and that the wait comes last.
  Settings whose failure the bridge does not hear of (`unsaid`) are excepted.
  Both premises are needed: for V3 `settings_refused` shows the opposite, and an answer
  that comes after the wait is not waited for.
* **CloudLoginProofs**: `TypeCorrect`, `OneLoginPerDeadToken`, `FileKeepsNewest`,
  `SentWithReason`. The
  invariant says who holds the lock (`Holding`), that a caller in the queue was refused
  a token that is not live any more (`Refused`), and that tokens are numbered as they
  are issued, so that the one about to be written is the newest (`Newest`, `Past`). `Reasons` is
  for `SentWithReason`: whatever the account demands at the moment, also of a login that is being tried
  again without its proof, has been noted in `demanded`, and a turn of the account forgets
  nothing.
* **AccountProofs**: of AccountRenewal, `TypeCorrect`, `TokensAgree`, `FullWait`, for any budget.
  `Dead` and `Again` say what the client and the entry hold while the bridge is asked;
  `Counted` that the budget spent is no more than the renewals left unanswered in a row.
  Of AccountPolls: `PollsTypeCorrect`, `FiguresOfTheDay`,
  `OncePerHourOrDay`, for an hour of any length and any number of days. `Fresh` follows the
  figures through the calendar's and the diary's call to where they are published; `Clocks`
  says that `asked` and `tried` are those of the last attempt that counted and that, while
  the calendar is being asked, their former values are.
* **AddOnStartProofs**: `ResetOnce`, `NotEveryStart`, `SameClient`. `Unsigned`, `Signed`,
  `Marked` and `Since` say at each point of the script which files are there and whether
  the session is younger than the request for a reset; `OneDevice` that every file
  that can be read, and the login in progress, has the device id written down last; `Covered`
  that the device file has it as long as it has not been left without (`exposed`), but for
  the moment in which it is rewritten.
* **CameraBindingProofs**: `OwnCamera`, `OwnPicture`, for any set of cameras and any
  number of changes. `Learnt` and `PollNames`: what a client has remembered of the
  bridge is still true of it or became true since, as an add-on is not downgraded;
  `SureIsFirst`: a camera whose status was vouched for and whose bridge knows no names is
  the bridge's first. `sure` is lost with a status that vouches for nothing.

* **DiarySaveProofs**: `TypeCorrect`, `SavedWhole`, `SavedOnce`, for any number of presses,
  days, chunks, reloads and faults. What is got is what has been written, as long as
  nobody else is inside: the invariant says so at each point of a download, and that a day
  being fetched is one that is not on disk.

Only model-checked: liveness, which is outside the prover's reach, as is ENABLED
(`ShutdownCloses`, `PictureEndsResponse`, `Answered`, `SlotFreed`, `EndReachesViewer`,
`HeldGoesOut`, `Reconciled`, `Recovers`, `ToldToSignIn`, `Renews`, `AllBoundAtLast`,
`AgreesAtLast`, `SavedAtLast`). `SettingsCache` has no type invariant: its wire is built
with folds over sequences, of which the provers know nothing, so its invariants say
only what they need of the wire.

## 7. Where code and text disagree

With a run that shows it:

* `stream_slot_leak`: `prepare()` raises when the client has gone; it stands after
  `open_stream` and before the `try` (B 1175, 1261), so the slot stays taken and every
  later viewer is told that "Another viewer already holds the single video stream".
* `settings_refused`: a V3 refusal carries 16 bits of the opcode (F 1257) and is looked
  up with all of it (B 580): refused values are shown as applied, against the test that
  says they are not.

Without a run (noted while modelling):

* The camera's stamps are 32 bits of milliseconds and wrap after 49.7 days, within the
  response that is being sent then. `emit` (B 1365) puts every stamp below the origin at
  zero, so the picture's and the sound's clocks stand still from there on, and the tables,
  due by that clock, are not repeated: "they go out far more often than the standard's
  minimum" (`furbo-bridge/src/furbo_ts.py:42-45`), "that is the only honest source of
  alignment there is" (`furbo_ts.py:10-13`). `ReaderFollows` excepts it by `Unwrapped`;
  without that condition TLC finds it.
* An unreachable login endpoint has the word "login" in its message (B 360), so that an
  outage holds the camera off and reports `needs_login` for up to 15 minutes, against
  `furbo-bridge/tests/test_bridge_worker.py:617`, "A connection problem is not a login
  problem, and keeps retrying."
* The diary's lock belongs to the coordinator (`H/coordinator.py:203-206`), and a reload
  makes a new one while a press of the old one still downloads. A is about to move its
  complete file into place, B opens and truncates that same partial file, A moves it, B
  breaks off: a torn video stays in the folder and counts as saved, which
  `H/diary.py:104-106` means to rule out. `SavedIsWhole` and `NeverTwice` except it by
  `overlapped`; without that condition TLC and a reload find it.

* `H/strings.json:366` has the notice that the add-on needs a code clear itself once the
  add-on can hand over a token; it clears when a token is next taken, and as long as the
  integration's own token is good nothing asks.
* `run.sh:129`: a login that fails beside one parked earlier is announced as a code that
  was emailed.
* A kill between truncating and writing the session file leaves a file that counts as a
  session for `run.sh` and that `build_workers` cannot read: every start fails. With the
  reset's marker there the option that is still on does not clear it; it has to be seen
  off once ("Toggle it off and on again" needs a start in between).
* A code is used up by `complete_login`, and `get_devices` fails after it (F 581): the
  parked login stays and every start with that code fails.
* A settings write that the session, dead or alive, does not carry is not noticed by
  `apply` (B 526) and shown until the next sweep. So is one that a V2 camera refuses by the
  status of its answer: `decode_v2` keeps it under `results` (F 1316-1324) and nobody reads
  that, while `_confirm` says "The camera answers each SET with a status, so a refused
  write is dropped here instead" (B 569-572). `ShownOnV2` excepts both by `unsaid`.
* A stop of the motor that is not carried is not sent again before the next stream, pan or
  session: "there is no second chance to halt it" (B 690-694), and `send` says of a one-shot
  control that "nothing after it notices, so it has to look" (F 1153-1156); `_halt_pan` does
  not look. The camera turns on to its end stop with the bridge idle. The same goes for the
  stop of a video (B 422-428, 902-917), which the camera then goes on sending until its own
  timeout. `CameraAtRest` and `CameraToldBeforeClose` except both by `unheard`.
* The device file is emptied and then filled (F 503). Killed or out of disk space in
  between, and reset before the next login has filled it, the bridge makes up a second
  identity, although "clearing a dead token should not also change who this bridge claims
  to be" (F 461-464). A bridge signed in by a version that kept the id in the session only
  loses it with a reset, too. `DeviceKept` excepts both by `exposed`. A parked login cut
  short the same way is there for `run.sh`: with a code entered, every start ends at it.
* A status that names no camera is accepted (`H/coordinator.py:537`) as its comment says,
  and the camera it is accepted for need not be the one it came from: a bridge that knows
  one camera and does not report which one, configured for another, has its presses move
  the wrong camera. The status in the answer to a write is not checked at all
  (`H/entity.py:119-130`). `ActsOnItsOwn` excepts both by `sure`.
* If the Supervisor does not answer `/addons/<slug>/info` (`H/discovery.py:191-201`) there
  is no token, and `_stream_names` answers "no names" without asking (135-136): an add-on
  that names cameras is taken for one that cannot, `camera_list_unavailable` stays False and
  it is not asked again, against "Returns None when the question could not be put ... which
  is worth asking again later" (125-127). An account of one camera is even bound to it,
  without the token, and refused every request. A reload mends it. `AllBoundAtLast` excepts
  it (`found # "keyless"`).
* `/stream` logs how many frames it dropped (B 1201-1202); `/av` counts them and says nothing.
* Discovery that finds no add-on, or one that leaves cameras out, is not repeated.

## 8. Not modelled

* `FurboP2P`'s ctypes layouts, DTLS and TUTK parameters and talk channel, request
  signing and parsing of the cloud, formats of settings other than the three kinds, the
  quality file: data without control.
* The bytes of tables, PES headers, time stamps (33 bits at 90 kHz) and checksums of
  `furbo_ts.py`.
* Direction and distance of a pan, which stop opcode a model takes; where the media folder
  lies, dates and links of the report; the wait that the API client puts between calls
  after a rate limit: data the properties do not tell apart.
* Power cuts: a file that has been closed and moved is taken to be on disk.
* The camera registry, go2rtc's configuration and `_parse_settings`: fixed at start or
  stateless.
* Entities other than the alert switch, the diary button, presses and the stream; services
  and diagnostics: views of the coordinators' data. The command line
  and the release scripts: not part of the running system.
* Real time: how long `reader.join` blocks the event loop, and every delay. Timeouts are
  steps that may be taken at any moment.
