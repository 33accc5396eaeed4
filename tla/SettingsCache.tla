--------------------------- MODULE SettingsCache ---------------------------
(***************************************************************************)
(* The settings of one camera, as the bridge sees them: what the camera    *)
(* holds, what its answers left in the decoder (FurboP2P.state), and what  *)
(* the worker shows (P2PWorker.state).  One operation of the worker runs   *)
(* at a time; the Furbo app may change the camera between any two of its   *)
(* messages, and the session may die there.                                *)
(***************************************************************************)
EXTENDS Naturals, FiniteSetsExt, SequencesExt

CONSTANTS
  Proto,      \* the command set this camera speaks: "v2" or "v3"
  Settings,   \* the settings a configuration follows
  Values,     \* what a setting can be set to
  Plans,      \* the rest of a schedule: its days and times
  NoValue,    \* not reported yet
  Prompt,     \* TRUE: every answer is in before its wait is over
  Refusals,   \* how a setting may fail on a live session: "said" in a message of
              \* its own, "unsaid" in the SET's answer or not carried at all
  MaxLate,    \* bound: how many answers can be under way
  MaxApp,     \* bound: changes made in the Furbo app
  MaxWrites,  \* bound: settings requests
  MaxLosses   \* bound: sessions that die, and GETs a live one does not carry

Schedule == "schedule_enabled"

\* The schedule is a JSON document, written back whole, and only on V3.
Plain == {"camera_on", "volume"}
Writable == IF Proto = "v3" THEN Settings ELSE Settings \cap Plain

\* CMD and CMD3: a refusal names the request by the low 16 bits of its opcode.
Opcode ==
  IF Proto = "v3"
  THEN [camera_on |-> 65547, volume |-> 65565, schedule_enabled |-> 65551]
  ELSE [camera_on |-> 2331, volume |-> 2317, schedule_enabled |-> 2367]

ASSUME SettingsAssumption ==
  /\ Proto \in {"v2", "v3"}
  /\ Settings \subseteq Plain \cup {Schedule} /\ "camera_on" \in Settings
  /\ NoValue \notin Values \cup Plans
  /\ Prompt \in BOOLEAN /\ Refusals \subseteq {"said", "unsaid"}
  /\ {MaxLate, MaxApp, MaxWrites, MaxLosses} \subseteq Nat

VARIABLES
  camera,     \* the value the camera holds of each setting
  plan,       \* the schedule's days and times the camera holds
  raw,        \* p2p.state: the latest answer decoded of each setting
  rawPlan,    \* p2p.state["schedule"]: the days and times in that answer
  rejected,   \* p2p.state["rejected"]: opcodes the camera refused
  cache,      \* worker.state
  alive,      \* the session carries commands
  op,         \* the worker's operation: "idle", "apply", "sweep" or "light"
  todo,       \* the commands and waits it has left
  request,    \* the settings being written, NoValue where not asked for
  written,    \* apply's local "sent"
  wire,       \* the camera's answers under way to the bridge
  accepted,   \* history: of the settings written, those the camera took
  unsaid,     \* history: of the settings written, those it did not take and the
              \* decoder keeps no word of
  plansHeld,  \* history: the plans somebody gave the camera
  app, writes, losses

vars == <<camera, plan, raw, rawPlan, rejected, cache, alive, op, todo, request,
          written, wire, accepted, unsaid, plansHeld, app, writes, losses>>

world == <<plansHeld, app, writes, losses>>
-----------------------------------------------------------------------------
(* Commands and answers.                                                   *)

Command(kind, s) == [kind |-> kind, name |-> s]
Wait == Command("drain", "camera_on")
Get(s) == Command("get", s)

Value(s) == [kind |-> "value", name |-> s, value |-> camera[s], plan |-> plan]
Refused(s) == [kind |-> "refused", opcode |-> Opcode[s] % 65536]

\* The order apply writes them in.
If(s, S) == IF s \in S THEN <<s>> ELSE <<>>
Ordered(S) == If("camera_on", S) \o If("volume", S) \o If(Schedule, S)

\* apply: a SET for each setting of the request, then one wait for them all.
WriteCommands(S) ==
  LET names == Ordered(S)
  IN  [i \in DOMAIN names |->
         Command(IF names[i] \in Plain THEN "set" ELSE "toggle", names[i])] \o <<Wait>>

\* Mutant: the full sweep asks for the power only.
SweepsPower == <<Get("camera_on"), Wait>>

\* query_state: V3 awaits each answer, V2 asks for everything and waits once.
SweepCommands ==
  LET names == Ordered(Settings)
  IN  IF Proto = "v3"
      THEN FlattenSeq([i \in DOMAIN names |-> <<Get(names[i]), Wait>>]) \o <<Wait>>
      ELSE [i \in DOMAIN names |-> Get(names[i])] \o <<Wait>>

\* decode: the first n answers under way reach the decoder, in order.
Latest(s, n) == {i \in 1 .. n : wire[i].kind = "value" /\ wire[i].name = s}

Decode(n) ==
  /\ raw' = [s \in Settings |->
               IF Latest(s, n) = {} THEN raw[s] ELSE wire[Max(Latest(s, n))].value]
  /\ rawPlan' = IF Latest(Schedule, n) = {} THEN rawPlan
                ELSE wire[Max(Latest(Schedule, n))].plan
  /\ rejected' = rejected \cup {wire[i].opcode : i \in {j \in 1 .. n : wire[j].kind = "refused"}}

\* How many answers are off the wire by the end of a wait.
Arrived == IF Prompt THEN {Len(wire)} ELSE 0 .. Len(wire)
After(n) == SubSeq(wire, n + 1, Len(wire))

-----------------------------------------------------------------------------
Init ==
  /\ camera \in [Settings -> Values] /\ plan \in Plans
  /\ raw = [s \in Settings |-> NoValue] /\ rawPlan = NoValue
  /\ rejected = {}
  /\ cache = [s \in Settings |-> NoValue]
  /\ alive = FALSE
  /\ op = "idle" /\ todo = <<>>
  /\ request = [s \in Settings |-> NoValue] /\ written = {}
  /\ wire = <<>>
  /\ accepted = {} /\ unsaid = {}
  /\ plansHeld = {plan}
  /\ app = 0 /\ writes = 0 /\ losses = 0

(* The camera and the app.                                                 *)

AppChanges(s, v) ==
  /\ app < MaxApp /\ camera[s] # v
  /\ app' = app + 1
  /\ camera' = [camera EXCEPT ![s] = v]
  /\ UNCHANGED <<plan, raw, rawPlan, rejected, cache, alive, op, todo, request,
                 written, wire, accepted, unsaid, plansHeld, writes, losses>>

AppReplans(p) ==
  /\ app < MaxApp /\ Schedule \in Settings /\ plan # p
  /\ app' = app + 1
  /\ plan' = p
  /\ plansHeld' = plansHeld \cup {p}
  /\ UNCHANGED <<camera, raw, rawPlan, rejected, cache, alive, op, todo, request,
                 written, wire, accepted, unsaid, writes, losses>>

SessionDies ==
  /\ alive /\ losses < MaxLosses
  /\ losses' = losses + 1
  /\ alive' = FALSE
  /\ wire' = <<>>
  /\ UNCHANGED <<camera, plan, raw, rawPlan, rejected, cache, op, todo, request,
                 written, accepted, unsaid, plansHeld, app, writes>>

-----------------------------------------------------------------------------
(* The worker.  Every operation starts with _ensure.                       *)

\* A live session, or a new one, whose decoder knows nothing yet.
Ensure ==
  IF alive
  THEN UNCHANGED <<alive, raw, rawPlan, wire>>
  ELSE /\ alive' = TRUE
       /\ raw' = [s \in Settings |-> NoValue] /\ rawPlan' = NoValue
       /\ wire' = <<>>

EnsureRejected == IF alive THEN rejected ELSE {}

BeginApply(r) ==
  /\ op = "idle" /\ writes < MaxWrites
  /\ writes' = writes + 1
  /\ Ensure /\ rejected' = EnsureRejected
  /\ op' = "apply" /\ request' = r
  /\ todo' = WriteCommands({s \in Writable : r[s] # NoValue})
  /\ written' = {} /\ accepted' = {} /\ unsaid' = {}
  /\ UNCHANGED <<camera, plan, cache, plansHeld, app, losses>>

\* refresh when the full sweep is due, or nothing is known: _readback forgets
\* the refusals first.
BeginSweep ==
  /\ op = "idle"
  /\ Ensure /\ rejected' = {}
  /\ op' = "sweep" /\ todo' = SweepCommands
  /\ UNCHANGED <<camera, plan, cache, request, written, accepted, unsaid, world>>

\* refresh otherwise.  After a reconnect too, when the host's clock is younger
\* than FULL_REFRESH_INTERVAL: last_full_refresh = 0 does not make it due then.
BeginLight ==
  /\ op = "idle"
  /\ \E s \in Settings : cache[s] # NoValue
  /\ Ensure /\ rejected' = EnsureRejected
  /\ op' = "light" /\ todo' = <<Get("camera_on"), Wait>>
  /\ UNCHANGED <<camera, plan, cache, request, written, accepted, unsaid, world>>

\* The camera takes a value, or refuses it.  The answer to a SET itself leaves
\* the decoder nothing but p2p.state["results"], which nobody reads.
Takes(s, p) ==
  /\ camera' = [camera EXCEPT ![s] = request[s]]
  /\ plan' = p
  /\ accepted' = accepted \cup {s}

\* send polls what has already arrived, then transmits; its result is not used.
\* Of a setting not taken the decoder hears only when the camera rejects it in a
\* message of its own: not from the status in the SET's answer, nor when the
\* session, dead or alive, does not carry the SET.
SendSet(s, p) ==
  \E n \in 0 .. Len(wire) :
    /\ Decode(n)
    /\ written' = written \cup {s}
    /\ \/ /\ alive
          /\ Takes(s, p)
          /\ wire' = After(n)
          /\ UNCHANGED unsaid
       \/ /\ alive /\ "said" \in Refusals /\ Len(After(n)) < MaxLate
          /\ wire' = Append(After(n), Refused(s))
          /\ UNCHANGED <<camera, plan, accepted, unsaid>>
       \/ /\ alive => "unsaid" \in Refusals
          /\ wire' = After(n)
          /\ unsaid' = unsaid \cup {s}
          /\ UNCHANGED <<camera, plan, accepted>>

Set ==
  /\ todo # <<>> /\ Head(todo).kind = "set"
  /\ SendSet(Head(todo).name, plan)
  /\ todo' = Tail(todo)
  /\ UNCHANGED <<cache, alive, op, request, world>>

\* _apply_json_toggles asks for a schedule it has not seen, and waits for it.
LookUp ==
  /\ todo # <<>> /\ Head(todo).kind = "toggle"
  /\ todo' = (IF rawPlan = NoValue THEN <<Get(Schedule), Wait>> ELSE <<>>)
               \o <<Command("flip", Schedule)>> \o Tail(todo)
  /\ UNCHANGED <<camera, plan, raw, rawPlan, rejected, cache, alive, op, request,
                 written, wire, accepted, unsaid, world>>

\* Mutant: a schedule that was never reported is written back all the same.
FlipBlind ==
  /\ todo # <<>> /\ Head(todo).kind = "flip"
  /\ todo' = Tail(todo)
  /\ SendSet(Schedule, rawPlan)
  /\ UNCHANGED <<cache, alive, op, request, world>>

\* It then writes the document back as it was reported, with the new flag;
\* nothing when the camera has reported none.
Flip ==
  /\ todo # <<>> /\ Head(todo).kind = "flip"
  /\ todo' = Tail(todo)
  /\ IF rawPlan = NoValue
     THEN UNCHANGED <<camera, plan, raw, rawPlan, rejected, written, wire, accepted,
                       unsaid>>
     ELSE SendSet(Schedule, rawPlan)
  /\ UNCHANGED <<cache, alive, op, request, world>>

\* A GET that is carried is answered.
Answer(s, n) ==
  /\ alive /\ Len(After(n)) < MaxLate
  /\ wire' = Append(After(n), Value(s))
  /\ UNCHANGED losses

\* Nothing answers one that is not, as on a dead session, or that the camera
\* answers with an error.
NoAnswer(n) ==
  /\ wire' = After(n)
  /\ IF alive THEN losses < MaxLosses /\ losses' = losses + 1 ELSE UNCHANGED losses

SendGet ==
  /\ todo # <<>> /\ Head(todo).kind = "get"
  /\ todo' = Tail(todo)
  /\ \E n \in 0 .. Len(wire) :
       Decode(n) /\ (Answer(Head(todo).name, n) \/ NoAnswer(n))
  /\ UNCHANGED <<camera, plan, cache, alive, op, request, written, accepted, unsaid,
                 plansHeld, app, writes>>

\* drain and await_reply.
Drain ==
  /\ todo # <<>> /\ Head(todo).kind = "drain"
  /\ todo' = Tail(todo)
  /\ \E n \in Arrived : Decode(n) /\ wire' = After(n)
  /\ UNCHANGED <<camera, plan, cache, alive, op, request, written, accepted, unsaid,
                 world>>

\* _confirm: the values written are shown, except those refused, which it looks
\* up by the whole opcode.
SaidNo(s) == Opcode[s] \in rejected

\* The request is over, and its locals with it.
Forget ==
  /\ request' = [s \in Settings |-> NoValue]
  /\ written' = {} /\ accepted' = {} /\ unsaid' = {}

\* Mutant: refusals are not forgotten.
ConfirmKeepingRefusals ==
  /\ op = "apply" /\ todo = <<>>
  /\ cache' = [s \in Settings |-> IF s \in written /\ ~SaidNo(s) THEN request[s] ELSE cache[s]]
  /\ op' = "idle"
  /\ Forget
  /\ UNCHANGED <<camera, plan, raw, rawPlan, rejected, alive, todo, wire, world>>

Confirm ==
  /\ op = "apply" /\ todo = <<>>
  /\ cache' = [s \in Settings |-> IF s \in written /\ ~SaidNo(s) THEN request[s] ELSE cache[s]]
  /\ rejected' = {}
  /\ op' = "idle"
  /\ Forget
  /\ UNCHANGED <<camera, plan, raw, rawPlan, alive, todo, wire, world>>

\* The end of a sweep shows what the decoder knows, and nothing else.
Readback ==
  /\ op = "sweep" /\ todo = <<>>
  /\ cache' = raw
  /\ op' = "idle"
  /\ UNCHANGED <<camera, plan, raw, rawPlan, rejected, alive, todo, request, written, wire,
                 accepted, unsaid, world>>

\* The end of a light refresh shows all the decoder knows over what was shown.
Merge ==
  /\ op = "light" /\ todo = <<>>
  /\ cache' = [s \in Settings |-> IF raw[s] # NoValue THEN raw[s] ELSE cache[s]]
  /\ op' = "idle"
  /\ UNCHANGED <<camera, plan, raw, rawPlan, rejected, alive, todo, request, written,
                 wire, accepted, unsaid, world>>

-----------------------------------------------------------------------------
Requests == {r \in [Settings -> Values \cup {NoValue}] : \E s \in Settings : r[s] # NoValue}

Step == Set \/ LookUp \/ Flip \/ SendGet \/ Drain \/ Confirm \/ Readback \/ Merge

Next ==
  \/ \E s \in Settings, v \in Values : AppChanges(s, v)
  \/ \E p \in Plans : AppReplans(p)
  \/ SessionDies
  \/ \E r \in Requests : BeginApply(r)
  \/ BeginSweep \/ BeginLight
  \/ Step

Spec == Init /\ [][Next]_vars

\* The executor runs the operation it has started, and FULL_REFRESH_INTERVAL
\* comes round again and again, however many writes are in between.
FairSpec == Spec /\ WF_vars(Step) /\ SF_vars(BeginSweep)

-----------------------------------------------------------------------------
\* What a settings request leaves in the cache, when its session lives to its
\* end, is what the camera did: the settings it took are shown with the new
\* value, those it rejected, or was not asked to change, as before.  Nothing is
\* said of a setting whose failure the bridge does not look for, in the result of
\* send or in the status of the SET's answer: that one is shown as taken.
ConfirmsTaken ==
  op = "apply" /\ alive /\ op' = "idle" =>
    \A s \in Settings \ unsaid :
      cache'[s] = IF s \in accepted THEN request[s] ELSE cache[s]

ShowsWhatWasTaken == [][ConfirmsTaken]_vars

\* Turning the schedule on or off keeps a plan somebody gave the camera: the
\* bridge never makes one up, even when it has not been told it.
PlanFromCamera == plan \in plansHeld

\* Whatever the writes, the changes in the app and the sessions lost, the cache
\* ends up showing what the camera holds.
Reconciled == <>[](cache = camera)
=============================================================================
