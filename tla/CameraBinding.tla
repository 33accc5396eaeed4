--------------------------- MODULE CameraBinding ---------------------------
(***************************************************************************)
(* Which camera Home Assistant's entities show and move.  Setting up the   *)
(* account's entry asks the add-on which streams it has and binds each     *)
(* camera to a bridge and a stream; from then on every camera's client     *)
(* decides on its own how to name its camera to the bridge.  The add-on    *)
(* may be starting, too old to tell cameras apart, or serve some of them.  *)
(***************************************************************************)
EXTENDS FiniteSets, Naturals

CONSTANTS
  Cameras,     \* those an account may have
  Configured,  \* those whose bridge is set in the options
  MaxTurns,    \* bound: starts, stops and changes of the add-on
  MaxFaults,   \* bound: requests that fail although the add-on is up
  MaxReloads   \* bound: reloads by hand

ASSUME BindingAssumption ==
  /\ IsFiniteSet(Cameras) /\ Configured \subseteq Cameras
  /\ {MaxTurns, MaxFaults, MaxReloads} \subseteq Nat

VARIABLES
  account,   \* the cameras of the account
  primary,   \* the one the add-on answers for when none is named
  version,   \* of the add-on: "old" knows one camera, "new" names them
  up,        \* the add-on answers
  serves,    \* the cameras a new add-on serves
  place,     \* the entry: "discover", "bind" (polling the cloud), "loaded"
  found,     \* what discovery came to: see Findings
  streams,   \* DiscoveredBridge.streams: the cameras with a stream of their own
  bridges,   \* runtime_data.bridges: cameras with a bridge coordinator
  stream,    \* runtime_data.stream_urls: "none", "plain" or the camera's "own"
  retry,     \* _retry_discovery is ticking
  scoped,    \* FurboBridgeClient._scoped: "unknown", "yes" or "no"
  doing,     \* the requests under way: see Stages
  ready,     \* cameras whose bridge entities are available
  sure,      \* history: those of ready whose last status was vouched to be
             \* theirs, since the add-on last chose a first camera
  hits,      \* history: <<d, c, b>>, a press for d moved c; d was sure: b
  turns, faults, reloads

addon == <<version, up, serves>>
entry == <<place, found, streams, bridges, stream, retry>>
client == <<scoped, doing, ready, sure>>
counters == <<turns, faults, reloads>>
vars == <<account, primary, addon, entry, client, hits, counters>>

\* async_discover_bridge: nothing; an add-on whose token the Supervisor did not
\* tell, which is asked for nothing; one that could not be asked for its cameras;
\* one that cannot name them; one that does.
Findings == {"none", "keyless", "unasked", "plain", "named"}

Requests == Cameras \X {"poll", "press"}
Stages == {"idle", "ask", "named", "plain"}

Sole == Cardinality(account) = 1
-----------------------------------------------------------------------------
(* Setting the entry up.                                                   *)

Fault == faults < MaxFaults /\ faults' = faults + 1 /\ UNCHANGED <<turns, reloads>>

\* Mutant: an add-on that could not be asked is taken for an old one.
UnaskedIsPlain == "plain"

\* _stream_names without an answer is not an answer of none.
NoAnswer == "unasked"

\* async_discover_bridge.  The Supervisor may fail either request, the add-ons'
\* list or the one add-on's info, and so may the add-on.
Discover ==
  /\ place = "discover" /\ place' = "bind"
  /\ \/ /\ up /\ UNCHANGED counters
        /\ found' = IF version = "new" THEN "named" ELSE "plain"
        /\ streams' = IF version = "new" THEN serves ELSE {}
     \/ ~up /\ found' = NoAnswer /\ streams' = {} /\ UNCHANGED counters
     \/ Fault /\ found' \in {"none", "keyless", NoAnswer} /\ streams' = {}
  /\ UNCHANGED <<account, primary, addon, bridges, stream, retry, client, hits>>

AutoBind == found # "none" /\ (Sole \/ found = "named")

\* Mutant: a camera the add-on does not name gets the plain stream.
StreamOrPlain(d) == IF d \in streams THEN "own" ELSE "plain"

\* stream_url_for: "no video is better than another camera's".
StreamFor(d) ==
  IF d \in streams THEN "own" ELSE IF streams = {} /\ Sole THEN "plain" ELSE "none"

Bind ==
  /\ place = "bind" /\ place' = "loaded"
  /\ bridges' = IF AutoBind THEN account ELSE account \cap Configured
  /\ stream' = [d \in Cameras |-> IF AutoBind /\ d \in account THEN StreamFor(d) ELSE "none"]
  /\ retry' = (~AutoBind /\ found = "unasked")
  /\ scoped' = [d \in Cameras |-> "unknown"]
  /\ doing' = [r \in Requests |-> "idle"]
  /\ ready' = {} /\ sure' = {}
  /\ UNCHANGED <<account, primary, addon, found, streams, hits, counters>>

\* entry.async_on_unload: unloading cancels the timer.
TimerAfter == FALSE

\* A press under way is not followed past its entry's end.
Unload ==
  /\ place' = "discover" /\ retry' = TimerAfter /\ ready' = {} /\ sure' = {}
  /\ doing' = [r \in Requests |-> "idle"]
  /\ UNCHANGED <<account, primary, addon, found, streams, bridges, stream, scoped, hits>>

\* _ask_again: reload once the add-on can say which camera is which.
AskAgain ==
  /\ place = "loaded" /\ retry
  /\ up /\ version = "new"
  /\ Unload /\ UNCHANGED counters

Reload ==
  /\ place = "loaded"
  /\ reloads < MaxReloads /\ reloads' = reloads + 1
  /\ Unload /\ UNCHANGED <<turns, faults>>
-----------------------------------------------------------------------------
(* One camera's client.                                                    *)

\* _knows_cameras: asked once it is not known.
Begin(d, kind) ==
  /\ place = "loaded" /\ d \in bridges /\ doing[<<d, kind>>] = "idle"
  /\ kind = "press" => d \in ready
  /\ doing' = [doing EXCEPT ![<<d, kind>>] =
                 IF scoped[d] = "unknown" THEN "ask"
                 ELSE IF scoped[d] = "no" THEN "plain" ELSE "named"]
  /\ UNCHANGED <<account, primary, addon, entry, scoped, ready, sure, hits, counters>>

\* Only a definite answer is remembered; meanwhile the camera is named.
Unsettled(r) ==
  /\ doing' = [doing EXCEPT ![r] = "named"]
  /\ UNCHANGED scoped

\* The add-on answers nothing without its token.
Answers(d) == up /\ (d \in Configured \/ found # "keyless")

\* GET /api/cameras
AskCameras(r) ==
  /\ doing[r] = "ask"
  /\ \/ /\ Answers(r[1])
        /\ scoped' = [scoped EXCEPT ![r[1]] = IF version = "new" THEN "yes" ELSE "no"]
        /\ doing' = [doing EXCEPT ![r] = IF version = "new" THEN "named" ELSE "plain"]
        /\ UNCHANGED counters
     \/ ~Answers(r[1]) /\ Unsettled(r) /\ UNCHANGED counters
     \/ Fault /\ Unsettled(r)
  /\ UNCHANGED <<account, primary, addon, entry, ready, sure, hits>>

\* The camera a request reaches: CameraRegistry.get, or none.
Reached(r) ==
  IF ~Answers(r[1]) THEN {}
  ELSE IF doing[r] = "plain" THEN {primary}
  ELSE IF version = "new" THEN {r[1]} \cap serves ELSE {}

\* Mutant: the status is taken as this camera's, whoever's it is.
AnyStatus(d, c, says) == TRUE

\* FurboBridgeCoordinator: a status that says which camera it is of must say
\* this one.  A worker says it once it has had a session.
OwnStatus(d, c, says) == says => c = d

\* The status is vouched for by what it says or by the path it was asked under.
PollEnds(d) ==
  LET r == <<d, "poll">> IN
  /\ doing[r] \in {"named", "plain"}
  /\ doing' = [doing EXCEPT ![r] = "idle"]
  /\ \/ \E c \in Reached(r), says \in BOOLEAN :
          /\ OwnStatus(d, c, says)
          /\ ready' = ready \cup {d}
          /\ sure' = IF says \/ doing[r] = "named" THEN sure \cup {d} ELSE sure \ {d}
          /\ UNCHANGED counters
     \/ /\ \/ (\A c \in Reached(r) : ~OwnStatus(d, c, TRUE)) /\ UNCHANGED counters
           \/ Fault
        /\ ready' = ready \ {d} /\ sure' = sure \ {d}
  /\ UNCHANGED <<account, primary, addon, entry, scoped, hits>>

\* pan, toss, or a write of settings.  The status in the answer to a write is
\* published unchecked.
PressEnds(d) ==
  LET r == <<d, "press">> IN
  /\ doing[r] \in {"named", "plain"}
  /\ doing' = [doing EXCEPT ![r] = "idle"]
  /\ \/ /\ hits' = hits \cup ({d} \X Reached(r) \X {d \in sure})
        /\ ready' \in {ready, IF Reached(r) = {} THEN ready ELSE ready \cup {d}}
        /\ UNCHANGED counters
     \/ Fault /\ UNCHANGED <<ready, hits>>
  /\ UNCHANGED <<account, primary, addon, entry, scoped, sure>>
-----------------------------------------------------------------------------
\* The add-on starts, stops, is upgraded (it is not downgraded), or serves
\* other cameras because its device_id option was changed.
AddonTurns ==
  /\ turns < MaxTurns /\ turns' = turns + 1
  /\ up' \in BOOLEAN
  /\ version' \in {version, "new"}
  /\ serves' \in SUBSET account /\ primary' \in serves'
  /\ sure' = IF primary' = primary THEN sure ELSE {}
  /\ UNCHANGED <<account, entry, scoped, doing, ready, hits, faults, reloads>>

Init ==
  /\ account \in SUBSET Cameras \ {{}} /\ primary \in account
  /\ version \in {"old", "new"} /\ up \in BOOLEAN
  /\ serves \in {S \in SUBSET account : primary \in S}
  /\ place = "discover" /\ found = "none" /\ streams = {}
  /\ bridges = {} /\ stream = [d \in Cameras |-> "none"] /\ retry = FALSE
  /\ scoped = [d \in Cameras |-> "unknown"]
  /\ doing = [r \in Requests |-> "idle"] /\ ready = {} /\ sure = {} /\ hits = {}
  /\ turns = 0 /\ faults = 0 /\ reloads = 0

Entry == Discover \/ Bind \/ AskAgain

Next ==
  \/ Entry \/ Reload
  \/ \E d \in Cameras :
       \/ \E kind \in {"poll", "press"} : Begin(d, kind) \/ AskCameras(<<d, kind>>)
       \/ PollEnds(d) \/ PressEnds(d)
  \/ AddonTurns

Spec == Init /\ [][Next]_vars

\* Setup and its timer go on, and every bridge coordinator polls.
FairSpec ==
  /\ Spec
  /\ WF_vars(Entry)
  /\ \A d \in Cameras :
       WF_vars(Begin(d, "poll")) /\ WF_vars(AskCameras(<<d, "poll">>)) /\ WF_vars(PollEnds(d))
-----------------------------------------------------------------------------
(* Properties.                                                             *)

\* The type invariant: only cameras with a bridge are ready, and none while
\* the entry is set up anew.
TypeOK ==
  /\ account \subseteq Cameras /\ primary \in account
  /\ version \in {"old", "new"} /\ up \in BOOLEAN /\ serves \subseteq account
  /\ place \in {"discover", "bind", "loaded"}
  /\ found \in Findings /\ streams \subseteq account
  /\ bridges \subseteq account
  /\ stream \in [Cameras -> {"none", "plain", "own"}] /\ retry \in BOOLEAN
  /\ scoped \in [Cameras -> {"unknown", "yes", "no"}]
  /\ doing \in [Requests -> Stages]
  /\ sure \subseteq ready /\ ready \subseteq bridges
  /\ hits \subseteq account \X account \X BOOLEAN
  /\ place # "loaded" => ready = {} /\ ~retry

\* A press never moves another camera, whatever the client found out about the
\* bridge and whatever has become of the bridge since: "tossing a treat from
\* the wrong camera is worse than an error".  The gaps are those of a bridge that
\* cannot tell cameras apart: its last status did not say whose it was, or it was
\* given another first camera since.
ActsOnItsOwn == \A h \in hits : h[3] => h[1] = h[2]

\* No camera entity plays another camera's picture: "the name resolves, the URL
\* works, and every camera plays the first".
PlaysItsOwn == \A d \in Cameras : stream[d] = "plain" => d = primary

\* An add-on that names all cameras and comes to stay up ends with every camera
\* having its own stream and its controls available, however early it was
\* asked.  (Discovery that finds no add-on, or does not get its token from the
\* Supervisor, is not repeated, nor for an add-on that leaves cameras out: those
\* wait for a reload.)
AllBoundAtLast ==
  ([](version = "new" /\ serves = account) /\ <>[](up /\ found \notin {"none", "keyless"}))
    => \A d \in Cameras :
         <>[](d \in account => stream[d] # "none") /\ []<>(d \in account => d \in ready)
=============================================================================
