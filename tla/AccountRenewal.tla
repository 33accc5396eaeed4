--------------------------- MODULE AccountRenewal ---------------------------
(***************************************************************************)
(* How Home Assistant keeps one Furbo account signed in.  The entry holds  *)
(* a cloud token and no password.  When the cloud refuses the token, the   *)
(* coordinator asks the bridge for its own; a person is asked to sign in   *)
(* when the bridge refuses, or has been silent for too many polls.         *)
(* Setup, polling, the sign-in flow and a person at the configuration run  *)
(* side by side; the token can die between any two calls.                  *)
(***************************************************************************)
EXTENDS Naturals

CONSTANTS
  MaxAttempts,  \* MAX_RENEWAL_ATTEMPTS
  Configured,   \* TRUE: the options name a bridge; else it is discovered
  MaxDeaths,    \* bound: tokens that die
  MaxFaults,    \* bound: cloud calls that fail, tokens handed out unchecked
  MaxTurns,     \* bound: changes of the bridge
  MaxPeople,    \* bound: things a person does of their own accord
  MaxRestarts   \* bound: restarts of Home Assistant

ASSUME RenewalAssumption ==
  /\ Configured \in BOOLEAN
  /\ MaxAttempts \in Nat
  /\ {MaxDeaths, MaxFaults, MaxTurns, MaxPeople, MaxRestarts} \subseteq Nat

VARIABLES
  live,      \* the tokens the cloud accepts
  issued,    \* how many it has issued; a token is the number of its login
  bridge,    \* how the bridge answers: see BridgeKinds
  held,      \* the token in the bridge's session
  stored,    \* entry.data[CONF_COGNITO_TOKEN]
  client,    \* client.cognito_token of the running coordinator
  source,    \* coordinator.token_source is not None
  loaded,    \* the entry is set up
  pc,        \* where the entry is: see Places
  stage,     \* what it is reading: "account" (_async_setup) or "fetch"
  missed,    \* hass.data[RENEWALS_MISSED][entry_id]
  notice,    \* the issue ISSUE_BRIDGE_NEEDS_CODE is up
  flow,      \* the sign-in flow: "none", "source" (asking the bridge), "form"
  reload,    \* a reload of the entry is scheduled
  came,      \* history: what the last renewal came to
  inARow,    \* history: renewals the bridge left unanswered since the account
             \* was last read, as far as MaxAttempts + 1
  deaths, faults, turns, people, restarts

cloud == <<live, issued, bridge, held>>
entry == <<stored, client, source, loaded, pc, stage, missed>>
counters == <<deaths, faults, turns, people, restarts>>
vars == <<cloud, entry, notice, flow, reload, came, inARow, counters>>

\* "up": it has, or logs in for, a current token.  "down": no answer, or 503.
\* "code": 409, it wants a person.  "broken": any other error.  "elsewhere":
\* signed in to another account.
BridgeKinds == {"up", "down", "code", "broken", "elsewhere"}

\* "retry": waiting for setup.  "idle": between polls.  "call": the first try
\* of a read, "ask": the bridge is asked for a token, "again": the second try.
\* "signin": ConfigEntryAuthFailed; nothing is polled any more.
Places == {"retry", "idle", "call", "ask", "again", "signin"}

Rest == IF loaded THEN "idle" ELSE "retry"
Working == loaded /\ client \in live
-----------------------------------------------------------------------------
(* Setup and polls.                                                        *)

\* Mutant: the budget is the coordinator's, new with every setup.
BeginAfresh ==
  /\ pc = "retry"
  /\ pc' = "call" /\ stage' = "account"
  /\ client' = stored
  /\ source' \in IF Configured THEN {TRUE} ELSE BOOLEAN
  /\ missed' = 0
  /\ UNCHANGED <<cloud, stored, loaded, notice, flow, reload, came, inARow, counters>>

\* async_setup_entry up to the first refresh.  Discovery may fail.
Begin ==
  /\ pc = "retry"
  /\ pc' = "call" /\ stage' = "account"
  /\ client' = stored
  /\ source' \in IF Configured THEN {TRUE} ELSE BOOLEAN
  /\ UNCHANGED <<cloud, stored, loaded, missed, notice, flow, reload, came, inARow, counters>>

Poll ==
  /\ pc = "idle"
  /\ pc' = "call" /\ stage' = "fetch"
  /\ UNCHANGED <<cloud, stored, client, source, loaded, missed, notice, flow, reload,
                 came, inARow, counters>>

\* Mutant: a setup that goes through leaves the budget spent.
PassUncleared ==
  IF stage = "account"
  THEN pc' = "call" /\ stage' = "fetch" /\ UNCHANGED <<loaded, missed, inARow>>
  ELSE pc' = "idle" /\ loaded' = TRUE /\ inARow' = 0 /\ UNCHANGED <<stage, missed>>

\* The account was read, and then its devices: the entry is set up.
Pass ==
  IF stage = "account"
  THEN pc' = "call" /\ stage' = "fetch" /\ UNCHANGED <<loaded, missed, inARow>>
  ELSE /\ pc' = "idle" /\ loaded' = TRUE
       /\ missed' = IF loaded THEN missed ELSE 0
       /\ inARow' = 0
       /\ UNCHANGED stage

\* ConfigEntryAuthFailed out of setup or a poll: unless a flow is open, one
\* is started.
AskPerson ==
  /\ pc' = "signin"
  /\ flow' = IF flow = "none" THEN "source" ELSE flow

Fault == faults < MaxFaults /\ faults' = faults + 1
             /\ UNCHANGED <<deaths, turns, people, restarts>>

\* _async_account_info and _async_update_data: read, and once more with the
\* token the bridge gave.
Call ==
  /\ pc \in {"call", "again"}
  /\ \/ client \in live /\ Pass /\ UNCHANGED <<flow, counters>>
     \/ /\ client \notin live
        /\ IF pc = "call" THEN pc' = "ask" /\ UNCHANGED flow ELSE AskPerson
        /\ UNCHANGED <<loaded, stage, missed, inARow, counters>>
     \/ pc' = Rest /\ Fault /\ UNCHANGED <<loaded, stage, missed, inARow, flow>>
  /\ UNCHANGED <<cloud, stored, client, source, notice, reload, came>>
-----------------------------------------------------------------------------
(* Asking the bridge.                                                      *)

\* get_cloud_token: the bridge logs in again first if the cloud refuses its
\* token, but what another of its logins left in the session is not checked.
HandOver ==
  /\ bridge = "up"
  /\ \/ held \in live /\ UNCHANGED <<live, issued, held, counters>>
     \/ /\ held \notin live
        /\ issued' = issued + 1 /\ held' = issued + 1
        /\ live' = live \cup {issued + 1}
        /\ UNCHANGED counters
     \/ held \notin live /\ Fault /\ UNCHANGED <<live, issued, held>>
  /\ UNCHANGED bridge

\* Mutant: only the running client gets the new token.
TakenInMemory ==
  /\ pc = "ask" /\ source /\ HandOver /\ held' # client
  /\ client' = held'
  /\ missed' = 0 /\ notice' = FALSE
  /\ came' = "taken" /\ inARow' = 0
  /\ pc' = "again"
  /\ UNCHANGED <<stored, source, loaded, stage, flow, reload>>

\* _Renewal.TAKEN: kept in the entry as well, for the next setup.
Taken ==
  /\ pc = "ask" /\ source /\ HandOver /\ held' # client
  /\ client' = held' /\ stored' = held'
  /\ missed' = 0 /\ notice' = FALSE
  /\ came' = "taken" /\ inARow' = 0
  /\ pc' = "again"
  /\ UNCHANGED <<source, loaded, stage, flow, reload>>

\* The token just refused is offered again.
SameToken ==
  /\ pc = "ask" /\ source /\ HandOver /\ held' = client
  /\ came' = "refused" /\ AskPerson
  /\ UNCHANGED <<stored, client, source, loaded, stage, missed, notice, reload, inARow>>

\* _Renewal.UNAVAILABLE: an UpdateFailed, MAX_RENEWAL_ATTEMPTS times.
Unavailable ==
  /\ pc = "ask" /\ source /\ bridge = "down"
  /\ came' = "unavailable"
  /\ inARow' = IF inARow > MaxAttempts THEN inARow ELSE inARow + 1
  /\ IF missed < MaxAttempts
     THEN missed' = missed + 1 /\ pc' = Rest /\ UNCHANGED flow
     ELSE AskPerson /\ UNCHANGED missed
  /\ UNCHANGED <<cloud, stored, client, source, loaded, stage, notice, reload, counters>>

\* _Renewal.REFUSED: no bridge, an error, or another account's.
Refused ==
  /\ pc = "ask"
  /\ ~source \/ bridge \in {"code", "broken", "elsewhere"}
  /\ notice' = (notice \/ (source /\ bridge = "code"))
  /\ came' = "refused" /\ AskPerson
  /\ UNCHANGED <<cloud, stored, client, source, loaded, stage, missed, reload, inARow, counters>>
-----------------------------------------------------------------------------
(* The sign-in flow, and a person.                                         *)

\* _async_token_from_bridge: the flow's own question to the bridge.
FlowTakes ==
  /\ flow = "source" /\ HandOver
  /\ stored' = held'
  /\ notice' = FALSE
  /\ flow' = "none" /\ reload' = TRUE
  /\ UNCHANGED <<client, source, loaded, pc, stage, missed, came, inARow>>

\* Nothing from the bridge, or nowhere to be found: the form is shown.
FlowShowsForm ==
  /\ flow = "source" /\ (bridge # "up" \/ ~Configured)
  /\ flow' = "form"
  /\ UNCHANGED <<cloud, entry, notice, reload, came, inARow, counters>>

\* _async_finish: a person signs in, to this account or to another.
SignIn ==
  /\ flow = "form"
  /\ flow' = "none"
  /\ \/ /\ issued' = issued + 1 /\ live' = live \cup {issued + 1}
        /\ stored' = issued + 1
        /\ reload' = TRUE
     \/ UNCHANGED <<issued, live, stored, reload>>
  /\ UNCHANGED <<bridge, held, client, source, loaded, pc, stage, missed, notice,
                 came, inARow, counters>>

PersonActs ==
  people < MaxPeople /\ people' = people + 1
  /\ UNCHANGED <<deaths, faults, turns, restarts>>

\* async_step_reconfigure, at any time.
Reconfigure ==
  /\ flow = "none" /\ PersonActs
  /\ flow' = "form"
  /\ UNCHANGED <<cloud, entry, notice, reload, came, inARow>>

\* _async_reload_entry after the options change, or a reload by hand.
ChangeOptions ==
  /\ ~reload /\ PersonActs
  /\ reload' = TRUE
  /\ UNCHANGED <<cloud, entry, notice, flow, came, inARow>>

\* Home Assistant unloads the entry, which ends a poll but waits for a setup,
\* and sets it up again.
Reload ==
  /\ reload /\ reload' = FALSE
  /\ loaded \/ pc \in {"retry", "signin"}
  /\ pc' = "retry"
  /\ loaded' = FALSE
  /\ missed' = IF loaded THEN 0 ELSE missed
  /\ UNCHANGED <<cloud, stored, client, source, stage, notice, flow, came, inARow, counters>>
-----------------------------------------------------------------------------
(* What happens around them.                                               *)

TokenDies ==
  /\ deaths < MaxDeaths /\ deaths' = deaths + 1
  /\ \E t \in live : live' = live \ {t}
  /\ UNCHANGED <<issued, bridge, held, entry, notice, flow, reload, came, inARow,
                 faults, turns, people, restarts>>

BridgeTurns ==
  /\ turns < MaxTurns /\ turns' = turns + 1
  /\ bridge' \in BridgeKinds \ {bridge}
  /\ UNCHANGED <<live, issued, held, entry, notice, flow, reload, came, inARow,
                 deaths, faults, people, restarts>>

\* hass.data, the flows and the issue do not outlive the process.
Restart ==
  /\ restarts < MaxRestarts /\ restarts' = restarts + 1
  /\ pc' = "retry" /\ loaded' = FALSE /\ missed' = 0
  /\ notice' = FALSE /\ flow' = "none" /\ reload' = FALSE
  /\ UNCHANGED <<cloud, stored, client, source, stage, came, inARow,
                 deaths, faults, turns, people>>

\* A person has signed in, to the entry and to the bridge; Home Assistant
\* starts.
Init ==
  /\ issued = 2 /\ live = {1, 2}
  /\ bridge \in BridgeKinds /\ held = 2
  /\ stored = 1 /\ client = 1 /\ source = Configured
  /\ loaded = FALSE /\ pc = "retry" /\ stage = "account"
  /\ missed = 0 /\ notice = FALSE /\ flow = "none" /\ reload = FALSE
  /\ came = "none" /\ inARow = 0
  /\ deaths = 0 /\ faults = 0 /\ turns = 0 /\ people = 0 /\ restarts = 0

Renew == Taken \/ SameToken \/ Unavailable \/ Refused
Entry == Begin \/ Poll \/ Call \/ Renew \/ Reload
Flow == FlowTakes \/ FlowShowsForm

Next ==
  \/ Entry \/ Flow
  \/ SignIn \/ Reconfigure \/ ChangeOptions
  \/ TokenDies \/ BridgeTurns \/ Restart

Spec == Init /\ [][Next]_vars

\* Home Assistant retries setup, polls, and runs what it has scheduled; calls
\* end.  Nobody has to sign in.
FairSpec ==
  /\ Spec
  /\ WF_vars(Begin \/ Poll \/ Call \/ Renew)
  /\ WF_vars(Reload) /\ WF_vars(Flow)
-----------------------------------------------------------------------------
(* Properties.                                                             *)

\* The type invariant.  A poll belongs to an entry that is set up, the account
\* is read during setup only, and the budget is never overdrawn.
Numbers ==
  /\ issued \in Nat /\ live \subseteq 1 .. issued
  /\ held \in 1 .. issued /\ stored \in 1 .. issued /\ client \in 1 .. issued
  /\ missed \in 0 .. MaxAttempts /\ inARow \in 0 .. MaxAttempts + 1

Modes ==
  /\ source \in BOOLEAN /\ loaded \in BOOLEAN
  /\ reload \in BOOLEAN /\ notice \in BOOLEAN
  /\ bridge \in BridgeKinds /\ pc \in Places /\ stage \in {"account", "fetch"}
  /\ pc = "idle" => loaded
  /\ pc = "retry" => ~loaded
  /\ loaded => stage = "fetch"
  /\ flow \in {"none", "source", "form"}
  /\ came \in {"none", "taken", "refused", "unavailable"}

TypeOK == Numbers /\ Modes

\* The running client and the entry hold the same token, whichever of the
\* coordinator, the flow and a person replaced it, except until a scheduled
\* reload: so a restart never goes back to a token already replaced.
OneToken == reload \/ pc = "retry" \/ client = stored

\* Nobody is asked to sign in because the bridge was slow: it has left more
\* than MAX_RENEWAL_ATTEMPTS renewals unanswered since the account could last
\* be read, across setup retries, sign-ins and reloads ("the next time a token
\* dies this entry gets the full wait over again").
Patient == (pc = "signin" /\ came = "unavailable") => inARow > MaxAttempts

\* An entry that does not work works again or has a person asked, unless it has
\* already asked in vain: a bridge that is gone for good does not leave it
\* retrying for ever, and a flow that takes a token always ends in a setup.
Renews ==
  (~Working /\ (pc # "signin" \/ reload \/ flow # "none")) ~> (Working \/ flow = "form")
=============================================================================
