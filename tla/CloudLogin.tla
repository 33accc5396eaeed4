----------------------------- MODULE CloudLogin -----------------------------
(***************************************************************************)
(* How the bridge keeps itself signed in.  Every camera reconnects in a    *)
(* thread of its own and every cloud-token request runs in one too; they   *)
(* share the session file, the cloud's one live token and _LOGIN_LOCK.     *)
(* Anything can kill the token, and whoever notices logs in again unless   *)
(* somebody else already has.                                              *)
(***************************************************************************)
EXTENDS Naturals, FiniteSets

CONSTANTS
  Cameras,      \* workers that reconnect
  Clients,      \* requests for the cloud token
  Nobody,       \* the login lock is free
  HasProof,     \* TRUE: the session file keeps the proof of a verification
  MaxDeaths,    \* bound: tokens killed from outside
  MaxFaults,    \* bound: cloud calls, or camera connections, that fail
  MaxTurns,     \* bound: changes of what the account asks of a login
  MaxDrops,     \* bound: camera sessions that die
  MaxRestarts   \* bound: times the process is killed and started again

ASSUME LoginAssumption ==
  /\ Cameras \cap Clients = {}
  /\ Nobody \notin Cameras \cup Clients
  /\ HasProof \in BOOLEAN
  /\ MaxDeaths \in Nat /\ MaxFaults \in Nat /\ MaxTurns \in Nat
  /\ MaxDrops \in Nat /\ MaxRestarts \in Nat

Actors == Cameras \cup Clients

\* A token is the number of the login that issued it.  None is not one.
None == 0

VARIABLES
  account,     \* what the cloud asks of a login: see Demands
  live,        \* the token the cloud accepts, or None
  issued,      \* tokens the cloud has issued
  file,        \* the token in the session file; None while it is half written
  lock,        \* who holds _LOGIN_LOCK
  pc,          \* where each caller is
  mine,        \* the token each caller works with
  connected,   \* cameras with a P2P session
  needsLogin,  \* cameras whose worker.needs_login is set
  heldOff,     \* cameras whose _login_retry_at is still to come
  told,        \* how each caller's last attempt ended
  up,          \* the bridge serves
  stored,      \* history: every token the file has held
  demanded,    \* history: the account has wanted a person: see Demanding
  deaths, faults, turns, drops, restarts

cloud == <<account, live, issued, demanded>>
worker == <<connected, needsLogin, heldOff>>
counters == <<deaths, faults, turns, drops, restarts>>
vars == <<cloud, file, lock, pc, mine, worker, told, up, stored, counters>>

\* "open": no code is asked for.  "proof": none of a client that presents the
\* proof of an earlier verification.  "stale": the proof is no longer taken,
\* but a login without it is.  "code": one is always asked for.  "password":
\* the credentials are wrong.
Demands == {"open", "proof", "stale", "code", "password"}

WantsPerson ==
  account \in {"code", "password"} \/ (account = "proof" /\ ~HasProof)

\* Where a caller is inside _login_again, with the lock.
LoggingIn == {"login", "bare", "devices", "save", "write"}
Places == {"idle", "ask", "queue", "again"} \cup LoggingIn
Answers == {"none", "ok", "unavailable", "login_required", "bad_request"}
-----------------------------------------------------------------------------
(* How an attempt ends.                                                    *)

\* Mutant: a login that fails does not give the lock back.
TellKeepingLock(a, answer) ==
  /\ told' = [told EXCEPT ![a] = answer]
  /\ pc' = [pc EXCEPT ![a] = "idle"]
  /\ lock' = lock

\* _ensure tells a login problem from any other by the words of the message;
\* get_cloud_token by the type of the exception.
Tell(a, answer) ==
  /\ told' = [told EXCEPT ![a] = answer]
  /\ pc' = [pc EXCEPT ![a] = "idle"]
  /\ lock' = IF lock = a THEN Nobody ELSE lock

HoldOff(a) ==
  IF a \in Cameras
  THEN /\ needsLogin' = needsLogin \cup {a}
       /\ heldOff' = heldOff \cup {a}
       /\ UNCHANGED connected
  ELSE UNCHANGED worker

\* Mutant: a refused login is an outage like any other.
FailPersonAsOutage(a) == Tell(a, "unavailable") /\ UNCHANGED worker

\* LoginRequired: only a person can help.
FailPerson(a) ==
  Tell(a, IF a \in Cameras THEN "unavailable" ELSE "login_required") /\ HoldOff(a)

\* A SystemExit whose text has the word "login" in it.
FailLogin(a) == Tell(a, "unavailable") /\ HoldOff(a)

\* Any other SystemExit.
FailOther(a) == Tell(a, "unavailable") /\ UNCHANGED worker

Fault == faults < MaxFaults /\ faults' = faults + 1
             /\ UNCHANGED <<deaths, turns, drops, restarts>>

\* The camera connects, or the client is handed the token.
Succeed(a) ==
  /\ Tell(a, "ok")
  /\ IF a \in Cameras
     THEN /\ connected' = connected \cup {a}
          /\ needsLogin' = needsLogin \ {a}
          /\ UNCHANGED heldOff
     ELSE UNCHANGED worker
-----------------------------------------------------------------------------
(* One attempt: read the session, ask the cloud, perhaps log in again.     *)

\* The session file is read without the lock.  A file caught half written is
\* not JSON, and the ValueError is answered as a request that was.
Begin(a) ==
  /\ up /\ pc[a] = "idle"
  /\ a \in Cameras => a \notin connected /\ ~(a \in needsLogin /\ a \in heldOff)
  /\ IF file = None
     THEN Tell(a, "bad_request") /\ UNCHANGED mine
     ELSE /\ pc' = [pc EXCEPT ![a] = "ask"]
          /\ mine' = [mine EXCEPT ![a] = file]
          /\ told' = [told EXCEPT ![a] = "none"]
          /\ UNCHANGED lock
  /\ UNCHANGED <<cloud, file, worker, up, stored, counters>>

\* get_p2p_connection or get_account_info with the stored token.
Ask(a) ==
  /\ pc[a] = "ask"
  /\ \/ mine[a] = live /\ Succeed(a) /\ UNCHANGED counters
     \/ FailOther(a) /\ Fault
     \/ /\ mine[a] # live
        /\ pc' = [pc EXCEPT ![a] = "queue"]
        /\ UNCHANGED <<lock, told, worker, counters>>
  /\ UNCHANGED <<cloud, file, mine, up, stored>>

\* silent_relogin with the lock just taken: somebody else has logged in ...
Skip(a) ==
  /\ pc[a] = "queue" /\ lock = Nobody
  /\ file \notin {None, mine[a]}
  /\ mine' = [mine EXCEPT ![a] = file]
  /\ IF a \in Cameras
     THEN pc' = [pc EXCEPT ![a] = "again"] /\ UNCHANGED <<lock, told, worker>>
     ELSE Succeed(a)
  /\ UNCHANGED <<cloud, file, up, stored, counters>>

\* Mutant: the stored token is not looked at again once the lock is taken.
AcquireAnyway(a) ==
  /\ pc[a] = "queue" /\ lock = Nobody
  /\ lock' = a
  /\ pc' = [pc EXCEPT ![a] = "login"]
  /\ UNCHANGED <<cloud, file, mine, worker, told, up, stored, counters>>

\* Mutant: logins do not wait for each other.
AcquireUnlocked(a) ==
  /\ pc[a] = "queue"
  /\ file \in {None, mine[a]}
  /\ lock' = a
  /\ pc' = [pc EXCEPT ![a] = "login"]
  /\ UNCHANGED <<cloud, file, mine, worker, told, up, stored, counters>>

\* ... or the stored token is still the one that was refused.
Acquire(a) ==
  /\ pc[a] = "queue" /\ lock = Nobody
  /\ file \in {None, mine[a]}
  /\ lock' = a
  /\ pc' = [pc EXCEPT ![a] = "login"]
  /\ UNCHANGED <<cloud, file, mine, worker, told, up, stored, counters>>

\* Mutant: a caller that waited too long is told that a person is needed.
GiveUpForGood(a) ==
  /\ pc[a] = "queue" /\ lock # Nobody
  /\ FailPerson(a)
  /\ UNCHANGED <<cloud, file, mine, up, stored, counters>>

\* "a login is already running; try again shortly"
GiveUp(a) ==
  /\ pc[a] = "queue" /\ lock # Nobody
  /\ FailLogin(a)
  /\ UNCHANGED <<cloud, file, mine, up, stored, counters>>

\* What start_login comes to, with or without the proof.
LogsIn(proof) ==
  account = "open" \/ (account = "proof" /\ proof) \/ (account = "stale" /\ ~proof)

\* A login that goes through replaces the live token with a new one.
Issue(a) ==
  /\ issued' = issued + 1
  /\ live' = issued + 1
  /\ mine' = [mine EXCEPT ![a] = issued + 1]
  /\ pc' = [pc EXCEPT ![a] = "devices"]
  /\ UNCHANGED <<account, demanded, lock, told, worker, counters>>

\* One that does not.  Unreachable names the endpoint, which has "login" in
\* it; any error with a code, a rate limit too, counts as a refusal.
NotIn(a) ==
  \/ account = "password" /\ FailPerson(a) /\ UNCHANGED counters
  \/ FailLogin(a) /\ Fault
  \/ FailPerson(a) /\ Fault

StartLogin(a) ==
  /\ pc[a] = "login"
  /\ \/ LogsIn(HasProof) /\ Issue(a)
     \/ NotIn(a) /\ UNCHANGED <<cloud, mine>>
     \/ /\ ~LogsIn(HasProof) /\ account # "password"
        /\ IF HasProof
           THEN pc' = [pc EXCEPT ![a] = "bare"] /\ UNCHANGED <<lock, told, worker>>
           ELSE FailPerson(a)
        /\ UNCHANGED <<cloud, mine, counters>>
  /\ UNCHANGED <<file, up, stored>>

\* The stored proof was not accepted: once more without it.
StartBare(a) ==
  /\ pc[a] = "bare"
  /\ \/ LogsIn(FALSE) /\ Issue(a)
     \/ NotIn(a) /\ UNCHANGED <<cloud, mine>>
     \/ /\ ~LogsIn(FALSE) /\ account # "password"
        /\ FailPerson(a)
        /\ UNCHANGED <<cloud, mine, counters>>
  /\ UNCHANGED <<file, up, stored>>

\* The new token is lost when the list of cameras cannot be read.
GetDevices(a) ==
  /\ pc[a] = "devices"
  /\ \/ mine[a] = live /\ pc' = [pc EXCEPT ![a] = "save"]
        /\ UNCHANGED <<lock, told, worker, counters>>
     \/ mine[a] # live /\ FailLogin(a) /\ UNCHANGED counters
     \/ FailOther(a) /\ Fault
  /\ UNCHANGED <<cloud, file, mine, up, stored>>

\* write_text empties the file ...
Truncate(a) ==
  /\ pc[a] = "save"
  /\ file' = None
  /\ pc' = [pc EXCEPT ![a] = "write"]
  /\ UNCHANGED <<cloud, lock, mine, worker, told, up, stored, counters>>

\* ... and then fills it; the lock is released.
Write(a) ==
  /\ pc[a] = "write"
  /\ file' = mine[a]
  /\ stored' = stored \cup {mine[a]}
  /\ IF a \in Cameras
     THEN /\ pc' = [pc EXCEPT ![a] = "again"]
          /\ lock' = Nobody
          /\ UNCHANGED <<told, worker>>
     ELSE Succeed(a)
  /\ UNCHANGED <<cloud, mine, up, counters>>

\* A camera asks once more with the new token; a client is not checked for.
AskAgain(a) ==
  /\ pc[a] = "again"
  /\ \/ mine[a] = live /\ Succeed(a) /\ UNCHANGED counters
     \/ mine[a] # live /\ FailLogin(a) /\ UNCHANGED counters
     \/ FailOther(a) /\ Fault
  /\ UNCHANGED <<cloud, file, mine, up, stored>>
-----------------------------------------------------------------------------
(* What happens around the callers.                                        *)

\* The hold-off of one camera ends.
RetryDue(c) ==
  /\ c \in heldOff
  /\ heldOff' = heldOff \ {c}
  /\ UNCHANGED <<cloud, file, lock, pc, mine, connected, needsLogin, told, up,
                 stored, counters>>

TokenDies ==
  /\ live # None /\ deaths < MaxDeaths
  /\ live' = None
  /\ deaths' = deaths + 1
  /\ UNCHANGED <<account, issued, demanded, file, lock, pc, mine, worker, told, up,
                 stored, faults, turns, drops, restarts>>

\* A login that has put its proof aside is asked for a code even where it would
\* have gone through with it.
Demanding ==
  WantsPerson \/ (account = "proof" /\ \E a \in Actors : pc[a] = "bare")

AccountTurns ==
  /\ turns < MaxTurns
  /\ account' \in Demands \ {account}
  /\ turns' = turns + 1
  /\ UNCHANGED <<live, issued, file, lock, pc, mine, worker, told, up, stored, deaths, faults,
                 drops, restarts>>
  /\ demanded' = (demanded \/ Demanding')

SessionDrops(c) ==
  /\ c \in connected /\ drops < MaxDrops
  /\ connected' = connected \ {c}
  /\ drops' = drops + 1
  /\ UNCHANGED <<cloud, file, lock, pc, mine, needsLogin, heldOff, told, up, stored, deaths, faults, turns, restarts>>

\* The process is killed and run.sh starts it again.  run.sh looks only
\* whether there is a session file; build_workers has to read it.
Restart ==
  /\ restarts < MaxRestarts
  /\ restarts' = restarts + 1
  /\ up' = (file # None)
  /\ lock' = Nobody
  /\ pc' = [a \in Actors |-> "idle"]
  /\ told' = [a \in Actors |-> "none"]
  /\ connected' = {} /\ needsLogin' = {} /\ heldOff' = {}
  /\ UNCHANGED <<cloud, file, mine, stored, deaths, faults, turns, drops>>

Init ==
  /\ account \in {"open", "proof"}
  /\ live = 1 /\ issued = 1 /\ file = 1
  /\ lock = Nobody
  /\ pc = [a \in Actors |-> "idle"]
  /\ mine = [a \in Actors |-> None]
  /\ connected = {} /\ needsLogin = {} /\ heldOff = {}
  /\ told = [a \in Actors |-> "none"]
  /\ up = TRUE
  /\ stored = {1} /\ demanded = WantsPerson
  /\ deaths = 0 /\ faults = 0 /\ turns = 0 /\ drops = 0 /\ restarts = 0

Step(a) ==
  \/ Ask(a) \/ Skip(a) \/ Acquire(a) \/ GiveUp(a)
  \/ StartLogin(a) \/ StartBare(a) \/ GetDevices(a)
  \/ Truncate(a) \/ Write(a) \/ AskAgain(a)

Next ==
  \/ \E a \in Actors : Begin(a) \/ Step(a)
  \/ \E c \in Cameras : RetryDue(c) \/ SessionDrops(c)
  \/ TokenDies \/ AccountTurns \/ Restart

Spec == Init /\ [][Next]_vars

\* Threads run, cloud calls end, _refresh_loop asks every camera again and
\* time passes.
FairSpec ==
  /\ Spec
  /\ \A a \in Actors : WF_vars(Step(a))
  /\ \A c \in Cameras : WF_vars(Begin(c)) /\ WF_vars(RetryDue(c))
-----------------------------------------------------------------------------
(* Properties.                                                             *)

\* The type invariant.  The lock is held by whoever is inside _login_again and
\* by nobody else, and no token is older than the cloud's first or newer than
\* its latest.
TypeOK ==
  /\ account \in Demands /\ issued \in Nat
  /\ live \in 0 .. issued /\ file \in 0 .. issued
  /\ pc \in [Actors -> Places]
  /\ mine \in [Actors -> 0 .. issued]
  /\ told \in [Actors -> Answers]
  /\ connected \subseteq Cameras /\ needsLogin \subseteq Cameras
  /\ heldOff \subseteq Cameras
  /\ up \in BOOLEAN /\ demanded \in BOOLEAN
  /\ lock \in Actors \cup {Nobody}
  /\ \A a \in Actors : lock = a <=> pc[a] \in LoggingIn

\* One dead token costs one login: while anybody is logging in, the cloud does
\* not accept the token in the session file, so nobody logs in because of a
\* token another camera or request has already replaced (silent_relogin).
NoNeedlessLogin ==
  (\E a \in Actors : pc[a] \in LoggingIn) => file = None \/ file # live

\* The session file never goes back to an older token, whatever order the
\* logins of several cameras finish in.
NewestKept == file = None \/ \A t \in stored : t <= file

\* Once the account no longer wants a person, every camera gets back its
\* session: no failure leaves the login lock held or a camera held off for
\* good, and no stale token is used for ever.
Recovers ==
  <>[](up /\ ~WantsPerson) => <>[](connected = Cameras)

\* A camera without a session that only a person can bring back says so:
\* needs_login is set, unless the cloud comes round first or a kill tore the
\* session file, without which the bridge does not come up.
ToldToSignIn ==
  \A c \in Cameras :
    (WantsPerson /\ live = None /\ c \notin connected)
      ~> (c \in needsLogin \/ ~WantsPerson \/ live # None \/ ~up)

\* A client is told to ask somebody to sign in only when the account wants
\* that, or the login endpoint failed: never because others were logging in or
\* a token died at the wrong moment.
SentForAReason ==
  \A a \in Clients : told[a] = "login_required" => demanded \/ faults > 0
=============================================================================
