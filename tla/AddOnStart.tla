----------------------------- MODULE AddOnStart -----------------------------
(***************************************************************************)
(* What one start of the add-on does to the files in /data, from run.sh    *)
(* through the two-step login of furbo_p2p.py, and what many of them do in *)
(* a row.  Signing in with an emailed code takes two starts; asking for a  *)
(* reset is an option that somebody turns on and may forget to turn off.   *)
(* The container can be killed between any two writes, and in the middle   *)
(* of one: write_text empties a file, and then fills it.                   *)
(***************************************************************************)
EXTENDS Integers

CONSTANT
  MaxIds      \* bound: device ids made up

ASSUME StartAssumption == MaxIds \in Nat

\* What a file holds is a device id, or one of these: there is no file, or one
\* that cannot be read.
None == 0
Torn == -1
Whole(file) == file > 0

VARIABLES
  option,     \* the options as they are now: reset_session, an mfa_code is set
  given,      \* the options as this start read them
  pc,         \* where run.sh is: see Places
  session,    \* FURBO_SESSION_FILE
  pending,    \* PENDING: the login parked there
  resetDone,  \* RESET_DONE exists
  device,     \* furbo_device.json
  mine,       \* the device id of the login under way
  how,        \* what that login is: see How
  ids,        \* how many device ids have been made up
  earned,     \* history: the session is younger than the reset asked for
  kept,       \* history: the device id last written whole, or None
  exposed     \* history: the device file has been left without it

files == <<session, pending, resetDone, device>>
login == <<mine, how, ids>>
history == <<earned, kept, exposed>>
vars == <<option, given, pc, files, login, history>>

Options == [reset : BOOLEAN, code : BOOLEAN]

\* "wait": idle, for a person to read the log.  "stopped": no container.
LoggingIn == {"verify", "login", "send", "park", "devices", "relogin", "unlink", "remember",
              "keep", "write", "fill"}
Places == {"stopped", "reset", "clear", "clearPending", "mark", "session",
           "look", "wait", "serve"} \cup LoggingIn

\* login --send-only, login --code, and _login_again: where run.sh is once it has
\* succeeded, or failed ("|| true" covers the first).
How == {"ask", "code", "again"}
Done == [ask |-> "look", code |-> "serve", again |-> "serve"]
Failed == [ask |-> "look", code |-> "stopped", again |-> "serve"]
-----------------------------------------------------------------------------
Start ==
  /\ pc = "stopped"
  /\ given' = option
  /\ pc' = "reset"
  /\ UNCHANGED <<option, files, login, history>>

\* A code has been entered for a login that is parked.
Finishing == given.code /\ pending # None

\* Mutant: finishing a login does not count as the reset.
KeepPendingUnmarked ==
  /\ pc = "reset" /\ given.reset /\ Finishing
  /\ pc' = "session"
  /\ UNCHANGED <<option, given, session, pending, resetDone, device, login, history>>

\* "Finishing this login IS the reset the option asked for."
KeepPending ==
  /\ pc = "reset" /\ given.reset /\ Finishing
  /\ resetDone' = TRUE
  /\ pc' = "session"
  /\ UNCHANGED <<option, given, session, pending, device, login, history>>

\* The reset has been carried out, and there is a session again.
LeaveAlone ==
  /\ pc = "reset" /\ given.reset /\ ~Finishing
  /\ resetDone /\ session # None
  /\ pc' = "session"
  /\ UNCHANGED <<option, given, files, login, history>>

Clear ==
  /\ pc = "reset" /\ given.reset /\ ~Finishing
  /\ ~(resetDone /\ session # None)
  /\ pc' = "clear"
  /\ UNCHANGED <<option, given, files, login, history>>

\* rm -f "$FURBO_SESSION_FILE" "$PENDING"
ClearSession ==
  /\ pc = "clear"
  /\ session' = None /\ pc' = "clearPending"
  /\ UNCHANGED <<option, given, pending, resetDone, device, login, history>>

ClearPending ==
  /\ pc = "clearPending"
  /\ pending' = None /\ pc' = "mark"
  /\ UNCHANGED <<option, given, session, resetDone, device, login, history>>

MarkDone ==
  /\ pc = "mark"
  /\ resetDone' = TRUE /\ pc' = "session"
  /\ UNCHANGED <<option, given, session, pending, device, login, history>>

\* Mutant: the marker stays when the option goes off.
RearmNever ==
  /\ pc = "reset" /\ ~given.reset
  /\ earned' = FALSE
  /\ pc' = "session"
  /\ UNCHANGED <<option, given, files, login, kept, exposed>>

\* The option is off: the next time it is turned on, it resets.
Rearm ==
  /\ pc = "reset" /\ ~given.reset
  /\ resetDone' = FALSE /\ earned' = FALSE
  /\ pc' = "session"
  /\ UNCHANGED <<option, given, session, pending, device, login, kept, exposed>>
-----------------------------------------------------------------------------
(* The session, and the login that makes one.                              *)

\* go2rtc-config and serve have to read the session file.
Serve ==
  /\ pc = "session" /\ session # None
  /\ pc' = IF Whole(session) THEN "serve" ELSE "stopped"
  /\ UNCHANGED <<option, given, files, login, history>>

\* No email or no password: exit 1.
NoCredentials ==
  /\ pc = "session" /\ session = None
  /\ pc' = "stopped"
  /\ UNCHANGED <<option, given, files, login, history>>

\* login --code: the parked login knows its own device id.
FinishLogin ==
  /\ pc = "session" /\ session = None /\ Finishing
  /\ IF Whole(pending)
     THEN mine' = pending /\ how' = "code" /\ pc' = "verify"
     ELSE UNCHANGED <<mine, how>> /\ pc' = "stopped"
  /\ UNCHANGED <<option, given, files, ids, history>>

\* _stored_mobile_id: the device file, or else the session.
Stored == IF Whole(device) THEN device ELSE IF Whole(session) THEN session ELSE None

\* Mutant: every login is a new client's.
PresentNew == ids < MaxIds /\ ids' = ids + 1 /\ mine' = ids + 1

\* _stored_mobile_id() or new_mobile_id().
Present ==
  IF Stored # None THEN mine' = Stored /\ UNCHANGED ids
  ELSE ids < MaxIds /\ ids' = ids + 1 /\ mine' = ids + 1

\* login --send-only.
RequestCode ==
  /\ pc = "session" /\ session = None /\ ~Finishing
  /\ Present
  /\ how' = "ask" /\ pc' = "login"
  /\ UNCHANGED <<option, given, files, history>>

\* _login_again, while it serves: the cloud refused the stored token.
Relogin ==
  /\ pc = "serve"
  /\ Present
  /\ how' = "again" /\ pc' = "relogin"
  /\ UNCHANGED <<option, given, files, history>>

\* complete_login with the code; start_login; all of _login_again's calls;
\* get_devices.
CloudAnswers ==
  /\ \/ pc = "verify" /\ pc' = "devices"
     \/ pc = "login" /\ pc' \in {"devices", "send"}
     \/ pc = "relogin" /\ pc' = "remember"
     \/ pc = "devices" /\ pc' = "unlink"
  /\ UNCHANGED <<option, given, files, login, history>>

CloudFails ==
  /\ pc \in {"verify", "login", "send", "devices", "relogin"}
  /\ pc' = Failed[how]
  /\ UNCHANGED <<option, given, files, login, history>>

\* send_mfa_code has emailed the code: the login is parked until it is entered.
Park ==
  /\ pc = "send"
  /\ pending' = Torn /\ pc' = "park"
  /\ UNCHANGED <<option, given, session, resetDone, device, login, history>>

Parked ==
  /\ pc = "park"
  /\ pending' = mine /\ pc' = "look"
  /\ UNCHANGED <<option, given, session, resetDone, device, login, history>>

Unlink ==
  /\ pc = "unlink"
  /\ pending' = None /\ pc' = "remember"
  /\ UNCHANGED <<option, given, session, resetDone, device, login, history>>

\* _remember_mobile_id empties the device file and fills it.
Remember ==
  /\ pc = "remember"
  /\ device' = Torn /\ pc' = "keep"
  /\ UNCHANGED <<option, given, session, pending, resetDone, login, history>>

Keep ==
  /\ pc = "keep"
  /\ device' = mine /\ pc' = "write"
  /\ kept' = mine /\ exposed' = FALSE
  /\ UNCHANGED <<option, given, session, pending, resetDone, login, earned>>

\* "a read-only data dir should not fail a login": it goes on if neither, or only
\* the first, can be done.
ForgoDevice ==
  /\ pc \in {"remember", "keep"}
  /\ pc' = "write"
  /\ exposed' = (exposed \/ ~Whole(device))
  /\ UNCHANGED <<option, given, files, login, earned, kept>>

\* The session file, the same way.
Truncate ==
  /\ pc = "write"
  /\ session' = Torn /\ pc' = "fill"
  /\ earned' = given.reset
  /\ UNCHANGED <<option, given, pending, resetDone, device, login, kept, exposed>>

Fill ==
  /\ pc = "fill"
  /\ session' = mine /\ kept' = mine
  /\ pc' = Done[how]
  /\ UNCHANGED <<option, given, pending, resetDone, device, login, earned, exposed>>

\* Here an OSError does fail the login.
WriteFails ==
  /\ pc \in {"park", "write", "fill"}
  /\ pc' = Failed[how]
  /\ UNCHANGED <<option, given, files, login, history>>

\* "What happened is on disk, so read it there."
Look ==
  /\ pc = "look"
  /\ pc' = IF session = None THEN "wait" ELSE IF Whole(session) THEN "serve" ELSE "stopped"
  /\ UNCHANGED <<option, given, files, login, history>>
-----------------------------------------------------------------------------
\* Somebody edits the options, at any time; they are read by the next start.
ChangeOptions ==
  /\ option' \in Options \ {option}
  /\ UNCHANGED <<given, pc, files, login, history>>

\* The container is stopped, restarted or loses its power.
Kill ==
  /\ pc # "stopped"
  /\ pc' = "stopped"
  /\ exposed' = (exposed \/ device = Torn)
  /\ UNCHANGED <<option, given, files, login, earned, kept>>

\* A fresh installation, one that is signed in, or one signed in by a version
\* that kept the device id in the session only.
Init ==
  /\ option \in Options /\ given = option
  /\ pc = "stopped"
  /\ ids \in {0, 1} /\ session = ids /\ device \in {None, ids}
  /\ pending = None /\ resetDone = FALSE
  /\ mine = None /\ how = "ask"
  /\ earned = FALSE /\ kept = session /\ exposed = (device # session)

Reset == KeepPending \/ LeaveAlone \/ Clear \/ ClearSession \/ ClearPending \/ MarkDone \/ Rearm
Login == FinishLogin \/ RequestCode \/ Relogin \/ CloudAnswers \/ CloudFails
           \/ Park \/ Parked \/ Unlink \/ Remember \/ Keep \/ ForgoDevice
           \/ Truncate \/ Fill \/ WriteFails

Next ==
  \/ Start \/ Reset \/ Serve \/ NoCredentials \/ Login \/ Look
  \/ ChangeOptions \/ Kill

Spec == Init /\ [][Next]_vars
-----------------------------------------------------------------------------
(* Properties.                                                             *)

\* The type invariant.  A parked login and a session never exist together, so
\* a code is never entered for a login that nobody needs any more.
TypeOK ==
  /\ option \in Options /\ given \in Options /\ pc \in Places
  /\ session \in Torn .. ids /\ pending \in Torn .. ids /\ device \in Torn .. ids
  /\ mine \in None .. ids /\ kept \in None .. ids /\ ids \in Nat
  /\ how \in How
  /\ pending # None => session = None
  /\ resetDone \in BOOLEAN /\ earned \in BOOLEAN /\ exposed \in BOOLEAN

\* "The option asks for a reset, not for one per restart": a session made
\* since the reset was asked for is never thrown away, however often the
\* add-on starts, by whichever way the login came, until a start has seen the
\* option off.
EarnedKept == [][earned /\ session # None => session' # None \/ ~earned']_vars

\* A start that finds the option on does not serve with a session from before
\* it was turned on: neither the marker of an earlier reset nor a parked login
\* makes it skip this one.
ResetCarriedOut == pc = "serve" /\ given.reset => earned

\* "Clearing a dead token should not also change who this bridge claims to
\* be": once a device id has been written down, every later login presents it,
\* through resets, parked logins, relogins and writes that fail, unless the
\* device file was left without it, cut short by a kill or a full disk or never
\* written, and there is no session to take it from.
DeviceKept ==
  [][kept # None /\ (exposed => Whole(session)) => mine' \in {mine, kept}]_vars
=============================================================================
