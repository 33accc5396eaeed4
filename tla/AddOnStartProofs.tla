-------------------------- MODULE AddOnStartProofs --------------------------
(***************************************************************************)
(* Proofs about AddOnStart: whatever the options, however often the add-on *)
(* is started and wherever it is killed, a reset is carried out exactly    *)
(* once, and the device id survives it if its file was left whole.         *)
(***************************************************************************)
EXTENDS AddOnStart, TLAPS

Before == {"stopped", "reset", "clear", "clearPending", "mark"}

\* Which places of run.sh and of the login have no session on disk.
Unsigned ==
  /\ pc \in {"clearPending", "mark", "verify", "login", "send", "park", "devices", "unlink"}
       => session = None
  /\ pc \in {"verify", "login", "send", "park", "devices", "unlink"} => how \in {"ask", "code"}

\* A login that is about to be kept has no parked one beside it, and whoever
\* serves has a session.
Signed ==
  /\ pc \in {"remember", "keep", "write"} => pending = None
  /\ pc \in {"serve", "relogin", "fill"} => session # None
  /\ pc \in LoggingIn /\ how = "again" => session # None

\* The marker says what has become of the option that this start read.
Marked ==
  /\ pc \in {"clear", "clearPending", "mark"} => given.reset
  /\ pc = "clear" => ~(resetDone /\ session # None)
  /\ pc \notin Before => (resetDone <=> given.reset)

\* Beside the marker a session is one made since, and only there.
Since ==
  /\ resetDone /\ session # None => earned
  /\ earned => resetDone

\* Every file that can be read names the device id written down last, and a
\* login under way has it too.
OneDevice ==
  /\ Whole(device) => device = kept
  /\ Whole(session) => session = kept
  /\ Whole(pending) /\ Whole(device) => pending = device
  /\ pc \in LoggingIn => Whole(mine)
  /\ pc \in LoggingIn /\ Whole(device) => mine = device
  /\ pc \in LoggingIn /\ Whole(session) => mine = session

\* The device file has it, but for the moment in which it is rewritten, or it
\* counts as exposed.
Covered ==
  ~exposed =>
    /\ kept # None => Whole(device) \/ (device = Torn /\ pc = "keep")
    /\ pc \in {"write", "fill"} => Whole(device)

IInv == TypeOK /\ Unsigned /\ Signed /\ Marked /\ Since /\ OneDevice /\ Covered

LEMMA InitIInv == Init => IInv
<1> SUFFICES ASSUME Init PROVE IInv
  OBVIOUS
<1>1. /\ option \in Options /\ given \in Options /\ pc \in Places
      /\ resetDone \in BOOLEAN /\ earned \in BOOLEAN /\ how \in How
  BY DEF Init, Places, How
<1>2. exposed \in BOOLEAN
  BY DEF Init
<1>3. /\ ids \in Nat /\ session \in Torn .. ids /\ pending \in Torn .. ids
      /\ device \in Torn .. ids /\ mine \in None .. ids /\ kept \in None .. ids
  BY DEF Init, None, Torn
<1>4. Unsigned /\ Signed /\ Marked /\ Since
  BY DEF Init, Unsigned, Signed, Marked, Since, Before, LoggingIn
<1>6. OneDevice /\ Covered
  <2>1. session \in {0, 1} /\ kept = session /\ device \in {0, session} /\ ~Whole(pending)
    BY DEF Init, Whole, None
  <2>2. pc \notin LoggingIn /\ exposed = (device # session)
    BY DEF Init, LoggingIn
  <2>3. Whole(device) => device = kept
    BY <2>1 DEF Whole
  <2>4. ~exposed => device = session
    BY <2>2, Zenon
  <2>5. kept # None /\ ~exposed => Whole(device)
    BY <2>1, <2>4 DEF Whole, None
  <2> QED BY <2>1, <2>2, <2>3, <2>5 DEF OneDevice, Covered, LoggingIn
<1>5. pending # None => session = None
  BY DEF Init
<1> QED BY <1>1, <1>2, <1>3, <1>4, <1>5, <1>6 DEF IInv, TypeOK

\* The start itself, and what run.sh does about the option.
LEMMA StartStep == IInv /\ Start => IInv'
BY DEF Start, IInv, TypeOK, Unsigned, Signed, Marked, Since, OneDevice, Covered, Places,
       LoggingIn, Before, files, login, history

LEMMA ResetStep == IInv /\ Reset => IInv'
<1> SUFFICES ASSUME IInv, Reset PROVE IInv'
  OBVIOUS
<1> USE DEF IInv, TypeOK, Unsigned, Signed, Marked, Since, OneDevice, Covered, Places,
            LoggingIn, Before, Whole, None, Torn, files, login, history
<1>1. CASE KeepPending
  BY <1>1 DEF KeepPending, Finishing
<1>2. CASE LeaveAlone
  BY <1>2 DEF LeaveAlone
<1>3. CASE Clear
  BY <1>3 DEF Clear
<1>4. CASE ClearSession
  BY <1>4 DEF ClearSession
<1>5. CASE ClearPending
  BY <1>5 DEF ClearPending
<1>6. CASE MarkDone
  BY <1>6 DEF MarkDone
<1>7. CASE Rearm
  BY <1>7 DEF Rearm
<1> QED BY <1>1, <1>2, <1>3, <1>4, <1>5, <1>6, <1>7 DEF Reset

\* The device id a login presents is the one on record, if one is.
LEMMA PresentStep ==
  ASSUME IInv, Present
  PROVE  /\ ids' \in Nat /\ ids <= ids' /\ mine' \in 1 .. ids'
         /\ Whole(device) => mine' = device
         /\ Whole(session) => mine' = session
<1> USE DEF IInv, TypeOK, OneDevice, Whole, None, Torn
<1>1. CASE Stored # None
  BY <1>1 DEF Present, Stored
<1>2. CASE Stored = None
  BY <1>2 DEF Present, Stored
<1> QED BY <1>1, <1>2

\* The login, up to the session file.
LEMMA LoginStep == IInv /\ Login => IInv'
<1> SUFFICES ASSUME IInv, Login PROVE IInv'
  OBVIOUS
<1> USE DEF IInv, TypeOK, Unsigned, Signed, Marked, Since, OneDevice, Covered, Places,
            LoggingIn, Before, Whole, None, Torn, files, login, history
<1>1. CASE FinishLogin
  BY <1>1 DEF FinishLogin, Finishing, How
<1>2. CASE RequestCode
  <2>1. Present
    BY <1>2 DEF RequestCode
  <2>2. /\ ids' \in Nat /\ ids <= ids' /\ mine' \in 1 .. ids'
        /\ Whole(device) => mine' = device
        /\ Whole(session) => mine' = session
    BY <2>1, PresentStep
  <2> QED BY <1>2, <2>2 DEF RequestCode, How
<1>3. CASE Relogin
  <2>1. Present
    BY <1>3 DEF Relogin
  <2>2. /\ ids' \in Nat /\ ids <= ids' /\ mine' \in 1 .. ids'
        /\ Whole(device) => mine' = device
        /\ Whole(session) => mine' = session
    BY <2>1, PresentStep
  <2> QED BY <1>3, <2>2 DEF Relogin, How
<1>4. CASE CloudAnswers
  BY <1>4 DEF CloudAnswers, How
<1>5. CASE CloudFails
  BY <1>5 DEF CloudFails, Failed, How
<1>6. CASE Park
  BY <1>6 DEF Park
<1>7. CASE Parked
  BY <1>7 DEF Parked
<1>8. CASE Unlink
  BY <1>8 DEF Unlink
<1>9. CASE Remember
  BY <1>9 DEF Remember
<1>10. CASE Keep
  <2>1. /\ pc = "keep" /\ device' = mine /\ pc' = "write" /\ kept' = mine /\ exposed' = FALSE
        /\ UNCHANGED <<option, given, session, pending, resetDone, mine, how, ids, earned>>
    BY <1>10 DEF Keep
  <2>2. Whole(mine) /\ pending = None /\ (Whole(session) => mine = session)
    BY <2>1
  <2>3. device' \in Torn .. ids' /\ kept' \in None .. ids' /\ pc' \in Places
    BY <2>1, <2>2
  <2> HIDE DEF Whole, None, Torn
  <2>4. TypeOK'
    BY <2>1, <2>2, <2>3
  <2>5. Unsigned' /\ Signed' /\ Marked' /\ Since'
    BY <2>1, <2>2
  <2>6. Whole(device') /\ (Whole(session) => session' = kept')
    BY <2>1, <2>2 DEF Whole
  <2>7. OneDevice' /\ Covered'
    BY <2>1, <2>2, <2>6 DEF Whole, None
  <2> HIDE DEF IInv, TypeOK, Unsigned, Signed, Marked, Since, OneDevice, Covered
  <2> QED BY <2>4, <2>5, <2>7 DEF IInv
<1>11. CASE ForgoDevice
  BY <1>11 DEF ForgoDevice
<1>12. CASE Truncate
  BY <1>12 DEF Truncate, Options
<1>13. CASE Fill
  <2>1. /\ pc = "fill" /\ session' = mine /\ kept' = mine /\ pc' \in {"look", "serve"}
        /\ UNCHANGED <<option, given, pending, resetDone, device, mine, how, ids, earned,
                       exposed>>
    BY <1>13 DEF Fill, Done, How
  <2>2. Whole(mine) /\ session # None /\ (Whole(device) => mine = device)
    BY <2>1
  <2>3. TypeOK'
    BY <2>1, <2>2
  <2>4. Unsigned' /\ Signed' /\ Marked' /\ Since'
    BY <2>1, <2>2
  <2>5. OneDevice'
    BY <2>1, <2>2
  <2>6. Covered'
    BY <2>1, <2>2
  <2> HIDE DEF IInv, TypeOK, Unsigned, Signed, Marked, Since, OneDevice, Covered
  <2> QED BY <2>3, <2>4, <2>5, <2>6 DEF IInv
<1>14. CASE WriteFails
  BY <1>14 DEF WriteFails, Failed, How
<1> QED BY <1>1, <1>2, <1>3, <1>4, <1>5, <1>6, <1>7, <1>8, <1>9, <1>10, <1>11, <1>12, <1>13, <1>14 DEF Login

\* Everything else leaves the files alone.
LEMMA OtherStep ==
  ASSUME IInv, Serve \/ NoCredentials \/ Look \/ ChangeOptions \/ Kill
  PROVE  IInv'
<1> USE DEF IInv, TypeOK, Unsigned, Signed, Marked, Since, OneDevice, Covered, Places,
            LoggingIn, Before, Whole, None, Torn, files, login, history
<1>1. CASE Serve
  BY <1>1 DEF Serve
<1>2. CASE NoCredentials
  BY <1>2 DEF NoCredentials
<1>3. CASE Look
  BY <1>3 DEF Look
<1>4. CASE ChangeOptions
  BY <1>4 DEF ChangeOptions
<1>5. CASE Kill
  BY <1>5 DEF Kill
<1> QED BY <1>1, <1>2, <1>3, <1>4, <1>5

LEMMA StutterStep == IInv /\ UNCHANGED vars => IInv'
BY DEF vars, files, login, history, IInv, TypeOK, Unsigned, Signed, Marked, Since, OneDevice,
       Covered

LEMMA NextStep == IInv /\ [Next]_vars => IInv'
BY StartStep, ResetStep, LoginStep, OtherStep, StutterStep DEF Next

THEOREM Invariant == Spec => []IInv
BY InitIInv, NextStep, PTL DEF Spec

\* The type invariant: a parked login and a session never exist together,
\* however the add-on is killed and started (the order of cloud_login's writes).
THEOREM TypeCorrect == Spec => []TypeOK
BY Invariant, PTL DEF IInv

\* A start that finds reset_session on serves with a session made since.
THEOREM ResetOnce == Spec => []ResetCarriedOut
<1>1. IInv => ResetCarriedOut
  BY DEF IInv, ResetCarriedOut, Marked, Since, Signed, Before
<1> QED BY <1>1, Invariant, PTL

\* And that session is never thrown away by leaving the option on.
THEOREM NotEveryStart == Spec => EarnedKept
<1>1. IInv /\ [Next]_vars => [earned /\ session # None => session' # None \/ ~earned']_vars
  <2> SUFFICES ASSUME IInv, Next, earned, session # None
               PROVE  session' # None \/ ~earned'
    BY DEF IInv
  <2>1. CASE Reset
    BY <2>1 DEF Reset, KeepPending, LeaveAlone, Clear, ClearSession, ClearPending, MarkDone,
                Rearm, files, IInv, Marked, Since
  <2>2. CASE Login
    <3>1. CASE Fill
      <4>1. Whole(mine) /\ session' = mine
        BY <3>1 DEF Fill, IInv, OneDevice, LoggingIn
      <4> QED BY <4>1 DEF Whole, None
    <3>2. CASE Truncate
      BY <3>2 DEF Truncate, None, Torn
    <3>3. CASE ~Fill /\ ~Truncate
      BY <2>2, <3>3 DEF Login, FinishLogin, RequestCode, Relogin, CloudAnswers, CloudFails,
                        Park, Parked, Unlink, Remember, Keep, ForgoDevice, WriteFails, files
    <3> QED BY <3>1, <3>2, <3>3
  <2>3. CASE Start \/ Serve \/ NoCredentials \/ Look \/ ChangeOptions \/ Kill
    BY <2>3 DEF Start, Serve, NoCredentials, Look, ChangeOptions, Kill, files
  <2> QED BY <2>1, <2>2, <2>3 DEF Next
<1> QED BY <1>1, Invariant, PTL DEF Spec, EarnedKept

\* Once a device id has been written down every later login presents it, unless
\* the device file was left without it and there is no session to take it from.
THEOREM SameClient == Spec => DeviceKept
<1> DEFINE Known == kept # None /\ (exposed => Whole(session))
<1>1. IInv /\ [Next]_vars => [Known => mine' \in {mine, kept}]_vars
  <2> SUFFICES ASSUME IInv, Next, Known PROVE mine' \in {mine, kept}
    OBVIOUS
  <2>1. Whole(device) \/ Whole(session) \/ pc = "keep"
    BY DEF IInv, Covered
  <2>2. (Whole(device) => device = kept) /\ (Whole(session) => session = kept)
    BY DEF IInv, OneDevice
  <2>3. CASE FinishLogin
    <3>1. Whole(device) /\ (Whole(pending) => pending = device)
      BY <2>1, <2>3 DEF FinishLogin, IInv, OneDevice, Whole, None
    <3> QED BY <2>2, <2>3, <3>1 DEF FinishLogin
  <2>4. CASE RequestCode \/ Relogin
    <3>1. Present /\ (Whole(device) \/ Whole(session))
      BY <2>1, <2>4 DEF RequestCode, Relogin
    <3>2. (Whole(device) => mine' = device) /\ (Whole(session) => mine' = session)
      BY <3>1, PresentStep
    <3> QED BY <2>2, <3>1, <3>2
  <2>5. CASE ~FinishLogin /\ ~RequestCode /\ ~Relogin
    <3>1. CASE Start \/ Reset \/ Serve \/ NoCredentials \/ Look \/ ChangeOptions \/ Kill
      BY <3>1 DEF Start, Reset, KeepPending, LeaveAlone, Clear, ClearSession, ClearPending,
                  MarkDone, Rearm, Serve, NoCredentials, Look, ChangeOptions, Kill, login
    <3>2. CASE Login
      BY <2>5, <3>2 DEF Login, CloudAnswers, CloudFails, Park, Parked, Unlink, Remember, Keep,
                        ForgoDevice, Truncate, Fill, WriteFails, login
    <3> QED BY <3>1, <3>2 DEF Next
  <2> QED BY <2>3, <2>4, <2>5
<1> QED BY <1>1, Invariant, PTL DEF Spec, DeviceKept
=============================================================================
