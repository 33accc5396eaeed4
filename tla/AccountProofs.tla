---------------------------- MODULE AccountProofs ----------------------------
(***************************************************************************)
(* Theorems about one account of Home Assistant: AccountRenewal, for every *)
(* renewal budget and any number of tokens, failures, people's doings and  *)
(* restarts, and about AccountPolls, for any hour, number of days and      *)
(* failures.                                                               *)
(***************************************************************************)
EXTENDS AccountRenewal, AccountPolls, TLAPS

\* The bridge is asked only when the client's token is dead, and a dead token
\* stays dead: an entry that is set up and has missed a renewal cannot be read
\* until the bridge or a person gives it another.
Dead ==
  /\ pc = "ask" => client \notin live
  /\ loaded /\ missed > 0 => client \notin live

\* The budget counts only renewals missed since the account was last read.
Counted == missed <= inARow

\* The second try of a read follows a renewal that was not missed.
Again == pc = "again" => came = "taken"

IInv == TypeOK /\ Dead /\ Again /\ Counted /\ OneToken /\ Patient

LEMMA InitIInv == Init => IInv
<1> SUFFICES ASSUME Init PROVE IInv
  OBVIOUS
<1> USE RenewalAssumption DEF Init
<1>1. Numbers
  BY DEF Numbers
<1>2. Modes
  BY Zenon DEF Modes, BridgeKinds, Places
<1>3. Dead /\ Again /\ Counted /\ OneToken /\ Patient
  BY DEF Dead, Again, Counted, OneToken, Patient
<1> QED BY <1>1, <1>2, <1>3 DEF IInv, TypeOK

\* What a step that leaves the entry alone, and revives no token, preserves.
LEMMA QuietStep ==
  ASSUME IInv, UNCHANGED <<entry, came, inARow>>,
         issued' \in Nat, issued <= issued', live' \subseteq live, held' \in 1 .. issued',
         bridge' \in BridgeKinds, notice' \in BOOLEAN, reload' \in BOOLEAN,
         reload => reload', flow' \in {"none", "source", "form"}
  PROVE  IInv'
<1> USE DEF IInv, TypeOK, Numbers, Modes, entry
<1>1. TypeOK'
  OBVIOUS
<1>2. Dead' /\ Again'
  BY DEF Dead, Again
<1>3. Counted' /\ OneToken' /\ Patient'
  BY DEF Counted, OneToken, Patient
<1> QED BY <1>1, <1>2, <1>3

\* What a bridge that hands over a token may do to the cloud.
LEMMA Handed ==
  ASSUME TypeOK, HandOver
  PROVE  /\ issued' \in Nat /\ issued <= issued'
         /\ live' \subseteq 1 .. issued' /\ held' \in 1 .. issued'
         /\ live' \cap (1 .. issued) \subseteq live
         /\ bridge' = bridge
<1> USE DEF TypeOK, Numbers, HandOver
<1>1. CASE UNCHANGED <<live, issued, held>>
  BY <1>1
<1>2. CASE issued' = issued + 1 /\ held' = issued + 1 /\ live' = live \cup {issued + 1}
  BY <1>2
<1> QED BY <1>1, <1>2

LEMMA BeginStep == ASSUME IInv, Begin PROVE IInv'
<1> USE DEF IInv, TypeOK, Numbers, Modes, Begin, cloud
<1>1. TypeOK'
  BY DEF Places
<1>2. Dead' /\ Again' /\ Counted' /\ OneToken' /\ Patient'
  BY DEF Dead, Again, Counted, OneToken, Patient
<1> QED BY <1>1, <1>2

LEMMA PollStep == ASSUME IInv, Poll PROVE IInv'
<1> USE DEF IInv, TypeOK, Numbers, Modes, Poll, cloud
<1>1. TypeOK'
  BY DEF Places
<1>2. Dead' /\ Again' /\ Counted' /\ OneToken' /\ Patient'
  BY DEF Dead, Again, Counted, OneToken, Patient
<1> QED BY <1>1, <1>2

LEMMA CallStep == ASSUME IInv, Call PROVE IInv'
<1> USE RenewalAssumption DEF IInv, TypeOK, Numbers, Modes, Call, cloud
<1>1. CASE client \in live /\ Pass /\ UNCHANGED flow
  <2>1. Numbers'
    BY <1>1 DEF Pass
  <2>4. Modes'
    <3>1. CASE stage = "account"
      BY <1>1, <3>1, Zenon DEF Pass, Places
    <3>2. CASE stage # "account"
      BY <1>1, <3>2, Zenon DEF Pass, Places
    <3> QED BY <3>1, <3>2
  <2>2. Dead' /\ Again' /\ Counted'
    BY <1>1 DEF Pass, Dead, Again, Counted
  <2>3. OneToken' /\ Patient'
    BY <1>1 DEF Pass, OneToken, Patient
  <2> QED BY <2>1, <2>2, <2>3, <2>4
<1>2. CASE /\ client \notin live
           /\ IF pc = "call" THEN pc' = "ask" /\ UNCHANGED flow ELSE AskPerson
           /\ UNCHANGED <<loaded, stage, missed, inARow>>
  <2>1. TypeOK'
    BY <1>2 DEF AskPerson, Places
  <2>2. Dead' /\ Again' /\ Counted' /\ OneToken'
    BY <1>2 DEF AskPerson, Dead, Again, Counted, OneToken
  <2>3. Patient'
    BY <1>2 DEF AskPerson, Patient, Again
  <2> QED BY <2>1, <2>2, <2>3
<1>3. CASE pc' = Rest /\ UNCHANGED <<loaded, stage, missed, inARow, flow>>
  <2>1. TypeOK'
    BY <1>3 DEF Rest, Places
  <2>2. Dead' /\ Again' /\ Counted' /\ OneToken' /\ Patient'
    BY <1>3 DEF Rest, Dead, Again, Counted, OneToken, Patient
  <2> QED BY <2>1, <2>2
<1> QED BY <1>1, <1>2, <1>3

LEMMA TakenStep == ASSUME IInv, Taken PROVE IInv'
<1> USE RenewalAssumption DEF IInv, TypeOK, Numbers, Modes, Taken
<1>1. /\ issued' \in Nat /\ live' \subseteq 1 .. issued'
      /\ held' \in 1 .. issued' /\ bridge' = bridge
  BY Handed
<1>2. Numbers'
  BY <1>1
<1>3. Modes'
  BY <1>1, Zenon DEF Places
<1>4. Dead' /\ Again' /\ Counted' /\ OneToken' /\ Patient'
  BY DEF Dead, Again, Counted, OneToken, Patient
<1> QED BY <1>2, <1>3, <1>4

LEMMA SameTokenStep == ASSUME IInv, SameToken PROVE IInv'
<1> USE DEF IInv, TypeOK, Numbers, Modes, SameToken, AskPerson
<1>1. /\ issued' \in Nat /\ issued <= issued' /\ live' \subseteq 1 .. issued'
      /\ held' \in 1 .. issued' /\ bridge' = bridge
      /\ live' \cap (1 .. issued) \subseteq live
  BY Handed
<1>2. TypeOK'
  BY <1>1 DEF Places
<1>3. Dead' /\ Again'
  BY <1>1 DEF Dead, Again
<1>4. Counted' /\ OneToken' /\ Patient'
  BY DEF Counted, OneToken, Patient
<1> QED BY <1>2, <1>3, <1>4

LEMMA UnavailableStep == ASSUME IInv, Unavailable PROVE IInv'
<1> USE RenewalAssumption DEF IInv, TypeOK, Numbers, Modes, Unavailable, cloud
<1>1. CASE missed < MaxAttempts /\ missed' = missed + 1 /\ pc' = Rest /\ UNCHANGED flow
  <2>1. TypeOK'
    BY <1>1 DEF Rest, Places
  <2>2. Dead' /\ Again'
    BY <1>1 DEF Rest, Dead, Again
  <2>3. Counted' /\ OneToken' /\ Patient'
    BY <1>1 DEF Rest, Counted, OneToken, Patient
  <2> QED BY <2>1, <2>2, <2>3
<1>2. CASE missed >= MaxAttempts /\ AskPerson /\ UNCHANGED missed
  <2>1. TypeOK'
    BY <1>2 DEF AskPerson, Places
  <2>2. Dead' /\ Again' /\ Counted' /\ OneToken' /\ Patient'
    BY <1>2 DEF AskPerson, Dead, Again, Counted, OneToken, Patient
  <2> QED BY <2>1, <2>2
<1> QED BY <1>1, <1>2

LEMMA RefusedStep == ASSUME IInv, Refused PROVE IInv'
<1> USE DEF IInv, TypeOK, Numbers, Modes, Refused, AskPerson, cloud
<1>1. TypeOK'
  BY DEF Places
<1>2. Dead' /\ Again' /\ Counted' /\ OneToken' /\ Patient'
  BY DEF Dead, Again, Counted, OneToken, Patient
<1> QED BY <1>1, <1>2

\* A new token for the entry, from the bridge or a person, comes with a reload.
LEMMA NewToken ==
  ASSUME IInv, UNCHANGED <<client, source, loaded, pc, stage, missed, came, inARow, bridge>>,
         issued' \in Nat, issued <= issued', live' \subseteq 1 .. issued',
         live' \cap (1 .. issued) \subseteq live, held' \in 1 .. issued',
         stored' \in 1 .. issued', reload' = TRUE, notice' \in BOOLEAN, flow' = "none"
  PROVE  IInv'
<1> USE DEF IInv, TypeOK, Numbers, Modes
<1>1. TypeOK'
  OBVIOUS
<1>2. Dead' /\ Again'
  BY DEF Dead, Again
<1>3. Counted' /\ OneToken' /\ Patient'
  BY DEF Counted, OneToken, Patient
<1> QED BY <1>1, <1>2, <1>3

LEMMA FlowTakesStep == ASSUME IInv, FlowTakes PROVE IInv'
<1>1. /\ issued' \in Nat /\ issued <= issued' /\ live' \subseteq 1 .. issued'
      /\ held' \in 1 .. issued' /\ bridge' = bridge
      /\ live' \cap (1 .. issued) \subseteq live
  BY Handed DEF IInv, FlowTakes
<1> QED BY <1>1, NewToken DEF FlowTakes

LEMMA SignInStep == ASSUME IInv, SignIn PROVE IInv'
<1> USE DEF SignIn
<1>1. CASE /\ issued' = issued + 1 /\ live' = live \cup {issued + 1}
           /\ stored' = issued + 1 /\ reload' = TRUE
  <2>1. /\ issued' \in Nat /\ issued <= issued' /\ live' \subseteq 1 .. issued'
        /\ live' \cap (1 .. issued) \subseteq live /\ held' \in 1 .. issued'
        /\ stored' \in 1 .. issued' /\ notice' \in BOOLEAN
    BY <1>1 DEF IInv, TypeOK, Numbers, Modes
  <2> QED BY <1>1, <2>1, NewToken
<1>2. CASE UNCHANGED <<issued, live, stored, reload>>
  BY <1>2, QuietStep DEF IInv, TypeOK, Numbers, Modes, entry
<1> QED BY <1>1, <1>2

LEMMA ReloadStep == ASSUME IInv, Reload PROVE IInv'
<1> USE DEF IInv, TypeOK, Numbers, Modes, Reload, cloud
<1>1. Numbers'
  BY RenewalAssumption
<1>2. Modes'
  BY Zenon DEF Places
<1>3. Dead' /\ Again' /\ Counted' /\ OneToken' /\ Patient'
  BY DEF Dead, Again, Counted, OneToken, Patient
<1> QED BY <1>1, <1>2, <1>3

LEMMA RestartStep == ASSUME IInv, Restart PROVE IInv'
<1> USE DEF IInv, TypeOK, Numbers, Modes, Restart, cloud
<1>1. Numbers'
  BY RenewalAssumption
<1>2. Modes'
  BY Zenon DEF Places
<1>3. Dead' /\ Again' /\ Counted' /\ OneToken' /\ Patient'
  BY DEF Dead, Again, Counted, OneToken, Patient
<1> QED BY <1>1, <1>2, <1>3

\* The steps that leave the entry and its token alone.
LEMMA OtherSteps ==
  ASSUME IInv,
         \/ FlowShowsForm \/ Reconfigure \/ ChangeOptions
         \/ TokenDies \/ BridgeTurns \/ UNCHANGED vars
  PROVE  IInv'
<1> USE DEF IInv, TypeOK, Numbers, Modes
<1>1. CASE FlowShowsForm
  BY <1>1, QuietStep DEF FlowShowsForm, cloud
<1>2. CASE Reconfigure
  BY <1>2, QuietStep DEF Reconfigure, cloud
<1>3. CASE ChangeOptions
  BY <1>3, QuietStep DEF ChangeOptions, cloud
<1>4. CASE TokenDies
  BY <1>4, QuietStep DEF TokenDies
<1>5. CASE BridgeTurns
  BY <1>5, QuietStep DEF BridgeTurns
<1>6. CASE UNCHANGED vars
  BY <1>6, QuietStep DEF vars, cloud
<1> QED BY <1>1, <1>2, <1>3, <1>4, <1>5, <1>6

LEMMA NextIInv == IInv /\ [Next]_vars => IInv'
<1> SUFFICES ASSUME IInv, [Next]_vars PROVE IInv'
  OBVIOUS
<1>1. CASE Entry
  BY <1>1, BeginStep, PollStep, CallStep, TakenStep, SameTokenStep, UnavailableStep,
     RefusedStep, ReloadStep DEF Entry, Renew
<1>2. CASE Flow
  BY <1>2, FlowTakesStep, OtherSteps DEF Flow
<1>3. CASE SignIn
  BY <1>3, SignInStep
<1>4. CASE Restart
  BY <1>4, RestartStep
<1>5. CASE Reconfigure \/ ChangeOptions \/ TokenDies \/ BridgeTurns \/ UNCHANGED vars
  BY <1>5, OtherSteps
<1> QED BY <1>1, <1>2, <1>3, <1>4, <1>5 DEF Next

LEMMA Invariance == Spec => []IInv
<1>1. Init => IInv
  BY InitIInv
<1>2. IInv /\ [Next]_vars => IInv'
  BY NextIInv
<1> QED BY <1>1, <1>2, PTL DEF Spec

\* An entry that is polled is set up, and its renewal budget is never
\* overdrawn (FurboCoordinator, async_setup_entry).
THEOREM TypeCorrect == Spec => []TypeOK
<1>1. IInv => TypeOK
  BY DEF IInv
<1> QED BY <1>1, Invariance, PTL

\* The entry and the running client hold the same token, whether the
\* coordinator, the flow or a person replaced it, unless a reload is due.
THEOREM TokensAgree == Spec => []OneToken
<1>1. IInv => OneToken
  BY DEF IInv
<1> QED BY <1>1, Invariance, PTL

\* A slow bridge is waited for in full before a person is asked
\* (_async_recover_token, clear_renewal_budget).
THEOREM FullWait == Spec => []Patient
<1>1. IInv => Patient
  BY DEF IInv
<1> QED BY <1>1, Invariance, PTL
-----------------------------------------------------------------------------
(* AccountPolls: what the polls of that account do with the days and hours *)
(* of the calendar, for any length of the hour, any number of days, tokens *)
(* and failures.                                                           *)

\* What the proofs need of the types.
Records ==
  /\ day \in 1 .. MaxDays
  /\ draft = [figures |-> draft.figures, alert |-> draft.alert]
  /\ shown = [figures |-> shown.figures, alert |-> shown.alert, since |-> shown.since]
  /\ was = [age |-> was.age, day |-> was.day]
  /\ spent = [age |-> spent.age, day |-> spent.day]

\* A refresh carries figures of the day it began on or of a later one.
NoOlder(figures) == figures = NoDay \/ figures >= began

Fresh ==
  /\ began \in 1 .. day
  /\ step = "calendar" => today \in Nat /\ NoOlder(today)
  /\ step = "diary" => draft.figures \in Nat /\ NoOlder(draft.figures)
  /\ NotYesterdays

\* The clocks tell when the calendar was last asked to any purpose; while it is
\* being asked, their former values do, in case the token is dead.
Clocks ==
  /\ step = "calendar" => was.age = spent.age /\ was.day = spent.day /\ tried = today
  /\ step \notin {"calendar", "setup"} => asked = spent.age /\ tried = spent.day

PollsInv == Records /\ Fresh /\ Clocks

LEMMA InitPolls == PollsInit => PollsInv
BY PollsAssumption DEF PollsInit, Unset, NoDay, NotYesterdays, PollsInv, Records, Fresh, Clocks

\* What is published is no older than the refresh.
LEMMA PublishFresh ==
  ASSUME PollsInv, NEW f \in Nat, NoOlder(f), Publish(f), UNCHANGED <<day, began>>
  PROVE  /\ shown' = [figures |-> shown'.figures, alert |-> shown'.alert, since |-> shown'.since]
         /\ step' = "idle" /\ draft' = draft /\ NotYesterdays'
BY DEF Publish, NotYesterdays, NoOlder

\* The calendar is settled: the figures go on to the diary or are published.
LEMMA OnwardFresh ==
  ASSUME PollsInv, NEW f \in Nat, NoOlder(f), Onward(f), UNCHANGED <<day, began>>
  PROVE  /\ shown' = [figures |-> shown'.figures, alert |-> shown'.alert, since |-> shown'.since]
         /\ draft' = [figures |-> draft'.figures, alert |-> draft'.alert]
         /\ step' \in {"idle", "diary"} /\ Fresh'
<1>1. CASE diaryAsked < Interval
  <2>1. Publish(f)
    BY <1>1 DEF Onward
  <2> QED BY <2>1, PublishFresh DEF PollsInv, Records, Fresh
<1>2. CASE ~(diaryAsked < Interval)
  <2>1. /\ step' = "diary" /\ draft' = [draft EXCEPT !.figures = f] /\ UNCHANGED shown
    BY <1>2 DEF Onward
  <2>2. draft' = [figures |-> f, alert |-> draft.alert]
    BY <2>1 DEF PollsInv, Records
  <2> QED BY <2>1, <2>2 DEF PollsInv, Records, Fresh, NoOlder, NotYesterdays, NoDay
<1> QED BY <1>1, <1>2

\* Set-ups and polls, the cameras and a renewal: the calendar is not concerned.
LEMMA AroundCalendar ==
  ASSUME PollsInv, BeginRefresh \/ BeginPoll \/ Devices \/ RenewToken
  PROVE  PollsInv'
<1> USE DEF PollsInv, Records, Fresh, Clocks, NotYesterdays, NoDay,
            clocks, diary
<1>1. CASE BeginRefresh
  BY <1>1 DEF BeginRefresh, Unset
<1>2. CASE BeginPoll
  BY <1>2 DEF BeginPoll
<1>3. CASE Devices
  <2>1. step = "devices" /\ step' \in {"consider", "renew", "signin", "idle", "setup"}
    BY <1>3 DEF Devices, AuthFailed, Fail
  <2>2. draft' = [figures |-> draft'.figures, alert |-> draft'.alert]
    BY <1>3 DEF Devices
  <2> QED BY <1>3, <2>1, <2>2 DEF Devices
<1>4. CASE RenewToken
  <2>1. step = "renew" /\ step' \in {"devices", "signin", "idle", "setup"}
    BY <1>4 DEF RenewToken, Fail
  <2> QED BY <1>4, <2>1 DEF RenewToken
<1> QED BY <1>1, <1>2, <1>3, <1>4

LEMMA ConsiderStep == ASSUME PollsInv, Consider PROVE PollsInv'
<1>0. /\ step = "consider" /\ today' = day /\ UNCHANGED <<day, began, calendar, spent>>
      /\ day \in Nat /\ began \in 1 .. day /\ asked = spent.age /\ tried = spent.day
  BY DEF Consider, PollsInv, Records, Fresh, Clocks
<1>1. CASE Due
  <2>1. /\ was' = [age |-> asked, day |-> tried] /\ tried' = day /\ step' = "calendar"
        /\ UNCHANGED <<draft, shown>>
    BY <1>1 DEF Consider
  <2>2. Records'
    BY <1>0, <2>1 DEF PollsInv, Records
  <2>3. Fresh'
    BY <1>0, <2>1 DEF PollsInv, Fresh, NoOlder, NotYesterdays, NoDay
  <2>4. Clocks'
    BY <1>0, <2>1 DEF Clocks
  <2> QED BY <2>2, <2>3, <2>4 DEF PollsInv
<1>2. CASE ~Due
  <2>1. Onward(Cached(day)) /\ UNCHANGED <<was, asked, tried>>
    BY <1>2 DEF Consider
  <2>2. Cached(day) \in Nat /\ NoOlder(Cached(day))
    BY <1>0 DEF Cached, NoDay, NoOlder
  <2>3. /\ shown' = [figures |-> shown'.figures, alert |-> shown'.alert, since |-> shown'.since]
        /\ draft' = [figures |-> draft'.figures, alert |-> draft'.alert]
        /\ step' \in {"idle", "diary"} /\ Fresh'
    BY <1>0, <2>1, <2>2, OnwardFresh
  <2>4. Records'
    BY <1>0, <2>1, <2>3 DEF PollsInv, Records
  <2>5. Clocks'
    BY <1>0, <2>1, <2>3 DEF Clocks
  <2> QED BY <2>3, <2>4, <2>5 DEF PollsInv
<1> QED BY <1>1, <1>2

LEMMA CalendarStep == ASSUME PollsInv, Calendar PROVE PollsInv'
<1>0. /\ step = "calendar" /\ UNCHANGED <<day, began, today, was>>
      /\ spent' = IF step' \in {"renew", "signin"} THEN spent ELSE [age |-> asked, day |-> today]
      /\ today \in Nat /\ NoOlder(today) /\ was.age = spent.age /\ was.day = spent.day
      /\ tried = today
  BY DEF Calendar, PollsInv, Fresh, Clocks
<1>1. ASSUME NEW f \in Nat, NoOlder(f), Onward(f), UNCHANGED <<asked, tried>>
      PROVE  PollsInv'
  <2>1. /\ shown' = [figures |-> shown'.figures, alert |-> shown'.alert, since |-> shown'.since]
        /\ draft' = [figures |-> draft'.figures, alert |-> draft'.alert]
        /\ step' \in {"idle", "diary"} /\ Fresh'
    BY <1>0, <1>1, OnwardFresh
  <2>2. spent' = [age |-> asked, day |-> today]
    BY <1>0, <2>1
  <2>3. Records'
    BY <1>0, <2>1, <2>2 DEF PollsInv, Records
  <2>4. Clocks'
    BY <1>0, <1>1, <2>1, <2>2 DEF Clocks
  <2> QED BY <2>1, <2>3, <2>4 DEF PollsInv
<1>2. CASE Onward(today) /\ UNCHANGED <<asked, tried>>
  BY <1>0, <1>1, <1>2
<1>3. CASE Onward(Cached(today)) /\ UNCHANGED <<asked, tried>>
  <2>1. Cached(today) \in Nat /\ NoOlder(Cached(today))
    BY <1>0 DEF Cached, NoDay, NoOlder
  <2> QED BY <1>1, <1>3, <2>1
<1>4. CASE /\ asked' = was.age /\ tried' = was.day /\ AuthFailed
           /\ UNCHANGED <<draft, shown>>
  <2>1. step' \in {"renew", "signin"} /\ UNCHANGED spent
    BY <1>0, <1>4 DEF AuthFailed
  <2>2. Records' /\ Clocks'
    BY <1>0, <1>4, <2>1 DEF PollsInv, Records, Clocks
  <2>3. Fresh'
    BY <1>0, <1>4, <2>1 DEF PollsInv, Fresh, NotYesterdays
  <2> QED BY <2>2, <2>3 DEF PollsInv
<1> QED BY <1>2, <1>3, <1>4 DEF Calendar

LEMMA DiaryStep == ASSUME PollsInv, Diary PROVE PollsInv'
<1>0. /\ step = "diary" /\ UNCHANGED <<day, began, today, asked, tried, was, calendar, spent>>
      /\ draft.figures \in Nat /\ NoOlder(draft.figures)
      /\ asked = spent.age /\ tried = spent.day
  BY DEF Diary, clocks, PollsInv, Fresh, Clocks
<1>1. CASE Publish(draft.figures)
  <2>1. /\ shown' = [figures |-> shown'.figures, alert |-> shown'.alert, since |-> shown'.since]
        /\ step' = "idle" /\ draft' = draft /\ NotYesterdays'
    BY <1>0, <1>1, PublishFresh
  <2> QED BY <1>0, <2>1 DEF PollsInv, Records, Fresh, Clocks
<1>2. CASE AuthFailed /\ UNCHANGED <<draft, shown>>
  <2>1. step' \in {"renew", "signin"}
    BY <1>2 DEF AuthFailed
  <2> QED BY <1>0, <1>2, <2>1 DEF PollsInv, Records, Fresh, Clocks, NotYesterdays
<1> QED BY <1>1, <1>2 DEF Diary

\* The switch and the app, time, tokens and reloads.
LEMMA AroundPolls ==
  ASSUME PollsInv,
         \/ SetAlert \/ Reflect \/ AppSets \/ LoseAnswer
         \/ Tick \/ TokenExpires \/ ReloadEntry \/ UNCHANGED pollsVars
  PROVE  PollsInv'
<1> USE DEF PollsInv, Records, Fresh, Clocks, NotYesterdays, NoDay,
            fetch, clocks, diary, NoOlder
<1>1. CASE SetAlert
  BY <1>1 DEF SetAlert
<1>2. CASE Reflect
  BY <1>2 DEF Reflect
<1>3. CASE AppSets
  BY <1>3 DEF AppSets
<1>4. CASE LoseAnswer
  BY <1>4 DEF LoseAnswer
<1>5. CASE Tick
  <2>1. /\ day' \in 1 .. MaxDays /\ day' >= day
        /\ UNCHANGED <<began, today, draft, shown, tried, step>>
    BY <1>5 DEF Tick
  <2>2. /\ asked' = Older(asked)
        /\ was' = [age |-> Older(was.age), day |-> was.day]
        /\ spent' = [age |-> Older(spent.age), day |-> spent.day]
    BY <1>5 DEF Tick
  <2> QED BY <2>1, <2>2
<1>6. CASE TokenExpires
  BY <1>6 DEF TokenExpires
<1>7. CASE ReloadEntry
  BY <1>7 DEF ReloadEntry
<1>8. CASE UNCHANGED pollsVars
  BY <1>8 DEF pollsVars
<1> QED BY <1>1, <1>2, <1>3, <1>4, <1>5, <1>6, <1>7, <1>8

LEMMA NextPolls == PollsInv /\ [PollsNext]_pollsVars => PollsInv'
BY AroundCalendar, ConsiderStep, CalendarStep, DiaryStep, AroundPolls DEF PollsNext, Refresh

LEMMA PollsInvariance == PollsSpec => []PollsInv
<1>1. PollsInit => PollsInv
  BY InitPolls
<1>2. PollsInv /\ [PollsNext]_pollsVars => PollsInv'
  BY NextPolls
<1> QED BY <1>1, <1>2, PTL DEF PollsSpec

\* Figures of a day that is over when a refresh begins are not what it
\* publishes, although they are cached and a refresh may be tried again
\* (_async_calendar, _cached_calendar).
THEOREM FiguresOfTheDay == PollsSpec => []NotYesterdays
<1>1. PollsInv => NotYesterdays
  BY DEF PollsInv, Fresh
<1> QED BY <1>1, PollsInvariance, PTL

\* The calendar's host is asked on a new day or when its hour is up since it
\* was last asked to any purpose, and not otherwise (_async_calendar).
THEOREM OncePerHourOrDay == PollsSpec => AskedWhenDue
<1> DEFINE Asking == step = "consider" /\ step' \in {"calendar", "diary", "idle"} =>
                       (step' = "calendar" <=> spent.age >= Interval \/ spent.day # day)
<1>1. PollsInv /\ [PollsNext]_pollsVars => [Asking]_pollsVars
  <2> SUFFICES ASSUME PollsInv, PollsNext, step = "consider",
                      step' \in {"calendar", "diary", "idle"}
               PROVE  step' = "calendar" <=> spent.age >= Interval \/ spent.day # day
    OBVIOUS
  <2>1. asked = spent.age /\ tried = spent.day
    BY DEF PollsInv, Clocks
  <2>2. Consider
    BY DEF PollsNext, Refresh, BeginRefresh, BeginPoll, Devices, Calendar,
           Diary, RenewToken, SetAlert, Reflect, AppSets,
           LoseAnswer, Tick, TokenExpires, ReloadEntry
  <2>3. step' = "calendar" <=> Due
    BY <2>2 DEF Consider, Onward, Publish
  <2> QED BY <2>1, <2>3 DEF Due
<1> QED BY <1>1, PollsInvariance, PTL DEF PollsSpec, AskedWhenDue
-----------------------------------------------------------------------------
(* The types of the polls.                                                 *)

Days ==
  /\ {today, tried, calendar, draft.figures, shown.figures, was.day, spent.day} \subseteq 0 .. day
  /\ {began, shown.since} \subseteq 1 .. day

Hours == {asked, diaryAsked, diaryWas, was.age, spent.age} \subseteq 0 .. Interval

Switches ==
  /\ alert \in BOOLEAN /\ token \in BOOLEAN /\ running \in BOOLEAN /\ second \in BOOLEAN
  /\ {draft.alert, shown.alert} \cup writing \subseteq BOOLEAN
  /\ step \in Steps
  /\ (step = "idle" => running) /\ (step = "setup" => ~running)

Bounds ==
  /\ failures \in 0 .. MaxFailures /\ expiries \in 0 .. MaxExpiries
  /\ writes \in 0 .. MaxWrites /\ reloads \in 0 .. MaxReloads

PollsTypes == Records /\ Days /\ Hours /\ Switches /\ Bounds

\* Publishing sets the entry up; what goes on to the diary changes no switch.
LEMMA OnwardSwitches ==
  ASSUME PollsTypes, NEW f, Onward(f) \/ Publish(f)
  PROVE  /\ step' \in {"idle", "diary"} /\ (step' = "idle" => running')
         /\ running' \in BOOLEAN /\ draft'.alert \in BOOLEAN /\ shown'.alert \in BOOLEAN
<1>0. running \in BOOLEAN /\ draft.alert \in BOOLEAN /\ shown.alert \in BOOLEAN
  BY Zenon DEF PollsTypes, Switches
<1>1. CASE Publish(f)
  <2>1. /\ shown'.alert = draft.alert /\ step' = "idle" /\ running' = TRUE
        /\ draft' = draft
    BY <1>1 DEF Publish
  <2> QED BY Zenon, <1>0, <2>1
<1>2. CASE Onward(f) /\ ~Publish(f)
  <2>1. /\ step' = "diary" /\ draft'.alert = draft.alert
        /\ UNCHANGED <<running, shown>>
    BY <1>2 DEF Onward, PollsTypes, Records
  <2> QED BY Zenon, <1>0, <2>1
<1> QED BY <1>1, <1>2

\* Where a step of the calendar or the diary leaves the refresh.
LEMMA CalledSwitches ==
  ASSUME PollsTypes, UNCHANGED <<alert, token, second, writing>>,
         step' \in {"idle", "diary", "calendar", "renew", "signin"},
         step' = "idle" => running', running' \in BOOLEAN,
         draft'.alert \in BOOLEAN, shown'.alert \in BOOLEAN
  PROVE  Switches'
<1>1. /\ alert' \in BOOLEAN /\ token' \in BOOLEAN /\ second' \in BOOLEAN
      /\ writing' \subseteq BOOLEAN
  BY Zenon DEF PollsTypes, Switches
<1>2. /\ step' \in Steps /\ step' # "setup"
  BY DEF Steps
<1> QED BY Zenon, <1>1, <1>2 DEF Switches

LEMMA RefusedSwitches ==
  ASSUME PollsTypes, AuthFailed, UNCHANGED <<running, draft, shown>>
  PROVE  /\ step' \in {"renew", "signin"}
         /\ running' \in BOOLEAN /\ draft'.alert \in BOOLEAN /\ shown'.alert \in BOOLEAN
<1>1. step' \in {"renew", "signin"}
  BY DEF AuthFailed
<1> QED BY Zenon, <1>1 DEF PollsTypes, Switches

LEMMA ConsiderSwitches == ASSUME PollsTypes, Consider PROVE Switches'
<1>0. UNCHANGED <<alert, token, second, writing>>
  BY DEF Consider
<1>1. CASE Due
  <2>1. step' = "calendar" /\ UNCHANGED <<running, draft, shown>>
    BY <1>1 DEF Consider
  <2>2. running' \in BOOLEAN /\ draft'.alert \in BOOLEAN /\ shown'.alert \in BOOLEAN
    BY Zenon, <2>1 DEF PollsTypes, Switches
  <2> QED BY <1>0, <2>1, <2>2, CalledSwitches
<1>2. CASE ~Due
  <2>1. Onward(Cached(day))
    BY <1>2 DEF Consider
  <2> QED BY <1>0, <2>1, OnwardSwitches, CalledSwitches
<1> QED BY <1>1, <1>2

LEMMA CalendarSwitches == ASSUME PollsTypes, Calendar PROVE Switches'
<1>0. UNCHANGED <<alert, token, second, writing>>
  BY DEF Calendar
<1>1. CASE Onward(today) \/ Onward(Cached(today))
  BY <1>0, <1>1, OnwardSwitches, CalledSwitches
<1>2. CASE AuthFailed /\ UNCHANGED <<running, draft, shown>>
  BY <1>0, <1>2, RefusedSwitches, CalledSwitches
<1> QED BY <1>1, <1>2 DEF Calendar

LEMMA DiarySwitches == ASSUME PollsTypes, Diary PROVE Switches'
<1>0. UNCHANGED <<alert, token, second, writing>>
  BY DEF Diary
<1>1. CASE Publish(draft.figures)
  BY <1>0, <1>1, OnwardSwitches, CalledSwitches
<1>2. CASE AuthFailed /\ UNCHANGED <<running, draft, shown>>
  BY <1>0, <1>2, RefusedSwitches, CalledSwitches
<1> QED BY <1>1, <1>2 DEF Diary

LEMMA BeginTypes ==
  ASSUME PollsTypes, BeginRefresh
  PROVE  PollsTypes'
<1> USE PollsAssumption DEF PollsTypes, Records, BeginRefresh, Unset, NoDay,
            fetch, clocks, diary, budgets
<1>1. Records'
  OBVIOUS
<1>2. Days'
  BY DEF Days
<1>3. Hours'
  BY DEF Hours
<1>4. Switches'
  BY Zenon DEF Switches, Steps
<1>5. Bounds'
  BY DEF Bounds
<1> QED BY <1>1, <1>2, <1>3, <1>4, <1>5

LEMMA PollTypes ==
  ASSUME PollsTypes, BeginPoll
  PROVE  PollsTypes'
<1> USE PollsAssumption DEF PollsTypes, Records, BeginPoll,
            fetch, clocks, diary, budgets
<1>1. Records'
  OBVIOUS
<1>2. Days'
  BY DEF Days
<1>3. Hours'
  BY DEF Hours
<1>4. Switches'
  BY Zenon DEF Switches, Steps
<1>5. Bounds'
  BY DEF Bounds
<1> QED BY <1>1, <1>2, <1>3, <1>4, <1>5

LEMMA DevicesTypes ==
  ASSUME PollsTypes, Devices
  PROVE  PollsTypes'
<1> USE PollsAssumption DEF PollsTypes, Records, Devices, AuthFailed, Fail,
            Failure,
            fetch, clocks, diary, budgets
<1>1. Records'
  OBVIOUS
<1>2. Days'
  BY DEF Days
<1>3. Hours'
  BY DEF Hours
<1>4. Switches'
  BY Zenon DEF Switches, Steps
<1>5. Bounds'
  BY DEF Bounds
<1> QED BY <1>1, <1>2, <1>3, <1>4, <1>5

LEMMA ConsiderTypes ==
  ASSUME PollsTypes, Consider
  PROVE  PollsTypes'
<1> USE PollsAssumption DEF PollsTypes, Records, Consider, Onward, Publish,
            Cached, NoDay,
            fetch, clocks, diary, budgets
<1>1. Records'
  OBVIOUS
<1>2. Days'
  BY DEF Days
<1>3. Hours'
  BY DEF Hours
<1>4. Switches'
  BY ConsiderSwitches
<1>5. Bounds'
  BY DEF Bounds
<1> QED BY <1>1, <1>2, <1>3, <1>4, <1>5

LEMMA CalendarTypes ==
  ASSUME PollsTypes, Calendar
  PROVE  PollsTypes'
<1> USE PollsAssumption DEF PollsTypes, Records, Calendar, Onward, Publish,
            Cached, NoDay, AuthFailed, Failure,
            fetch, clocks, diary, budgets
<1>1. Records'
  OBVIOUS
<1>2. Days'
  BY DEF Days
<1>3. Hours'
  BY DEF Hours
<1>4. Switches'
  BY CalendarSwitches
<1>5. Bounds'
  BY DEF Bounds
<1> QED BY <1>1, <1>2, <1>3, <1>4, <1>5

LEMMA DiaryTypes ==
  ASSUME PollsTypes, Diary
  PROVE  PollsTypes'
<1> USE PollsAssumption DEF PollsTypes, Records, Diary, Publish, AuthFailed,
            Failure,
            fetch, clocks, diary, budgets
<1>1. Records'
  OBVIOUS
<1>2. Days'
  BY DEF Days
<1>3. Hours'
  BY DEF Hours
<1>4. Switches'
  BY DiarySwitches
<1>5. Bounds'
  BY DEF Bounds
<1> QED BY <1>1, <1>2, <1>3, <1>4, <1>5

LEMMA RenewTypes ==
  ASSUME PollsTypes, RenewToken
  PROVE  PollsTypes'
<1> USE PollsAssumption DEF PollsTypes, Records, RenewToken, Fail, Failure,
            fetch, clocks, diary, budgets
<1>1. Records'
  OBVIOUS
<1>2. Days'
  BY DEF Days
<1>3. Hours'
  BY DEF Hours
<1>4. Switches'
  BY Zenon DEF Switches, Steps
<1>5. Bounds'
  BY DEF Bounds
<1> QED BY <1>1, <1>2, <1>3, <1>4, <1>5

LEMMA SetAlertTypes ==
  ASSUME PollsTypes, SetAlert
  PROVE  PollsTypes'
<1> USE PollsAssumption DEF PollsTypes, Records, SetAlert, Change,
            fetch, clocks, diary, budgets
<1>1. Records'
  OBVIOUS
<1>2. Days'
  BY DEF Days
<1>3. Hours'
  BY DEF Hours
<1>4. Switches'
  BY Zenon DEF Switches, Steps
<1>5. Bounds'
  BY DEF Bounds
<1> QED BY <1>1, <1>2, <1>3, <1>4, <1>5

LEMMA ReflectTypes ==
  ASSUME PollsTypes, Reflect
  PROVE  PollsTypes'
<1> USE PollsAssumption DEF PollsTypes, Records, Reflect,
            fetch, clocks, diary, budgets
<1>1. Records'
  OBVIOUS
<1>2. Days'
  BY DEF Days
<1>3. Hours'
  BY DEF Hours
<1>4. Switches'
  BY Zenon DEF Switches, Steps
<1>5. Bounds'
  BY DEF Bounds
<1> QED BY <1>1, <1>2, <1>3, <1>4, <1>5

LEMMA AppSetsTypes ==
  ASSUME PollsTypes, AppSets
  PROVE  PollsTypes'
<1> USE PollsAssumption DEF PollsTypes, Records, AppSets, Change,
            fetch, clocks, diary, budgets
<1>1. Records'
  OBVIOUS
<1>2. Days'
  BY DEF Days
<1>3. Hours'
  BY DEF Hours
<1>4. Switches'
  BY Zenon DEF Switches, Steps
<1>5. Bounds'
  BY DEF Bounds
<1> QED BY <1>1, <1>2, <1>3, <1>4, <1>5

LEMMA LoseAnswerTypes ==
  ASSUME PollsTypes, LoseAnswer
  PROVE  PollsTypes'
<1> USE PollsAssumption DEF PollsTypes, Records, LoseAnswer, Failure,
            fetch, clocks, diary, budgets
<1>1. Records'
  OBVIOUS
<1>2. Days'
  BY DEF Days
<1>3. Hours'
  BY DEF Hours
<1>4. Switches'
  BY Zenon DEF Switches, Steps
<1>5. Bounds'
  BY DEF Bounds
<1> QED BY <1>1, <1>2, <1>3, <1>4, <1>5

LEMMA TickTypes ==
  ASSUME PollsTypes, Tick
  PROVE  PollsTypes'
<1> USE PollsAssumption DEF PollsTypes, Records, Tick, Older,
            fetch, clocks, diary, budgets
<1>1. Records'
  OBVIOUS
<1>2. Days'
  BY DEF Days
<1>3. Hours'
  BY DEF Hours
<1>4. Switches'
  BY Zenon DEF Switches, Steps
<1>5. Bounds'
  BY DEF Bounds
<1> QED BY <1>1, <1>2, <1>3, <1>4, <1>5

LEMMA TokenDiesTypes ==
  ASSUME PollsTypes, TokenExpires
  PROVE  PollsTypes'
<1> USE PollsAssumption DEF PollsTypes, Records, TokenExpires,
            fetch, clocks, diary, budgets
<1>1. Records'
  OBVIOUS
<1>2. Days'
  BY DEF Days
<1>3. Hours'
  BY DEF Hours
<1>4. Switches'
  BY Zenon DEF Switches, Steps
<1>5. Bounds'
  BY DEF Bounds
<1> QED BY <1>1, <1>2, <1>3, <1>4, <1>5

LEMMA ReloadTypes ==
  ASSUME PollsTypes, ReloadEntry
  PROVE  PollsTypes'
<1> USE PollsAssumption DEF PollsTypes, Records, ReloadEntry,
            fetch, clocks, diary, budgets
<1>1. Records'
  OBVIOUS
<1>2. Days'
  BY DEF Days
<1>3. Hours'
  BY DEF Hours
<1>4. Switches'
  BY Zenon DEF Switches, Steps
<1>5. Bounds'
  BY DEF Bounds
<1> QED BY <1>1, <1>2, <1>3, <1>4, <1>5

\* A refresh never knows of a day that has not come, and nothing is polled
\* before it is set up (FurboCoordinator, async_setup_entry).
THEOREM PollsTypeCorrect == PollsSpec => []PollsTypeOK
<1>1. PollsInit => PollsTypes
  <2> SUFFICES ASSUME PollsInit PROVE PollsTypes
    OBVIOUS
  <2> USE PollsAssumption DEF PollsInit, Unset, NoDay
  <2>1. Records /\ Days /\ Hours
    BY DEF Records, Days, Hours
  <2>2. Switches
    BY DEF Switches, Steps
  <2>3. Bounds
    BY DEF Bounds
  <2> QED BY <2>1, <2>2, <2>3 DEF PollsTypes
<1>2. PollsTypes /\ [PollsNext]_pollsVars => PollsTypes'
  <2>1. PollsTypes /\ UNCHANGED pollsVars => PollsTypes'
    BY DEF PollsTypes, Records, Days, Hours, Switches, Bounds, pollsVars,
           fetch, clocks, diary, budgets
  <2> QED BY <2>1, BeginTypes, PollTypes, DevicesTypes, ConsiderTypes, CalendarTypes,
             DiaryTypes, RenewTypes, SetAlertTypes, ReflectTypes, AppSetsTypes,
             LoseAnswerTypes, TickTypes, TokenDiesTypes, ReloadTypes
          DEF PollsNext, Refresh
<1>3. PollsTypes => PollsTypeOK
  BY DEF PollsTypes, Records, Days, Hours, Switches, Bounds, PollsTypeOK
<1> QED BY <1>1, <1>2, <1>3, PTL DEF PollsSpec
=============================================================================
