---------------------------- MODULE AccountPolls ----------------------------
(***************************************************************************)
(* What the entities of one account show: figures of the pet calendar and  *)
(* the alert switches.  FurboCoordinator reads both in one refresh, call   *)
(* by call.  The calendar's host is asked at most hourly, except that a    *)
(* new day earns one attempt and that an attempt which only met a dead     *)
(* token is given back.  Days begin, tokens die and switches are written   *)
(* between any two calls.                                                  *)
(***************************************************************************)
EXTENDS Naturals

CONSTANTS
  Interval,     \* CALENDAR_INTERVAL and DIARY_INTERVAL, in ticks of the clock
  MaxDays,      \* bound: days
  MaxFailures,  \* bound: calls that fail for any reason but the token
  MaxExpiries,  \* bound: tokens that die
  MaxWrites,    \* bound: changes of the alert, by its switch or the Furbo app
  MaxReloads    \* bound: reloads of the entry

ASSUME PollsAssumption ==
  /\ Interval \in Nat \ {0} /\ MaxDays \in Nat \ {0}
  /\ {MaxFailures, MaxExpiries, MaxWrites, MaxReloads} \subseteq Nat

VARIABLES
  day,         \* the date in the account's timezone
  alert,       \* the alert setting the cloud holds
  token,       \* the cloud accepts client.cognito_token
  step,        \* where the coordinator is: see Steps
  running,     \* the entry is set up
  second,      \* the refresh has taken a new token and fetches once more
  today,       \* local of _async_calendar
  draft,       \* the figures and the alert this fetch has so far
  asked,       \* how long ago _calendar_at is
  tried,       \* _calendar_tried
  was,         \* locals was_at and was_tried of _async_calendar
  calendar,    \* the day of _calendar
  diaryAsked,  \* how long ago _diary_at is
  diaryWas,    \* local was_at of _async_diary
  shown,       \* coordinator.data
  writing,     \* the value a switch's write has sent and not heard of
  began,       \* history: the day on which this refresh began
  spent,       \* history: the last calendar request that was not in vain for
               \* want of a token: how long ago, and its day
  failures, expiries, writes, reloads

fetch == <<second, today, draft, began>>
clocks == <<asked, tried, was, calendar, spent>>
diary == <<diaryAsked, diaryWas>>
budgets == <<failures, expiries, writes, reloads>>
pollsVars == <<day, alert, token, step, running, fetch, clocks, diary, shown, writing, budgets>>

\* Days are numbered from 1.
NoDay == 0

\* "setup": waiting for set-up, "idle": between polls, "devices": the cameras
\* and their alerts are being read, "consider": they have been, "calendar" and
\* "diary": that host is being asked, "renew": the bridge is, "signin": a
\* person is.
Steps == {"setup", "idle", "devices", "consider", "calendar", "diary", "renew", "signin"}

\* A clock that was never set (None) is as due as one set long ago, so that
\* ages stop at Interval.
Older(age) == IF age < Interval THEN age + 1 ELSE age
Unset == Interval

\* Mutant: no figures are too old.
CachedAny(d) == calendar

\* _cached_calendar: this day's figures or none.
Cached(d) == IF calendar = d THEN d ELSE NoDay
-----------------------------------------------------------------------------
(* How a fetch goes on and how a refresh ends.                             *)

Failure == failures < MaxFailures /\ failures' = failures + 1 /\ UNCHANGED <<expiries, writes, reloads>>

\* FurboData replaces the last one when all of a refresh has succeeded.
Publish(figures) ==
  /\ shown' = [figures |-> figures, alert |-> draft.alert, since |-> began]
  /\ step' = "idle" /\ running' = TRUE
  /\ UNCHANGED draft

\* The calendar is settled: _async_diary, if its hour is over.
Onward(figures) ==
  IF diaryAsked < Interval
  THEN Publish(figures) /\ UNCHANGED diary
  ELSE /\ step' = "diary"
       /\ diaryWas' = diaryAsked /\ diaryAsked' = 0
       /\ draft' = [draft EXCEPT !.figures = figures]
       /\ UNCHANGED <<running, shown>>

\* ConfigEntryAuthFailed: another token, once per refresh.
AuthFailed == step' = (IF second THEN "signin" ELSE "renew")

\* UpdateFailed: the last data stays, or the set-up is retried.
Fail == step' = (IF running THEN "idle" ELSE "setup")

\* A first refresh is a new coordinator's, a poll is not.
BeginRefresh ==
  /\ step = "setup" /\ step' = "devices"
  /\ second' = FALSE /\ began' = day
  /\ asked' = Unset /\ tried' = NoDay /\ calendar' = NoDay /\ diaryAsked' = Unset
  /\ spent' = [age |-> Unset, day |-> NoDay]
  /\ UNCHANGED <<day, alert, token, running, today, draft, was, diaryWas, shown,
                 writing, budgets>>

BeginPoll ==
  /\ step = "idle" /\ step' = "devices"
  /\ second' = FALSE /\ began' = day
  /\ UNCHANGED <<day, alert, token, running, today, draft, clocks, diary, shown,
                 writing, budgets>>

\* get_devices, get_license and get_alert_settings.
Devices ==
  /\ step = "devices"
  /\ \/ /\ token
        /\ step' = "consider" /\ draft' = [draft EXCEPT !.alert = alert]
        /\ UNCHANGED budgets
     \/ ~token /\ AuthFailed /\ UNCHANGED <<draft, budgets>>
     \/ Failure /\ Fail /\ UNCHANGED draft
  /\ UNCHANGED <<day, alert, token, running, second, today, began, clocks, diary,
                 shown, writing>>
-----------------------------------------------------------------------------
(* The calendar.                                                           *)

\* Mutant: a day gets one attempt.
DueOncePerDay == tried # day

\* A new day, an hour, or a new coordinator.
Due == tried # day \/ asked >= Interval

\* Mutant: after midnight the calendar is asked until it answers.
ConsiderUntilAnswered ==
  /\ step = "consider" /\ today' = day
  /\ IF Due \/ calendar # day
     THEN /\ was' = [age |-> asked, day |-> tried]
          /\ asked' = 0 /\ tried' = day
          /\ step' = "calendar"
          /\ UNCHANGED <<running, draft, diary, shown>>
     ELSE Onward(Cached(day)) /\ UNCHANGED <<was, asked, tried>>
  /\ UNCHANGED <<day, alert, token, second, began, calendar, spent, writing, budgets>>

\* _async_calendar up to its first call: the hour is counted from here.
Consider ==
  /\ step = "consider" /\ today' = day
  /\ IF Due
     THEN /\ was' = [age |-> asked, day |-> tried]
          /\ asked' = 0 /\ tried' = day
          /\ step' = "calendar"
          /\ UNCHANGED <<running, draft, diary, shown>>
     ELSE Onward(Cached(day)) /\ UNCHANGED <<was, asked, tried>>
  /\ UNCHANGED <<day, alert, token, second, began, calendar, spent, writing, budgets>>

\* The three calls: answered, refused for the token, or failed.
Calendar ==
  /\ step = "calendar"
  /\ \/ /\ token
        /\ calendar' = today /\ Onward(today)
        /\ UNCHANGED <<asked, tried, budgets>>
     \/ /\ ~token
        /\ asked' = was.age /\ tried' = was.day
        /\ AuthFailed
        /\ UNCHANGED <<running, draft, calendar, diary, shown, budgets>>
     \/ Failure /\ Onward(Cached(today)) /\ UNCHANGED <<asked, tried, calendar>>
  /\ spent' = IF step' \in {"renew", "signin"} THEN spent ELSE [age |-> asked, day |-> today]
  /\ UNCHANGED <<day, alert, token, second, today, began, was, writing>>

\* _async_diary's call.
Diary ==
  /\ step = "diary"
  /\ \/ token /\ Publish(draft.figures) /\ UNCHANGED <<diaryAsked, budgets>>
     \/ Failure /\ Publish(draft.figures) /\ UNCHANGED diaryAsked
     \/ /\ ~token
        /\ diaryAsked' = diaryWas
        /\ AuthFailed
        /\ UNCHANGED <<running, draft, shown, budgets>>
  /\ UNCHANGED <<day, alert, token, second, today, began, clocks, diaryWas, writing>>

\* _async_recover_token: a new token, none yet, or none to be had.
RenewToken ==
  /\ step = "renew"
  /\ \/ /\ token' = TRUE /\ step' = "devices" /\ second' = TRUE
        /\ UNCHANGED budgets
     \/ Failure /\ Fail /\ UNCHANGED <<token, second>>
     \/ step' = "signin" /\ UNCHANGED <<token, second, budgets>>
  /\ UNCHANGED <<day, alert, running, today, draft, began, clocks, diary, shown, writing>>
-----------------------------------------------------------------------------
(* The alert switch and the app.                                           *)

Change == writes < MaxWrites /\ writes' = writes + 1 /\ UNCHANGED <<failures, expiries, reloads>>

\* FurboAlertSwitch._async_set: one write at a time (PARALLEL_UPDATES).
SetAlert ==
  /\ running /\ writing = {} /\ token /\ Change
  /\ alert' = ~alert /\ writing' = {~alert}
  /\ UNCHANGED <<day, token, step, running, fetch, clocks, diary, shown>>

\* It was taken: the switch shows it in the data of that moment.
Reflect ==
  /\ \E v \in writing : shown' = [shown EXCEPT !.alert = v]
  /\ writing' = {}
  /\ UNCHANGED <<day, alert, token, step, running, fetch, clocks, diary, budgets>>

\* The app sets it, or the answer to a write is lost.
AppSets ==
  /\ Change
  /\ alert' = ~alert
  /\ UNCHANGED <<day, token, step, running, fetch, clocks, diary, shown, writing>>

LoseAnswer ==
  /\ writing # {} /\ Failure
  /\ writing' = {}
  /\ UNCHANGED <<day, alert, token, step, running, fetch, clocks, diary, shown>>
-----------------------------------------------------------------------------
(* What happens around them.                                               *)

\* Time goes on, and sooner or later a day is over.
Tick ==
  /\ day' \in {day} \cup ({day + 1} \cap 1 .. MaxDays)
  /\ asked' = Older(asked) /\ diaryAsked' = Older(diaryAsked)
  /\ was' = [was EXCEPT !.age = Older(@)] /\ diaryWas' = Older(diaryWas)
  /\ spent' = [spent EXCEPT !.age = Older(@)]
  /\ UNCHANGED <<alert, token, step, running, fetch, tried, calendar, shown, writing, budgets>>

TokenExpires ==
  /\ token /\ expiries < MaxExpiries /\ expiries' = expiries + 1
  /\ token' = FALSE
  /\ UNCHANGED <<day, alert, step, running, fetch, clocks, diary, shown, writing,
                 failures, writes, reloads>>

\* A reload by hand, for new options, or because a person has signed in.  A
\* write under way ends in the old coordinator's data.
ReloadEntry ==
  /\ running \/ step = "signin"
  /\ reloads < MaxReloads /\ reloads' = reloads + 1
  /\ token' \in {token, TRUE}
  /\ step' = "setup" /\ running' = FALSE
  /\ writing' = {}
  /\ UNCHANGED <<day, alert, fetch, clocks, diary, shown, failures, expiries, writes>>

PollsInit ==
  /\ day = 1 /\ alert \in BOOLEAN /\ token \in BOOLEAN
  /\ step = "setup" /\ running = FALSE /\ second = FALSE
  /\ today = NoDay /\ draft = [figures |-> NoDay, alert |-> FALSE]
  /\ asked = Unset /\ tried = NoDay /\ was = [age |-> Unset, day |-> NoDay]
  /\ calendar = NoDay /\ diaryAsked = Unset /\ diaryWas = Unset
  /\ shown = [figures |-> NoDay, alert |-> FALSE, since |-> 1]
  /\ writing = {} /\ began = 1 /\ spent = [age |-> Unset, day |-> NoDay]
  /\ failures = 0 /\ expiries = 0 /\ writes = 0 /\ reloads = 0

Refresh == BeginRefresh \/ BeginPoll \/ Devices \/ Consider \/ Calendar \/ Diary \/ RenewToken

PollsNext ==
  \/ Refresh
  \/ SetAlert \/ Reflect \/ AppSets \/ LoseAnswer
  \/ Tick \/ TokenExpires \/ ReloadEntry

PollsSpec == PollsInit /\ [][PollsNext]_pollsVars

\* Home Assistant retries set-ups and polls; calls end; time passes.
PollsFairSpec == PollsSpec /\ WF_pollsVars(Refresh) /\ WF_pollsVars(Reflect \/ LoseAnswer) /\ WF_pollsVars(Tick)
-----------------------------------------------------------------------------
(* Properties.                                                             *)

\* The type invariant.  Nothing is polled before it is set up, and no day is
\* known before it has come.
PollsTypeOK ==
  /\ day \in 1 .. MaxDays
  /\ alert \in BOOLEAN /\ token \in BOOLEAN /\ running \in BOOLEAN /\ second \in BOOLEAN
  /\ step \in Steps /\ (step = "idle" => running) /\ (step = "setup" => ~running)
  /\ {today, tried, calendar, draft.figures, shown.figures, was.day, spent.day} \subseteq 0 .. day
  /\ {asked, diaryAsked, diaryWas, was.age, spent.age} \subseteq 0 .. Interval
  /\ {began, shown.since} \subseteq 1 .. day
  /\ {draft.alert, shown.alert} \cup writing \subseteq BOOLEAN
  /\ failures \in 0 .. MaxFailures /\ expiries \in 0 .. MaxExpiries
  /\ writes \in 0 .. MaxWrites /\ reloads \in 0 .. MaxReloads

\* No refresh publishes figures of a day that was over when it began, whatever
\* of it failed, was tried again with a new token, or came from the cache: "a
\* count of today's barking that is really yesterday's is not a stale reading,
\* it is a false one".
NotYesterdays == shown.figures # NoDay => shown.figures >= shown.since

\* The calendar is asked when an hour has passed since it was last asked to any
\* purpose or when a day has begun since then, and never otherwise: neither a
\* failure nor midnight is a way around the hour, and an attempt that met a dead
\* token does not spend it.
AskedWhenDue ==
  [][step = "consider" /\ step' \in {"calendar", "diary", "idle"} =>
       (step' = "calendar" <=> spent.age >= Interval \/ spent.day # day)]_pollsVars

\* As long as nobody has to sign in, the entities come to show this day's
\* figures and the alert the cloud holds, although a refresh under way puts an
\* alert read before a write over what the switch has shown.
AgreesAtLast ==
  <>[](step # "signin") => <>[](shown.figures = day /\ shown.alert = alert)
=============================================================================
