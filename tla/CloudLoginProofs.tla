-------------------------- MODULE CloudLoginProofs --------------------------
(***************************************************************************)
(* Proofs about CloudLogin, for every number of cameras and clients: logins *)
(* exclude each other, none is made for a token already replaced, and the   *)
(* session file never goes back to an older token.                          *)
(***************************************************************************)
EXTENDS CloudLogin, TLAPS

\* Whoever has a token got it from the file or from a login.
Holding == \A a \in Actors : pc[a] # "idle" => mine[a] # None

\* Whoever waits for the lock does so because the cloud refused its token, and
\* a token once refused is refused for good.
Refused == \A a \in Actors : pc[a] = "queue" => mine[a] # live

\* Only the holder of the lock makes the cloud issue tokens, so until it saves
\* its own that one is the newest.
Newest == \A a \in Actors : pc[a] \in {"devices", "save", "write"} => mine[a] = issued

Past == stored \subseteq 1 .. issued

\* The inductive invariant.
Inv == TypeOK /\ Holding /\ Refused /\ Newest /\ Past /\ NoNeedlessLogin /\ NewestKept

LEMMA InitInv == Init => Inv
<1> SUFFICES ASSUME Init PROVE Inv
  OBVIOUS
<1> USE LoginAssumption DEF Init, Actors, None
<1>1. TypeOK
  BY DEF TypeOK, Demands, Places, LoggingIn, Answers, WantsPerson
<1>2. Holding /\ Refused /\ Newest /\ Past /\ NoNeedlessLogin /\ NewestKept
  BY DEF Holding, Refused, Newest, Past, NoNeedlessLogin, NewestKept, LoggingIn
<1> QED
  BY <1>1, <1>2 DEF Inv

\* A step that only moves one caller out of its login, or past it, and leaves
\* the tokens alone.
LEMMA QuietStep ==
  ASSUME Inv, NEW a \in Actors,
         UNCHANGED <<cloud, file, mine, stored>>,
         pc' \in [Actors -> Places],
         \A b \in Actors \ {a} : pc'[b] = pc[b],
         pc'[a] \in LoggingIn => lock = a \/ lock = Nobody,
         pc'[a] # "idle" => mine[a] # None,
         pc'[a] = "queue" => mine[a] # live,
         pc'[a] \in {"devices", "save", "write"} => mine[a] = issued,
         pc'[a] \in LoggingIn => file = None \/ file # live
  PROVE  (Holding /\ Refused /\ Newest /\ Past /\ NoNeedlessLogin /\ NewestKept)'
<1> USE DEF Inv, cloud
<1>1. Holding'
  BY DEF Holding
<1>2. Refused'
  BY DEF Refused
<1>3. Newest'
  BY DEF Newest
<1>4. NoNeedlessLogin'
  BY DEF NoNeedlessLogin
<1>5. Past' /\ NewestKept'
  BY DEF Past, NewestKept
<1> QED
  BY <1>1, <1>2, <1>3, <1>4, <1>5
-----------------------------------------------------------------------------
\* What an attempt that ends leaves behind, however it ends.
Ended(a) ==
  /\ pc' = [pc EXCEPT ![a] = "idle"]
  /\ lock' = IF lock = a THEN Nobody ELSE lock
  /\ told' \in [Actors -> Answers]
  /\ connected' \subseteq Cameras /\ needsLogin' \subseteq Cameras
  /\ heldOff' \subseteq Cameras

LEMMA AttemptsEnd ==
  ASSUME TypeOK, NEW a \in Actors,
         FailPerson(a) \/ FailLogin(a) \/ FailOther(a) \/ Succeed(a)
           \/ (Tell(a, "bad_request") /\ UNCHANGED worker)
  PROVE  Ended(a)
  BY DEF TypeOK, FailPerson, FailLogin, FailOther, Succeed, Tell, HoldOff, worker,
         Ended, Answers

\* A caller that stops, wherever it was, disturbs nothing.
LEMMA EndedQuietly ==
  ASSUME Inv, NEW a \in Actors, Ended(a), UNCHANGED <<cloud, file, mine, up, stored>>
  PROVE  Inv'
<1>1. TypeOK'
  BY LoginAssumption DEF Inv, TypeOK, Ended, cloud, Actors, Places, LoggingIn
<1>2. /\ pc' \in [Actors -> Places] /\ pc'[a] = "idle"
      /\ \A b \in Actors \ {a} : pc'[b] = pc[b]
  BY DEF Inv, TypeOK, Ended, Places
<1>3. (Holding /\ Refused /\ Newest /\ Past /\ NoNeedlessLogin /\ NewestKept)'
  BY <1>2, QuietStep DEF LoggingIn
<1> QED
  BY <1>1, <1>3 DEF Inv

LEMMA BeginInv ==
  ASSUME Inv, NEW a \in Actors, Begin(a)
  PROVE  Inv'
<1>1. CASE file = None
  BY <1>1, AttemptsEnd, EndedQuietly DEF Begin, Inv
<1>2. CASE file # None
  <2> USE <1>2 DEF Inv, Begin, cloud, worker
  <2>1. TypeOK'
    BY DEF TypeOK, Places, LoggingIn, Answers
  <2>2. Holding' /\ Refused'
    BY DEF TypeOK, Holding, Refused
  <2>3. Newest'
    BY DEF TypeOK, Newest
  <2>4. NoNeedlessLogin'
    BY DEF TypeOK, NoNeedlessLogin, LoggingIn
  <2>5. Past' /\ NewestKept'
    BY DEF Past, NewestKept
  <2> QED
    BY <2>1, <2>2, <2>3, <2>4, <2>5
<1> QED
  BY <1>1, <1>2

\* A caller that goes on to the next place inside or outside its login.
Moves(a, place, holder) ==
  /\ pc' = [pc EXCEPT ![a] = place]
  /\ lock' = holder
  /\ UNCHANGED <<worker, told>>

LEMMA MovesInv ==
  ASSUME Inv, NEW a \in Actors, NEW place \in Places, NEW holder \in {a, lock},
         Moves(a, place, holder), UNCHANGED <<cloud, file, mine, up, stored>>,
         place \in LoggingIn <=> holder = a,
         lock \in {a, Nobody} \/ (holder = lock /\ pc[a] \notin LoggingIn),
         mine[a] # None,
         place = "queue" => mine[a] # live,
         place \in {"devices", "save", "write"} => mine[a] = issued,
         place \in LoggingIn => file = None \/ file # live
  PROVE  Inv'
<1>1. TypeOK'
  BY LoginAssumption DEF Inv, TypeOK, Moves, cloud, worker, Actors, Places, LoggingIn
<1>2. /\ pc' \in [Actors -> Places] /\ pc'[a] = place
      /\ \A b \in Actors \ {a} : pc'[b] = pc[b]
  BY DEF Inv, TypeOK, Moves
<1>3. (Holding /\ Refused /\ Newest /\ Past /\ NoNeedlessLogin /\ NewestKept)'
  <2>1. place \in LoggingIn => lock = a \/ lock = Nobody
    BY LoginAssumption DEF Inv, TypeOK, Actors
  <2> QED
    BY <1>2, <2>1, QuietStep
<1> QED
  BY <1>1, <1>3 DEF Inv
-----------------------------------------------------------------------------
(* One lemma per action.                                                   *)

LEMMA AskInv ==
  ASSUME Inv, NEW a \in Actors, Ask(a)
  PROVE  Inv'
<1>1. CASE FailOther(a) \/ Succeed(a)
  BY <1>1, AttemptsEnd, EndedQuietly DEF Ask, Inv
<1>2. CASE ~(FailOther(a) \/ Succeed(a))
  <2>1. Moves(a, "queue", lock) /\ mine[a] # live /\ pc[a] = "ask"
    BY <1>2 DEF Ask, Moves
  <2>2. mine[a] # None /\ lock # a
    BY <2>1 DEF Inv, Holding, TypeOK, LoggingIn
  <2> QED
    BY <2>1, <2>2, MovesInv DEF Ask, Places, LoggingIn
<1> QED
  BY <1>1, <1>2

LEMMA AcquireInv ==
  ASSUME Inv, NEW a \in Actors, Acquire(a)
  PROVE  Inv'
<1>1. Moves(a, "login", a) /\ mine[a] # None /\ mine[a] # live
  BY DEF Acquire, Moves, Inv, Holding, Refused
<1> QED
  BY <1>1, MovesInv DEF Acquire, Places, LoggingIn

LEMMA SkipInv ==
  ASSUME Inv, NEW a \in Actors, Skip(a)
  PROVE  Inv'
<1> USE DEF Inv, Skip, cloud
<1>1. /\ pc' \in [Actors -> Places] /\ pc'[a] \in {"again", "idle"}
      /\ \A b \in Actors \ {a} : pc'[b] = pc[b]
      /\ lock' = Nobody
      /\ told' \in [Actors -> Answers]
      /\ connected' \subseteq Cameras /\ needsLogin' \subseteq Cameras
      /\ heldOff' \subseteq Cameras
  <2>1. CASE a \in Cameras
    BY <2>1 DEF TypeOK, Places, worker
  <2>2. CASE a \notin Cameras
    <3>1. Ended(a)
      BY <2>2, AttemptsEnd
    <3> QED
      BY <3>1, LoginAssumption DEF Ended, TypeOK, Places, Actors
  <2> QED
    BY <2>1, <2>2
<1>2. mine' = [mine EXCEPT ![a] = file] /\ file # None /\ lock = Nobody
  OBVIOUS
<1>3. TypeOK'
  BY <1>1, <1>2, LoginAssumption DEF TypeOK, LoggingIn, Actors
<1>4. Holding' /\ Refused'
  BY <1>1, <1>2 DEF TypeOK, Holding, Refused
<1>5. Newest'
  BY <1>1, <1>2 DEF TypeOK, Newest
<1>6. NoNeedlessLogin' /\ Past' /\ NewestKept'
  BY <1>1 DEF NoNeedlessLogin, Past, NewestKept, LoggingIn
<1> QED
  BY <1>3, <1>4, <1>5, <1>6

LEMMA GiveUpInv ==
  ASSUME Inv, NEW a \in Actors, GiveUp(a)
  PROVE  Inv'
  BY AttemptsEnd, EndedQuietly DEF GiveUp, Inv

\* The cloud issues a token to the holder of the lock; nobody else has one
\* that is still to be saved.
LEMMA IssueInv ==
  ASSUME Inv, NEW a \in Actors, pc[a] \in {"login", "bare"}, Issue(a),
         UNCHANGED <<file, up, stored>>
  PROVE  Inv'
<1> USE DEF Inv, Issue, worker, None
<1>1. TypeOK'
  BY DEF TypeOK, LoggingIn, Places
<1>2. \A b \in Actors \ {a} :
        /\ pc'[b] = pc[b] /\ mine'[b] = mine[b]
        /\ pc[b] \notin LoggingIn
        /\ mine[b] \in 0 .. issued
  BY DEF TypeOK, LoggingIn
<1>3. pc'[a] = "devices" /\ mine'[a] = issued + 1 /\ issued \in Nat
  BY DEF TypeOK
<1>4. Holding' /\ Refused'
  BY <1>2, <1>3 DEF Holding, Refused
<1>5. Newest'
  BY <1>2, <1>3 DEF Newest, LoggingIn
<1>6. Past' /\ NewestKept' /\ NoNeedlessLogin'
  BY <1>3 DEF TypeOK, Past, NewestKept, NoNeedlessLogin
<1> QED
  BY <1>1, <1>4, <1>5, <1>6

LEMMA StartLoginInv ==
  ASSUME Inv, NEW a \in Actors, StartLogin(a)
  PROVE  Inv'
<1>1. CASE Issue(a)
  BY <1>1, IssueInv DEF StartLogin
<1>2. CASE FailPerson(a) \/ FailLogin(a)
  <2>1. Ended(a)
    BY <1>2, AttemptsEnd DEF Inv
  <2>2. UNCHANGED <<cloud, mine>>
    BY <2>1, LoginAssumption DEF StartLogin, Ended, Issue, Inv, TypeOK, Actors
  <2> QED
    BY <2>1, <2>2, EndedQuietly DEF StartLogin
<1>3. CASE ~(Issue(a) \/ FailPerson(a) \/ FailLogin(a))
  <2>1. Moves(a, "bare", lock) /\ pc[a] = "login" /\ UNCHANGED <<cloud, mine>>
    BY <1>3 DEF StartLogin, NotIn, Moves
  <2>2. mine[a] # None /\ lock = a /\ (file = None \/ file # live)
    BY <2>1 DEF Inv, Holding, TypeOK, LoggingIn, NoNeedlessLogin
  <2> QED
    BY <2>1, <2>2, MovesInv DEF StartLogin, Places, LoggingIn
<1> QED
  BY <1>1, <1>2, <1>3

LEMMA StartBareInv ==
  ASSUME Inv, NEW a \in Actors, StartBare(a)
  PROVE  Inv'
<1>1. CASE Issue(a)
  BY <1>1, IssueInv DEF StartBare
<1>2. CASE ~Issue(a)
  <2>1. (FailPerson(a) \/ FailLogin(a)) /\ UNCHANGED <<cloud, mine>>
    BY <1>2 DEF StartBare, NotIn
  <2> QED
    BY <2>1, AttemptsEnd, EndedQuietly DEF StartBare, Inv
<1> QED
  BY <1>1, <1>2

LEMMA GetDevicesInv ==
  ASSUME Inv, NEW a \in Actors, GetDevices(a)
  PROVE  Inv'
<1>1. CASE FailOther(a) \/ FailLogin(a)
  BY <1>1, AttemptsEnd, EndedQuietly DEF GetDevices, Inv
<1>2. CASE ~(FailOther(a) \/ FailLogin(a))
  <2>1. Moves(a, "save", lock) /\ pc[a] = "devices"
    BY <1>2 DEF GetDevices, Moves
  <2>2. /\ mine[a] # None /\ lock = a /\ mine[a] = issued
        /\ file = None \/ file # live
    BY <2>1 DEF Inv, Holding, TypeOK, LoggingIn, NoNeedlessLogin, Newest
  <2> QED
    BY <2>1, <2>2, MovesInv DEF GetDevices, Places, LoggingIn
<1> QED
  BY <1>1, <1>2

LEMMA TruncateInv ==
  ASSUME Inv, NEW a \in Actors, Truncate(a)
  PROVE  Inv'
<1> USE DEF Inv, Truncate, cloud, worker
<1>1. TypeOK'
  BY DEF TypeOK, LoggingIn, Places, None
<1>2. Holding' /\ Refused' /\ Newest'
  BY DEF TypeOK, Holding, Refused, Newest
<1>3. Past' /\ NewestKept' /\ NoNeedlessLogin'
  BY DEF Past, NewestKept, NoNeedlessLogin
<1> QED
  BY <1>1, <1>2, <1>3

\* The token that is saved is the newest the cloud has issued, so it is newer
\* than every one the file has held.
LEMMA WriteInv ==
  ASSUME Inv, NEW a \in Actors, Write(a)
  PROVE  Inv'
<1> USE DEF Inv, Write, cloud
<1>1. /\ mine[a] = issued /\ lock = a /\ mine[a] # None
      /\ \A b \in Actors \ {a} : pc[b] \notin LoggingIn
  BY DEF Newest, Holding, TypeOK, LoggingIn
<1>2. /\ pc' \in [Actors -> Places] /\ pc'[a] \in {"again", "idle"}
      /\ \A b \in Actors \ {a} : pc'[b] = pc[b]
      /\ lock' = Nobody
      /\ told' \in [Actors -> Answers]
      /\ connected' \subseteq Cameras /\ needsLogin' \subseteq Cameras
      /\ heldOff' \subseteq Cameras
  <2>1. CASE a \in Cameras
    BY <2>1 DEF TypeOK, Places, worker
  <2>2. CASE a \notin Cameras
    <3>1. Ended(a)
      BY <2>2, AttemptsEnd
    <3> QED
      BY <1>1, <3>1 DEF Ended, TypeOK, Places
  <2> QED
    BY <2>1, <2>2
<1>3. TypeOK'
  BY <1>1, <1>2, LoginAssumption DEF TypeOK, LoggingIn, Actors
<1>4. Holding' /\ Refused' /\ Newest'
  BY <1>1, <1>2 DEF Holding, Refused, Newest
<1>5. NoNeedlessLogin'
  BY <1>1, <1>2 DEF NoNeedlessLogin, LoggingIn
<1>6. Past'
  BY <1>1 DEF Past, TypeOK, None
<1>7. NewestKept'
  BY <1>1 DEF Past, NewestKept, TypeOK
<1> QED
  BY <1>3, <1>4, <1>5, <1>6, <1>7

LEMMA AskAgainInv ==
  ASSUME Inv, NEW a \in Actors, AskAgain(a)
  PROVE  Inv'
  BY AttemptsEnd, EndedQuietly DEF AskAgain, Inv

\* The cloud's token dies, the account changes, a camera's session or its
\* hold-off ends: no caller moves, and no dead token comes back to life.
LEMMA AroundInv ==
  ASSUME Inv, (\E c \in Cameras : RetryDue(c) \/ SessionDrops(c)) \/ TokenDies
                \/ AccountTurns
  PROVE  Inv'
<1>1. /\ UNCHANGED <<issued, file, lock, pc, mine, told, up, stored>>
      /\ live' \in {live, None}
      /\ account' \in Demands /\ demanded' \in BOOLEAN
      /\ connected' \subseteq Cameras /\ needsLogin' \subseteq Cameras
      /\ heldOff' \subseteq Cameras
  <2> USE DEF Inv, TypeOK, cloud, worker
  <2>1. CASE \E c \in Cameras : RetryDue(c) \/ SessionDrops(c)
    BY <2>1 DEF RetryDue, SessionDrops
  <2>2. CASE TokenDies
    BY <2>2 DEF TokenDies
  <2>3. CASE AccountTurns
    BY <2>3 DEF AccountTurns, WantsPerson
  <2> QED
    BY <2>1, <2>2, <2>3
<1>2. TypeOK'
  BY <1>1 DEF Inv, TypeOK, None
<1>3. (Holding /\ Refused /\ Newest /\ Past /\ NoNeedlessLogin /\ NewestKept)'
  BY <1>1 DEF Inv, Holding, Refused, Newest, Past, NoNeedlessLogin, NewestKept
<1> QED
  BY <1>2, <1>3 DEF Inv

LEMMA RestartInv ==
  ASSUME Inv, Restart
  PROVE  Inv'
<1> USE LoginAssumption DEF Inv, Restart, cloud
<1>1. TypeOK'
  BY DEF TypeOK, Places, LoggingIn, Answers, Actors
<1>2. (Holding /\ Refused /\ Newest /\ Past /\ NoNeedlessLogin /\ NewestKept)'
  BY DEF Holding, Refused, Newest, Past, NoNeedlessLogin, NewestKept, LoggingIn
<1> QED
  BY <1>1, <1>2

LEMMA StutterInv ==
  ASSUME Inv, UNCHANGED vars
  PROVE  Inv'
  BY DEF Inv, vars, cloud, worker, TypeOK, Holding, Refused, Newest, Past,
         NoNeedlessLogin, NewestKept, WantsPerson

LEMMA NextInv == Inv /\ [Next]_vars => Inv'
<1> SUFFICES ASSUME Inv, [Next]_vars PROVE Inv'
  OBVIOUS
<1>1. ASSUME NEW a \in Actors, Begin(a) \/ Step(a) PROVE Inv'
  BY <1>1, BeginInv, AskInv, SkipInv, AcquireInv, GiveUpInv, StartLoginInv,
     StartBareInv, GetDevicesInv, TruncateInv, WriteInv, AskAgainInv DEF Step
<1>2. CASE (\E c \in Cameras : RetryDue(c) \/ SessionDrops(c)) \/ TokenDies \/ AccountTurns
  BY <1>2, AroundInv
<1>3. CASE Restart
  BY <1>3, RestartInv
<1>4. CASE UNCHANGED vars
  BY <1>4, StutterInv
<1> QED
  BY <1>1, <1>2, <1>3, <1>4 DEF Next

LEMMA AlwaysInv == Spec => []Inv
  BY InitInv, NextInv, PTL DEF Spec
-----------------------------------------------------------------------------
(* Nobody is sent for without a reason.                                    *)

\* The account's wish for a person is on record, and nobody has been told
\* without it.
Reasons == (Demanding => demanded) /\ SentForAReason

\* Most steps neither tell anybody that a person is needed nor put a proof
\* aside.
LEMMA NobodySent ==
  ASSUME TypeOK, Reasons, UNCHANGED <<account, demanded>>,
         faults \in Nat, faults' \in Nat, faults <= faults',
         \A b \in Actors : pc'[b] = "bare" => pc[b] = "bare",
         \A b \in Clients : told'[b] = "login_required" => told[b] = "login_required"
  PROVE  Reasons'
<1>1. (Demanding => demanded)'
  BY DEF Reasons, Demanding, WantsPerson
<1>2. SentForAReason'
  BY DEF Reasons, SentForAReason
<1> QED
  BY <1>1, <1>2 DEF Reasons

\* An attempt that ends otherwise than by sending for somebody.
LEMMA EndedUnsent ==
  ASSUME TypeOK, Reasons, faults \in Nat, NEW a \in Actors,
         FailLogin(a) \/ FailOther(a) \/ Succeed(a) \/ GiveUp(a),
         UNCHANGED counters \/ Fault, UNCHANGED <<account, demanded>>
  PROVE  Reasons'
<1>1. /\ pc' = [pc EXCEPT ![a] = "idle"]
      /\ told' = [told EXCEPT ![a] = told'[a]] /\ told'[a] \in {"unavailable", "ok"}
  BY DEF TypeOK, FailLogin, FailOther, Succeed, GiveUp, Tell
<1>2. faults' \in Nat /\ faults <= faults'
  BY DEF counters, Fault
<1>3. \A b \in Actors : pc'[b] = "bare" => pc[b] = "bare"
  BY <1>1 DEF TypeOK
<1>4. \A b \in Clients : told'[b] = "login_required" => told[b] = "login_required"
  BY <1>1 DEF TypeOK, Actors
<1> QED
  BY <1>2, <1>3, <1>4, NobodySent

\* Somebody is sent for while the account wants it, or after a fault.
LEMMA SentForThis ==
  ASSUME TypeOK, Reasons, faults \in Nat, NEW a \in Actors,
         FailPerson(a), UNCHANGED <<account, demanded>>,
         (demanded /\ UNCHANGED counters) \/ Fault
  PROVE  Reasons'
<1>1. faults' \in Nat /\ faults <= faults' /\ (demanded' \/ faults' > 0)
  BY DEF counters, Fault
<1>2. \A b \in Actors : pc'[b] = "bare" => pc[b] = "bare"
  BY DEF TypeOK, FailPerson, Tell
<1>3. (Demanding => demanded)'
  BY <1>2 DEF Reasons, Demanding, WantsPerson
<1> QED
  BY <1>1, <1>3 DEF Reasons, SentForAReason

LEMMA StartLoginReasons ==
  ASSUME TypeOK, Reasons, faults \in Nat, NEW a \in Actors, StartLogin(a)
  PROVE  Reasons'
<1>1. CASE Issue(a)
  <2>1. \A b \in Actors : pc'[b] = "bare" => pc[b] = "bare"
    BY <1>1 DEF Issue, TypeOK
  <2> QED
    BY <1>1, <2>1, NobodySent DEF Issue, counters
<1>2. CASE NotIn(a) /\ UNCHANGED <<cloud, mine>>
  <2>1. CASE FailLogin(a) /\ Fault
    BY <1>2, <2>1, EndedUnsent DEF cloud
  <2>2. CASE FailPerson(a) /\ Fault
    BY <1>2, <2>2, SentForThis DEF cloud
  <2>3. CASE account = "password" /\ FailPerson(a) /\ UNCHANGED counters
    BY <1>2, <2>3, SentForThis DEF cloud, Reasons, Demanding, WantsPerson
  <2> QED
    BY <1>2, <2>1, <2>2, <2>3 DEF NotIn
<1>3. CASE /\ ~LogsIn(HasProof) /\ account # "password"
           /\ UNCHANGED <<cloud, mine, counters>> /\ ~HasProof /\ FailPerson(a)
  <2>1. WantsPerson
    BY <1>3 DEF LogsIn, WantsPerson, TypeOK, Demands
  <2> QED
    BY <1>3, <2>1, SentForThis DEF cloud, Reasons, Demanding
<1>4. CASE /\ ~LogsIn(HasProof) /\ account # "password"
           /\ UNCHANGED <<cloud, mine, counters, lock, told, worker>> /\ HasProof
           /\ pc' = [pc EXCEPT ![a] = "bare"]
  <2>1. account # "proof"
    BY <1>4 DEF LogsIn
  <2> QED
    BY <1>4, <2>1 DEF cloud, counters, Reasons, Demanding, WantsPerson, SentForAReason
<1> QED
  BY <1>1, <1>2, <1>3, <1>4 DEF StartLogin

LEMMA StartBareReasons ==
  ASSUME TypeOK, Reasons, faults \in Nat, NEW a \in Actors, StartBare(a)
  PROVE  Reasons'
<1>1. CASE Issue(a)
  <2>1. \A b \in Actors : pc'[b] = "bare" => pc[b] = "bare"
    BY <1>1 DEF Issue, TypeOK
  <2> QED
    BY <1>1, <2>1, NobodySent DEF Issue, counters
<1>2. CASE NotIn(a) /\ UNCHANGED <<cloud, mine>>
  <2>1. CASE FailLogin(a) /\ Fault
    BY <1>2, <2>1, EndedUnsent DEF cloud
  <2>2. CASE FailPerson(a) /\ Fault
    BY <1>2, <2>2, SentForThis DEF cloud
  <2>3. CASE account = "password" /\ FailPerson(a) /\ UNCHANGED counters
    BY <1>2, <2>3, SentForThis DEF cloud, Reasons, Demanding, WantsPerson
  <2> QED
    BY <1>2, <2>1, <2>2, <2>3 DEF NotIn
<1>3. CASE /\ ~LogsIn(FALSE) /\ account # "password"
           /\ FailPerson(a) /\ UNCHANGED <<cloud, mine, counters>>
  <2>1. Demanding
    BY <1>3 DEF StartBare, LogsIn, Demanding, WantsPerson, TypeOK, Demands
  <2> QED
    BY <1>3, <2>1, SentForThis DEF cloud, Reasons
<1> QED
  BY <1>1, <1>2, <1>3 DEF StartBare

\* The other steps of a caller.
LEMMA OthersReasons ==
  ASSUME TypeOK, Reasons, faults \in Nat, NEW a \in Actors,
         Begin(a) \/ Ask(a) \/ Skip(a) \/ Acquire(a) \/ GiveUp(a) \/ GetDevices(a)
           \/ Truncate(a) \/ Write(a) \/ AskAgain(a)
  PROVE  Reasons'
<1> SUFFICES ASSUME ~(FailLogin(a) \/ FailOther(a) \/ Succeed(a) \/ GiveUp(a))
             PROVE  Reasons'
  BY EndedUnsent DEF Begin, Ask, Skip, Acquire, GiveUp, GetDevices, Truncate, Write,
                     AskAgain, cloud
<1>1. /\ UNCHANGED <<account, demanded, counters>>
      /\ \E place \in Places \ {"bare"} : pc' = [pc EXCEPT ![a] = place]
      /\ told' = told \/ \E answer \in {"none", "bad_request"} : told' = [told EXCEPT ![a] = answer]
  BY DEF Begin, Ask, Skip, Acquire, GetDevices, Truncate, Write, AskAgain, cloud, Tell,
         Places, LoggingIn
<1>2. \A b \in Actors : pc'[b] = "bare" => pc[b] = "bare"
  BY <1>1 DEF TypeOK
<1>3. \A b \in Clients : told'[b] = "login_required" => told[b] = "login_required"
  BY <1>1 DEF TypeOK, Actors
<1> QED
  BY <1>1, <1>2, <1>3, NobodySent DEF counters

LEMMA AroundReasons ==
  ASSUME TypeOK, Reasons, faults \in Nat,
         (\E c \in Cameras : RetryDue(c) \/ SessionDrops(c)) \/ TokenDies
           \/ AccountTurns \/ Restart
  PROVE  Reasons'
<1>1. CASE (\E c \in Cameras : RetryDue(c) \/ SessionDrops(c)) \/ TokenDies
  <2>1. UNCHANGED <<account, demanded, pc, told, faults>>
    BY <1>1 DEF RetryDue, SessionDrops, TokenDies, cloud, counters
  <2> QED
    BY <2>1, NobodySent
<1>2. CASE AccountTurns
  BY <1>2 DEF AccountTurns, Reasons, SentForAReason
<1>3. CASE Restart
  <2>1. /\ \A b \in Actors : pc'[b] = "idle"
        /\ \A b \in Clients : told'[b] = "none"
        /\ UNCHANGED <<account, demanded, faults>>
    BY <1>3 DEF Restart, cloud, Actors
  <2> QED
    BY <2>1, NobodySent
<1> QED
  BY <1>1, <1>2, <1>3

LEMMA ReasonsKept ==
  (TypeOK /\ faults \in Nat) /\ Reasons /\ [Next]_vars => Reasons' /\ faults' \in Nat
<1> SUFFICES ASSUME TypeOK, faults \in Nat, Reasons, [Next]_vars
             PROVE  Reasons' /\ faults' \in Nat
  OBVIOUS
<1>0. faults' \in Nat
  <2>1. UNCHANGED counters \/ Fault \/ faults' = faults
    BY DEF Next, vars, Begin, Step, Ask, Skip, Acquire, GiveUp, StartLogin, StartBare,
           NotIn, Issue, GetDevices, Truncate, Write, AskAgain, RetryDue, SessionDrops,
           TokenDies, AccountTurns, Restart
  <2> QED
    BY <2>1 DEF counters, Fault
<1>1. ASSUME NEW a \in Actors, Begin(a) \/ Step(a) PROVE Reasons'
  BY <1>1, StartLoginReasons, StartBareReasons, OthersReasons DEF Step
<1>2. CASE (\E c \in Cameras : RetryDue(c) \/ SessionDrops(c)) \/ TokenDies
             \/ AccountTurns \/ Restart
  BY <1>0, <1>2, AroundReasons
<1>3. CASE UNCHANGED vars
  BY <1>0, <1>3, NobodySent DEF vars, cloud, counters
<1> QED
  BY <1>0, <1>1, <1>2, <1>3 DEF Next
-----------------------------------------------------------------------------
(* The theorems.                                                           *)

\* Every variable keeps its type, and the login lock is held by whoever is
\* inside _login_again and by nobody else: no two logins run at once.
THEOREM TypeCorrect == Spec => []TypeOK
<1>1. Inv => TypeOK
  BY DEF Inv
<1> QED
  BY <1>1, AlwaysInv, PTL

\* However many cameras and clients notice a dead token, and in whatever order,
\* a login is only ever made for a stored token that the cloud refuses.
THEOREM OneLoginPerDeadToken == Spec => []NoNeedlessLogin
<1>1. Inv => NoNeedlessLogin
  BY DEF Inv
<1> QED
  BY <1>1, AlwaysInv, PTL

\* The session file never goes back to an older token, through restarts too.
THEOREM FileKeepsNewest == Spec => []NewestKept
<1>1. Inv => NewestKept
  BY DEF Inv
<1> QED
  BY <1>1, AlwaysInv, PTL

\* A client is told to send for a person only when the account has wanted one or
\* the login endpoint has failed, however many log in and whenever tokens die.
THEOREM SentWithReason == Spec => []SentForAReason
<1>1. Init => Reasons /\ faults \in Nat
  <2> SUFFICES ASSUME Init PROVE Reasons
    BY DEF Init
  <2>1. \A a \in Actors : pc[a] = "idle" /\ told[a] = "none"
    BY DEF Init
  <2>2. Demanding => demanded
    BY <2>1 DEF Init, Demanding, WantsPerson
  <2> QED
    BY <2>1, <2>2 DEF Reasons, SentForAReason, Actors
<1>2. TypeOK /\ (Reasons /\ faults \in Nat) /\ [Next]_vars => (Reasons /\ faults \in Nat)'
  BY ReasonsKept
<1>3. Reasons => SentForAReason
  BY DEF Reasons
<1> QED
  BY <1>1, <1>2, <1>3, TypeCorrect, PTL DEF Spec
=============================================================================
