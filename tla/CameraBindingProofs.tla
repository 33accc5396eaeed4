------------------------ MODULE CameraBindingProofs ------------------------
(***************************************************************************)
(* Proofs about CameraBinding: that a press moves its own camera, and that *)
(* no camera plays another's picture, for any account and any bounds.      *)
(***************************************************************************)
EXTENDS CameraBinding, TLAPS, FiniteSetTheorems

\* A camera that is ready before its client knows the bridge's kind has been
\* named to a bridge that took the name.
Named == \A d \in ready : scoped[d] = "unknown" => version = "new"

\* Requests belong to cameras that are bound.
Bound == \A r \in Requests : doing[r] # "idle" => place = "loaded" /\ r[1] \in bridges

\* What a client knows: an upgraded bridge stays upgraded.
Learnt == \A d \in Cameras : scoped[d] = "yes" => version = "new"

\* Presses come after a good status, so one that still asks asks a new bridge.
PressAsks ==
  \A d \in Cameras : doing[<<d, "press">>] = "ask" => version = "new" /\ scoped[d] # "no"

\* A poll that asks, or names its camera, has not been told "old".
PollNames == \A d \in Cameras : doing[<<d, "poll">>] \in {"ask", "named"} => scoped[d] # "no"

\* Leaving the name out follows from the bridge's definite answer.
PlainKnown == \A r \in Requests : doing[r] = "plain" => scoped[r[1]] = "no"

\* A camera whose status was good while the bridge knows one camera is it.
SureIsFirst == \A d \in sure : scoped[d] = "no" => primary = d

IInv ==
  /\ TypeOK /\ Named /\ Learnt /\ PressAsks /\ PollNames /\ PlainKnown /\ SureIsFirst
  /\ Bound
  /\ ActsOnItsOwn

\* The plain stream is bound only where there is one camera to show.
PlainSole == \A d \in Cameras : stream[d] = "plain" => d \in account /\ Sole
-----------------------------------------------------------------------------
LEMMA Stage == ASSUME NEW d \in Cameras
               PROVE  <<d, "poll">> \in Requests /\ <<d, "press">> \in Requests
  BY DEF Requests

LEMMA Start == Init => IInv /\ PlainSole
<1> SUFFICES ASSUME Init PROVE IInv /\ PlainSole
  OBVIOUS
<1> USE DEF Init
<1>1. TypeOK
  BY DEF TypeOK, Findings, Stages
<1>2. Named /\ SureIsFirst /\ ActsOnItsOwn
  BY DEF Named, SureIsFirst, ActsOnItsOwn
<1>3. Learnt /\ PlainSole
  BY DEF Learnt, PlainSole
<1>4. PressAsks /\ PollNames /\ PlainKnown /\ Bound
  BY Stage DEF PressAsks, PollNames, PlainKnown, Bound
<1> QED
  BY <1>1, <1>2, <1>3, <1>4 DEF IInv

\* Setting up, reloading and the add-on.

LEMMA DiscoverKeeps == IInv /\ Discover => IInv'
<1> SUFFICES ASSUME IInv, Discover PROVE IInv'
  OBVIOUS
<1> USE DEF Discover, addon, client, counters, Fault
<1>1. found' \in Findings /\ streams' \subseteq account
  BY DEF IInv, TypeOK, Findings, NoAnswer
<1>2. TypeOK'
  BY <1>1 DEF IInv, TypeOK
<1>3. Named' /\ SureIsFirst' /\ ActsOnItsOwn' /\ Learnt'
  BY DEF IInv, Named, SureIsFirst, ActsOnItsOwn, Learnt
<1>4. PressAsks' /\ PollNames' /\ PlainKnown' /\ Bound'
  BY DEF IInv, TypeOK, PressAsks, PollNames, PlainKnown, Bound
<1> QED
  BY <1>2, <1>3, <1>4 DEF IInv

LEMMA BindKeeps == IInv /\ Bind => IInv'
<1> SUFFICES ASSUME IInv, Bind PROVE IInv'
  OBVIOUS
<1> USE DEF Bind, addon, counters
<1>1. stream' \in [Cameras -> {"none", "plain", "own"}]
  BY DEF StreamFor
<1>2. bridges' \subseteq account /\ retry' \in BOOLEAN
  BY DEF IInv, TypeOK
<1>3. TypeOK'
  BY <1>1, <1>2 DEF IInv, TypeOK, Stages
<1>4. Named' /\ SureIsFirst' /\ ActsOnItsOwn' /\ Learnt'
  BY DEF IInv, Named, SureIsFirst, ActsOnItsOwn, Learnt
<1>5. PressAsks' /\ PollNames' /\ PlainKnown' /\ Bound'
  BY Stage DEF PressAsks, PollNames, PlainKnown, Bound
<1> QED
  BY <1>3, <1>4, <1>5 DEF IInv

LEMMA UnloadKeeps == IInv /\ Unload => IInv'
<1> SUFFICES ASSUME IInv, Unload PROVE IInv'
  OBVIOUS
<1> USE DEF Unload, addon, TimerAfter
<1>1. TypeOK'
  BY DEF IInv, TypeOK, Stages
<1>2. Named' /\ SureIsFirst' /\ ActsOnItsOwn' /\ Learnt'
  BY DEF IInv, Named, SureIsFirst, ActsOnItsOwn, Learnt
<1>3. PressAsks' /\ PollNames' /\ PlainKnown' /\ Bound'
  BY Stage DEF PressAsks, PollNames, PlainKnown, Bound
<1> QED
  BY <1>1, <1>2, <1>3 DEF IInv

LEMMA AddonKeeps == IInv /\ AddonTurns => IInv'
<1> SUFFICES ASSUME IInv, AddonTurns PROVE IInv'
  OBVIOUS
<1> USE DEF AddonTurns, entry
<1>1. version = "new" => version' = "new"
  BY DEF IInv, TypeOK
<1>2. TypeOK'
  BY DEF IInv, TypeOK
<1>3. Named' /\ Learnt' /\ PressAsks'
  BY <1>1 DEF IInv, Named, Learnt, PressAsks
<1>4. SureIsFirst' /\ ActsOnItsOwn' /\ PollNames' /\ PlainKnown' /\ Bound'
  BY DEF IInv, SureIsFirst, ActsOnItsOwn, PollNames, PlainKnown, Bound
<1> QED
  BY <1>2, <1>3, <1>4 DEF IInv

\* One camera's client.

LEMMA BeginKeeps == ASSUME NEW d \in Cameras, NEW kind \in {"poll", "press"}, IInv, Begin(d, kind)
                    PROVE  IInv'
<1> USE DEF Begin, addon, entry, counters
<1> DEFINE r == <<d, kind>>
<1>1. r \in Requests
  BY DEF Requests
<1>2. doing' \in [Requests -> Stages] /\ doing'[r] \in {"ask", "plain", "named"}
      /\ (\A q \in Requests : q # r => doing'[q] = doing[q])
  BY <1>1 DEF IInv, TypeOK, Stages
<1>3. /\ doing'[r] = "ask" => scoped[d] = "unknown"
      /\ doing'[r] = "plain" => scoped[d] = "no"
      /\ doing'[r] = "named" => scoped[d] = "yes"
  BY <1>1 DEF IInv, TypeOK, Stages
<1> HIDE DEF r
<1>4. TypeOK'
  BY <1>2 DEF IInv, TypeOK
<1>5. Named' /\ Learnt' /\ SureIsFirst' /\ ActsOnItsOwn'
  BY DEF IInv, Named, Learnt, SureIsFirst, ActsOnItsOwn
<1>6. PressAsks'
  <2> SUFFICES ASSUME NEW c \in Cameras, doing'[<<c, "press">>] = "ask"
               PROVE  version = "new" /\ scoped[c] # "no"
    BY DEF PressAsks
  <2>1. CASE <<c, "press">> = r
    BY <2>1, <1>3 DEF r, IInv, Named
  <2>2. CASE <<c, "press">> # r
    BY <2>2, <1>2, Stage DEF IInv, PressAsks
  <2> QED
    BY <2>1, <2>2
<1>7. PollNames'
  <2> SUFFICES ASSUME NEW c \in Cameras, doing'[<<c, "poll">>] \in {"ask", "named"} PROVE scoped[c] # "no"
    BY DEF PollNames
  <2>1. CASE <<c, "poll">> = r
    BY <2>1, <1>3 DEF r
  <2>2. CASE <<c, "poll">> # r
    BY <2>2, <1>2, Stage DEF IInv, PollNames
  <2> QED
    BY <2>1, <2>2
<1>8. PlainKnown'
  <2> SUFFICES ASSUME NEW q \in Requests, doing'[q] = "plain" PROVE scoped[q[1]] = "no"
    BY DEF PlainKnown
  <2>1. CASE q = r
    BY <2>1, <1>3 DEF r
  <2>2. CASE q # r
    BY <2>2, <1>2 DEF IInv, PlainKnown
  <2> QED
    BY <2>1, <2>2
<1>9. Bound'
  BY <1>1, <1>2 DEF r, IInv, Bound
<1> QED
  BY <1>4, <1>5, <1>6, <1>7, <1>8, <1>9 DEF IInv

\* Only a poll can be the first to hear "old", and then nothing is ready.
LEMMA AskKeeps == ASSUME NEW d \in Cameras, NEW kind \in {"poll", "press"}, IInv, AskCameras(<<d, kind>>)
                  PROVE  IInv'
<1> DEFINE r == <<d, kind>>
<1>1. r \in Requests /\ r[1] = d
  BY DEF Requests
<1>2. doing[r] = "ask"
  BY DEF AskCameras
<1>3. /\ UNCHANGED <<account, primary, addon, entry, ready, sure, hits>>
      /\ \/ /\ version = "new"
            /\ scoped' = [scoped EXCEPT ![d] = "yes"] /\ doing' = [doing EXCEPT ![r] = "named"]
         \/ /\ version # "new"
            /\ scoped' = [scoped EXCEPT ![d] = "no"] /\ doing' = [doing EXCEPT ![r] = "plain"]
         \/ scoped' = scoped /\ doing' = [doing EXCEPT ![r] = "named"]
  BY <1>1 DEF AskCameras, Unsettled
<1>4. turns' = turns
  BY DEF AskCameras, Unsettled, Fault, counters
<1> HIDE DEF r
<1> USE DEF addon, entry
<1>5. TypeOK'
  BY <1>1, <1>3 DEF IInv, TypeOK, Stages
<1>6. scoped[d] # "no"
  BY <1>1, <1>2 DEF r, IInv, PressAsks, PollNames
<1>7. \A q \in Requests : q[1] = d => doing[q] # "plain"
  BY <1>6 DEF IInv, PlainKnown
<1>8. ActsOnItsOwn' /\ Bound'
  BY <1>1, <1>2, <1>3 DEF IInv, TypeOK, ActsOnItsOwn, Bound
<1>9. CASE version = "new" /\ scoped' = [scoped EXCEPT ![d] = "yes"] /\ doing' = [doing EXCEPT ![r] = "named"]
  <2>1. Named' /\ Learnt' /\ SureIsFirst'
    BY <1>3, <1>9 DEF IInv, TypeOK, Named, Learnt, SureIsFirst
  <2>2. PressAsks'
    BY <1>1, <1>3, <1>9, Stage DEF IInv, TypeOK, PressAsks
  <2>3. PollNames'
    BY <1>1, <1>9, Stage DEF r, IInv, TypeOK, PollNames
  <2>4. PlainKnown'
    BY <1>1, <1>7, <1>9 DEF IInv, TypeOK, PlainKnown
  <2> QED
    BY <1>5, <1>8, <2>1, <2>2, <2>3, <2>4 DEF IInv
<1>10. CASE version # "new" /\ scoped' = [scoped EXCEPT ![d] = "no"] /\ doing' = [doing EXCEPT ![r] = "plain"]
  <2>1. scoped[d] = "unknown" /\ d \notin ready /\ d \notin sure
    BY <1>6, <1>10 DEF IInv, TypeOK, Named, Learnt
  <2>2. kind = "poll" /\ doing[<<d, "press">>] # "ask"
    BY <1>2, <1>10 DEF r, IInv, PressAsks
  <2>3. Named' /\ Learnt' /\ SureIsFirst'
    BY <1>3, <1>10, <2>1 DEF IInv, TypeOK, Named, Learnt, SureIsFirst
  <2>4. PressAsks'
    BY <1>1, <1>3, <1>10, <2>2, Stage DEF IInv, TypeOK, PressAsks
  <2>5. PollNames'
    BY <1>1, <1>10, <2>2, Stage DEF r, IInv, TypeOK, PollNames
  <2>6. PlainKnown'
    BY <1>1, <1>10 DEF IInv, TypeOK, PlainKnown
  <2> QED
    BY <1>5, <1>8, <2>3, <2>4, <2>5, <2>6 DEF IInv
<1>11. CASE scoped' = scoped /\ doing' = [doing EXCEPT ![r] = "named"]
  <2>1. Named' /\ Learnt' /\ SureIsFirst'
    BY <1>3, <1>11 DEF IInv, Named, Learnt, SureIsFirst
  <2>2. PressAsks'
    BY <1>1, <1>3, <1>11, Stage DEF IInv, TypeOK, PressAsks
  <2>3. PollNames'
    BY <1>1, <1>6, <1>11, Stage DEF r, IInv, TypeOK, PollNames
  <2>4. PlainKnown'
    BY <1>1, <1>11 DEF IInv, TypeOK, PlainKnown
  <2> QED
    BY <1>5, <1>8, <2>1, <2>2, <2>3, <2>4 DEF IInv
<1> QED
  BY <1>3, <1>9, <1>10, <1>11

\* A status that is vouched for, by what it says or by its path, is this camera's.
LEMMA PollKeeps == ASSUME NEW d \in Cameras, IInv, PollEnds(d) PROVE IInv'
<1> DEFINE r == <<d, "poll">>
<1>1. r \in Requests /\ doing[r] \in {"named", "plain"}
  BY Stage DEF PollEnds
<1>2. /\ UNCHANGED <<account, primary, addon, entry, scoped, hits>>
      /\ doing' = [doing EXCEPT ![r] = "idle"]
  BY DEF PollEnds
<1> DEFINE Vouched == (\E c \in Reached(r) : c = d) /\ sure' = sure \cup {d}
<1>3. \/ /\ Reached(r) # {} /\ ready' = ready \cup {d}
         /\ Vouched \/ sure' = sure \ {d}
      \/ ready' = ready \ {d} /\ sure' = sure \ {d}
  <2>1. ASSUME NEW c \in Reached(r), NEW says \in BOOLEAN, OwnStatus(d, c, says),
               says \/ doing[r] = "named"
        PROVE  c = d
    BY <1>1, <2>1 DEF OwnStatus, Reached
  <2> QED BY <2>1 DEF PollEnds
<1>4. doing' \in [Requests -> Stages] /\ \A q \in Requests : doing'[q] \in {"idle", doing[q]}
  BY <1>1, <1>2 DEF IInv, TypeOK, Stages
<1> HIDE DEF r, Vouched
<1> USE DEF addon, entry
<1>5. place = "loaded" /\ d \in bridges
  BY <1>1 DEF r, IInv, Bound
<1>6. TypeOK'
  <2>1. sure' \in {sure \cup {d}, sure \ {d}} /\ ready' \in {ready \cup {d}, ready \ {d}}
    BY <1>3 DEF Vouched
  <2>2. sure \subseteq ready /\ ready \subseteq bridges
    BY DEF IInv, TypeOK
  <2>3. CASE ready' = ready \cup {d} /\ (Vouched \/ sure' = sure \ {d})
    <3>1. sure' \subseteq ready' /\ ready' \subseteq bridges
      BY <1>5, <2>1, <2>2, <2>3
    <3> QED BY <1>2, <1>4, <1>5, <3>1 DEF IInv, TypeOK
  <2>4. CASE ready' = ready \ {d} /\ sure' = sure \ {d}
    <3>1. sure' \subseteq ready' /\ ready' \subseteq bridges
      BY <2>2, <2>4
    <3> QED BY <1>2, <1>4, <1>5, <3>1 DEF IInv, TypeOK
  <2> QED BY <1>3, <2>3, <2>4
<1>7. ActsOnItsOwn' /\ Learnt'
  BY <1>2 DEF IInv, ActsOnItsOwn, Learnt
<1>8. PressAsks' /\ PollNames' /\ PlainKnown' /\ Bound'
  BY <1>2, <1>4, Stage DEF IInv, PressAsks, PollNames, PlainKnown, Bound
<1>9. doing[r] = "plain" => scoped[d] = "no"
  BY <1>1 DEF r, IInv, PlainKnown
<1>10. CASE Reached(r) # {} /\ ready' = ready \cup {d} /\ (Vouched \/ sure' = sure \ {d})
  <2>1. doing[r] # "plain" => version = "new" /\ scoped[d] # "no"
    BY <1>1, <1>10 DEF r, Reached, IInv, PollNames
  <2>2. Named'
    BY <1>2, <1>9, <1>10, <2>1 DEF IInv, Named
  <2>3. CASE Vouched
    <3>1. doing[r] = "plain" => primary = d
      BY <2>3 DEF Vouched, Reached
    <3>2. SureIsFirst'
      BY <1>2, <1>9, <2>1, <2>3, <3>1 DEF Vouched, IInv, SureIsFirst
    <3> QED BY <1>6, <1>7, <1>8, <2>2, <3>2 DEF IInv
  <2>4. CASE sure' = sure \ {d}
    <3>1. SureIsFirst'
      BY <1>2, <2>4 DEF IInv, SureIsFirst
    <3> QED BY <1>6, <1>7, <1>8, <2>2, <3>1 DEF IInv
  <2> QED BY <1>10, <2>3, <2>4
<1>11. CASE ready' = ready \ {d} /\ sure' = sure \ {d}
  <2>1. Named' /\ SureIsFirst'
    BY <1>2, <1>11 DEF IInv, Named, SureIsFirst
  <2> QED
    BY <1>6, <1>7, <1>8, <2>1 DEF IInv
<1> QED
  BY <1>3, <1>10, <1>11

\* A press that reaches a camera under no name reaches the first one, and that
\* is its own as long as its status was vouched for since the first was chosen.
LEMMA PressKeeps == ASSUME NEW d \in Cameras, IInv, PressEnds(d) PROVE IInv'
<1> DEFINE r == <<d, "press">>
<1>1. r \in Requests /\ doing[r] \in {"named", "plain"}
  BY Stage DEF PressEnds
<1>2. /\ UNCHANGED <<account, primary, addon, entry, scoped, sure>>
      /\ doing' = [doing EXCEPT ![r] = "idle"]
      /\ hits' \subseteq hits \cup ({d} \X Reached(r) \X {d \in sure})
      /\ ready' = ready \/ (ready' = ready \cup {d} /\ Reached(r) # {})
  BY DEF PressEnds
<1>3. doing' \in [Requests -> Stages] /\ \A q \in Requests : doing'[q] \in {"idle", doing[q]}
  BY <1>1, <1>2 DEF IInv, TypeOK, Stages
<1>4. d \in account /\ d \in bridges /\ place = "loaded"
  BY <1>1 DEF r, IInv, TypeOK, Bound
<1>5. \A c \in Reached(r) : c \in account /\ (d \in sure => c = d)
  BY <1>1 DEF r, Reached, IInv, TypeOK, PlainKnown, SureIsFirst
<1>6. hits' \subseteq account \X account \X BOOLEAN
  BY <1>2, <1>4, <1>5 DEF IInv, TypeOK
<1>7. ActsOnItsOwn'
  BY <1>2, <1>5 DEF IInv, ActsOnItsOwn
<1>11. Reached(r) # {} /\ scoped[d] = "unknown" => version = "new"
  BY <1>1 DEF r, Reached, IInv, PlainKnown
<1> HIDE DEF r
<1> USE DEF addon, entry
<1>8. TypeOK'
  BY <1>2, <1>3, <1>4, <1>6 DEF IInv, TypeOK
<1>9. Named' /\ SureIsFirst' /\ Learnt'
  BY <1>2, <1>11 DEF IInv, Named, SureIsFirst, Learnt
<1>10. PressAsks' /\ PollNames' /\ PlainKnown' /\ Bound'
  BY <1>2, <1>3, Stage DEF IInv, PressAsks, PollNames, PlainKnown, Bound
<1> QED
  BY <1>7, <1>8, <1>9, <1>10 DEF IInv
-----------------------------------------------------------------------------
LEMMA Step == IInv /\ [Next]_vars => IInv'
<1> SUFFICES ASSUME IInv, [Next]_vars PROVE IInv'
  OBVIOUS
<1>1. CASE Entry
  BY <1>1, DiscoverKeeps, BindKeeps, UnloadKeeps DEF Entry, AskAgain
<1>2. CASE Reload
  BY <1>2, UnloadKeeps DEF Reload
<1>3. ASSUME NEW d \in Cameras, NEW kind \in {"poll", "press"}, Begin(d, kind) \/ AskCameras(<<d, kind>>)
      PROVE  IInv'
  BY <1>3, BeginKeeps, AskKeeps
<1>4. ASSUME NEW d \in Cameras, PollEnds(d) \/ PressEnds(d) PROVE IInv'
  BY <1>4, PollKeeps, PressKeeps
<1>5. CASE AddonTurns
  BY <1>5, AddonKeeps
<1>6. CASE UNCHANGED vars
  BY <1>6 DEF vars, addon, entry, client, counters, IInv, TypeOK, Named, Learnt, PressAsks,
              PollNames, PlainKnown, SureIsFirst, Bound, ActsOnItsOwn
<1> QED
  BY <1>1, <1>2, <1>3, <1>4, <1>5, <1>6 DEF Next

\* TypeOK for any account and any add-on.
THEOREM TypeCorrect == Spec => []TypeOK
<1>1. IInv => TypeOK
  BY DEF IInv
<1> QED
  BY Start, Step, <1>1, PTL DEF Spec

\* ActsOnItsOwn for any number of cameras, starts of the add-on and failures: a
\* press never moves another camera, but for a bridge that knows only one and did
\* not say which, or was given another since it did.
THEOREM OwnCamera == Spec => []ActsOnItsOwn
<1>1. IInv => ActsOnItsOwn
  BY DEF IInv
<1> QED
  BY Start, Step, <1>1, PTL DEF Spec

LEMMA OnlyOne == ASSUME TypeOK, Sole, NEW d \in account PROVE d = primary
<1>1. IsFiniteSet(account)
  BY FS_Subset, BindingAssumption DEF TypeOK
<1>2. PICK x : account = {x}
  BY <1>1, FS_Singleton DEF Sole
<1> QED
  BY <1>2 DEF TypeOK

LEMMA PlainStep == PlainSole /\ [Next]_vars => PlainSole'
<1> SUFFICES ASSUME PlainSole, [Next]_vars PROVE PlainSole'
  OBVIOUS
<1>1. account' = account
  BY DEF Next, Entry, Discover, Bind, AskAgain, Reload, Unload, Begin, AskCameras, PollEnds,
         PressEnds, AddonTurns, vars
<1>2. CASE Bind
  BY <1>1, <1>2 DEF Bind, StreamFor, PlainSole, Sole
<1>3. stream' = stream \/ Bind
  BY DEF Next, Entry, Discover, AskAgain, Reload, Unload, Begin, AskCameras, PollEnds,
         PressEnds, AddonTurns, vars, entry
<1> QED
  BY <1>1, <1>2, <1>3 DEF PlainSole, Sole

\* PlaysItsOwn for any account: a stream that names no camera is bound only
\* where it can be nobody else's.
THEOREM OwnPicture == Spec => []PlaysItsOwn
<1>1. TypeOK /\ PlainSole => PlaysItsOwn
  BY OnlyOne DEF PlainSole, PlaysItsOwn
<1>2. Spec => []TypeOK
  BY TypeCorrect
<1> QED
  BY Start, PlainStep, <1>1, <1>2, PTL DEF Spec
=============================================================================
