------------------------ MODULE SettingsCacheProofs ------------------------
(***************************************************************************)
(* Two facts, for any settings, values and plans, and any number of        *)
(* writes, changes in the app and lost sessions.  The schedule toggle      *)
(* never makes up a plan, on either command set and however late answers   *)
(* are.  And a request to a V2 camera that answers in time is shown as the *)
(* camera took it, or rejected it.                                         *)
(***************************************************************************)
EXTENDS MCSettingsCache, SequenceTheorems, FiniteSetTheorems, NaturalsInduction, TLAPS

-----------------------------------------------------------------------------
\* A non-empty set of positions has a last one.
LEMMA LastPosition ==
  ASSUME NEW n \in Nat, NEW S, S \subseteq 1 .. n, S # {}
  PROVE  Max(S) \in S
<1> DEFINE T == {t \in Nat : n - t \in S}
<1>1. T \subseteq Nat /\ T # {}
  <2>1. PICK i \in S : TRUE
    OBVIOUS
  <2>2. n - i \in Nat /\ n - (n - i) = i
    BY <2>1
  <2> QED BY <2>2
<1>2. PICK m \in T : \A k \in T : m <= k
  <2> DEFINE R == {ss \in Nat \X Nat : ss[1] < ss[2]}
  <2>1. IsWellFoundedOn(R, Nat)
    BY NatLessThanWellFounded DEF OpToRel
  <2> HIDE DEF R
  <2>2. \E m \in T : \A k \in T : ~(<<k, m>> \in R)
    BY <1>1, <2>1, WFMin
  <2>3. PICK m \in T : \A k \in T : ~(<<k, m>> \in R)
    BY <2>2
  <2>4. ASSUME NEW k \in T PROVE m <= k
    <3>1. m \in Nat /\ k \in Nat
      BY <1>1
    <3>2. ~(<<k, m>> \in R)
      BY <2>3
    <3>3. ~(k < m)
      BY <3>1, <3>2 DEF R
    <3> QED BY <3>1, <3>3
  <2> QED BY <2>4
<1> DEFINE x == n - m
<1>3. x \in S /\ m \in Nat
  OBVIOUS
<1>4. \A y \in S : x >= y
  <2> SUFFICES ASSUME NEW y \in S PROVE x >= y
    OBVIOUS
  <2>1. n - y \in Nat /\ n - (n - y) = y /\ y \in Nat
    OBVIOUS
  <2>2. m <= n - y
    BY <1>2, <2>1
  <2> QED BY <1>3, <2>1, <2>2
<1> HIDE DEF x
<1> QED BY <1>3, <1>4 DEF Max

-----------------------------------------------------------------------------
(* The inductive invariant.  A plan reaches the camera only from the app   *)
(* or from the decoder; the decoder has it from an answer, and an answer   *)
(* from the camera.                                                        *)

PlansKnown(w, plans) ==
  /\ \E S : w \in Seq(S)
  /\ \A i \in DOMAIN w : w[i].kind = "value" => w[i].plan \in plans

PlanInv ==
  /\ PlanFromCamera
  /\ rawPlan \in plansHeld \cup {NoValue}
  /\ PlansKnown(wire, plansHeld)

-----------------------------------------------------------------------------
(* The wire.                                                               *)

\* What is left after some answers have been taken was there before.
LEMMA PlansAfter ==
  ASSUME NEW plans, PlansKnown(wire, plans), NEW n \in 0 .. Len(wire)
  PROVE  PlansKnown(After(n), plans)
<1>1. PICK S : wire \in Seq(S)
  BY DEF PlansKnown
<1>2. Len(wire) \in Nat /\ DOMAIN wire = 1 .. Len(wire)
  BY <1>1, LenProperties
<1> DEFINE m == Len(wire)
<1>3. \A i \in n + 1 .. m : wire[i] \in S
  BY <1>1, <1>2, ElementOfSeq
<1>4. n \in Nat /\ m \in Nat /\ n <= m /\ n + 1 \in Int /\ m \in Int
  BY <1>2
<1> HIDE DEF m
<1>5. /\ SubSeq(wire, n + 1, m) \in Seq(S)
      /\ Len(SubSeq(wire, n + 1, m)) = IF n + 1 <= m THEN m - (n + 1) + 1 ELSE 0
      /\ \A i \in 1 .. m - (n + 1) + 1 : SubSeq(wire, n + 1, m)[i] = wire[n + 1 + i - 1]
  BY <1>3, <1>4, SubSeqProperties
<1> DEFINE w == SubSeq(wire, n + 1, m)
<1>6. DOMAIN w = 1 .. Len(w)
  BY <1>5, LenProperties
<1> HIDE DEF w
<1>7. Len(w) = m - n
  BY <1>4, <1>5 DEF w
<1>8. ASSUME NEW i \in DOMAIN w PROVE n + i \in DOMAIN wire /\ w[i] = wire[n + i]
  <2>1. i \in 1 .. m - (n + 1) + 1 /\ n + 1 + i - 1 = n + i /\ n + i \in 1 .. m
    BY <1>4, <1>6, <1>7
  <2> QED BY <1>2, <1>5, <2>1 DEF w, m
<1>9. PlansKnown(w, plans)
  BY <1>5, <1>8 DEF PlansKnown, w
<1> QED BY <1>9 DEF After, w, m

\* An answer that reports no plan, or a known one, may join them.
LEMMA PlansAppend ==
  ASSUME NEW plans, NEW w, PlansKnown(w, plans), NEW e, e.kind = "value" => e.plan \in plans
  PROVE  PlansKnown(Append(w, e), plans)
<1>1. PICK S : w \in Seq(S)
  BY DEF PlansKnown
<1> DEFINE T == S \cup {e}
<1>2. w \in Seq(T) /\ e \in T
  BY <1>1, SeqMonotonic
<1> HIDE DEF T
<1>3. /\ Append(w, e) \in Seq(T)
      /\ Len(Append(w, e)) = Len(w) + 1
      /\ \A i \in 1 .. Len(w) : Append(w, e)[i] = w[i]
      /\ Append(w, e)[Len(w) + 1] = e
  BY <1>2, AppendProperties
<1>4. /\ Len(w) \in Nat /\ DOMAIN w = 1 .. Len(w)
      /\ DOMAIN Append(w, e) = 1 .. Len(w) + 1
  BY <1>2, <1>3, LenProperties
<1> DEFINE a == Append(w, e)
<1> HIDE DEF a
<1>5. ASSUME NEW i \in DOMAIN a, a[i].kind = "value" PROVE a[i].plan \in plans
  <2>1. CASE i \in 1 .. Len(w)
    BY <1>3, <1>4, <1>5, <2>1 DEF PlansKnown, a
  <2>2. CASE i = Len(w) + 1
    BY <1>3, <1>5, <2>2 DEF a
  <2> QED BY <1>4, <2>1, <2>2 DEF a
<1>6. PlansKnown(a, plans)
  BY <1>3, <1>5 DEF PlansKnown, a
<1> QED BY <1>6 DEF a

\* More plans known does not hurt.
LEMMA PlansGrow ==
  ASSUME NEW w, NEW plans, NEW more, plans \subseteq more, PlansKnown(w, plans)
  PROVE  PlansKnown(w, more)
BY DEF PlansKnown

\* Decoding leaves a known plan in the decoder.
LEMMA PlansDecoded ==
  ASSUME PlanInv, NEW n \in 0 .. Len(wire), Decode(n)
  PROVE  rawPlan' \in plansHeld \cup {NoValue}
<1>1. PICK S : wire \in Seq(S)
  BY DEF PlanInv, PlansKnown
<1>2. Len(wire) \in Nat /\ DOMAIN wire = 1 .. Len(wire)
  BY <1>1, LenProperties
<1>3. CASE Latest(Schedule, n) = {}
  BY <1>3 DEF Decode, PlanInv
<1>4. CASE Latest(Schedule, n) # {}
  <2> DEFINE L == Latest(Schedule, n)
  <2>1. L \subseteq 1 .. n /\ \A i \in L : wire[i].kind = "value"
    BY DEF Latest
  <2>2. rawPlan' = wire[Max(L)].plan
    BY <1>4 DEF Decode
  <2>3. n \in Nat
    BY <1>2
  <2> HIDE DEF L
  <2>4. Max(L) \in L
    BY <1>4, <2>1, <2>3, LastPosition DEF L
  <2>5. Max(L) \in DOMAIN wire /\ wire[Max(L)].kind = "value"
    <3>1. 1 .. n \subseteq DOMAIN wire
      BY <1>2
    <3> QED BY <2>1, <2>4, <3>1
  <2> QED BY <2>2, <2>5 DEF PlanInv, PlansKnown
<1> QED BY <1>3, <1>4

-----------------------------------------------------------------------------
(* Steps.                                                                  *)

\* A SET changes no plan but to the one written back with it.
LEMMA SendSetPlans ==
  ASSUME PlanInv, NEW s, NEW p, p \in plansHeld, SendSet(s, p), UNCHANGED plansHeld
  PROVE  PlanInv'
<1>1. PICK n \in 0 .. Len(wire) :
        /\ Decode(n)
        /\ \/ Takes(s, p) /\ wire' = After(n)
           \/ wire' = Append(After(n), Refused(s)) /\ UNCHANGED plan
           \/ wire' = After(n) /\ UNCHANGED plan
  BY DEF SendSet
<1>2. rawPlan' \in plansHeld \cup {NoValue}
  BY <1>1, PlansDecoded
<1>3. PlansKnown(After(n), plansHeld)
  BY PlansAfter DEF PlanInv
<1>4. PlansKnown(Append(After(n), Refused(s)), plansHeld)
  <2>1. Refused(s).kind = "refused"
    BY DEF Refused
  <2> QED BY <1>3, <2>1, PlansAppend
<1>5. PlansKnown(wire', plansHeld)
  BY <1>1, <1>3, <1>4
<1>6. plan' \in plansHeld
  BY <1>1 DEF Takes, PlanInv, PlanFromCamera
<1> QED BY <1>2, <1>5, <1>6 DEF PlanInv, PlanFromCamera

\* An operation begins with the old session or a new one, which knows nothing.
LEMMA EnsurePlans ==
  ASSUME PlanInv, Ensure, UNCHANGED <<plan, plansHeld>>
  PROVE  PlanInv'
<1>1. PlansKnown(<<>>, plansHeld)
  <2>1. <<>> \in Seq({}) /\ DOMAIN <<>> = {}
    <3>1. <<>> \in Seq({}) /\ Len(<<>>) = 0
      BY EmptySeq
    <3>2. DOMAIN <<>> = 1 .. 0
      BY <3>1, LenProperties
    <3> QED BY <3>1, <3>2
  <2> QED BY <2>1 DEF PlansKnown
<1>2. CASE alive
  <2>1. UNCHANGED <<rawPlan, wire>>
    BY <1>2 DEF Ensure
  <2> QED BY <2>1 DEF PlanInv, PlanFromCamera, PlansKnown
<1>3. CASE ~alive
  <2>1. rawPlan' = NoValue /\ wire' = <<>>
    BY <1>3 DEF Ensure
  <2> QED BY <1>1, <2>1 DEF PlanInv, PlanFromCamera
<1> QED BY <1>2, <1>3

LEMMA NextPlans == PlanInv /\ [Next]_vars => PlanInv'
<1> SUFFICES ASSUME PlanInv, [Next]_vars PROVE PlanInv'
  OBVIOUS
<1>1. ASSUME NEW s \in Settings, NEW v \in Values, AppChanges(s, v) PROVE PlanInv'
  BY <1>1 DEF AppChanges, PlanInv, PlanFromCamera, PlansKnown
<1>2. ASSUME NEW p \in Plans, AppReplans(p) PROVE PlanInv'
  <2>1. /\ plan' = p /\ plansHeld' = plansHeld \cup {p} /\ UNCHANGED <<rawPlan, wire>>
    BY <1>2 DEF AppReplans
  <2>2. PlansKnown(wire, plansHeld \cup {p})
    BY PlansGrow DEF PlanInv
  <2> QED BY <2>1, <2>2 DEF PlanInv, PlanFromCamera
<1>3. CASE SessionDies
  <2>1. /\ wire' = <<>> /\ UNCHANGED <<plan, rawPlan, plansHeld>>
    BY <1>3 DEF SessionDies
  <2>2. <<>> \in Seq({}) /\ Len(<<>>) = 0
    BY EmptySeq
  <2>3. DOMAIN <<>> = 1 .. 0
    BY <2>2, LenProperties
  <2>4. PlansKnown(<<>>, plansHeld)
    BY <2>2, <2>3 DEF PlansKnown
  <2> QED BY <2>1, <2>4 DEF PlanInv, PlanFromCamera
<1>4. ASSUME NEW r \in Requests, BeginApply(r) PROVE PlanInv'
  BY <1>4, EnsurePlans DEF BeginApply
<1>5. CASE BeginSweep
  BY <1>5, EnsurePlans DEF BeginSweep, world
<1>6. CASE BeginLight
  BY <1>6, EnsurePlans DEF BeginLight, world
<1>7. CASE Set
  <2>1. plan \in plansHeld
    BY DEF PlanInv, PlanFromCamera
  <2> QED BY <1>7, <2>1, SendSetPlans DEF Set, world
<1>8. CASE Flip
  <2>1. CASE rawPlan = NoValue
    <3>1. UNCHANGED <<plan, rawPlan, wire, plansHeld>>
      BY <1>8, <2>1 DEF Flip, world
    <3> QED BY <3>1 DEF PlanInv, PlanFromCamera, PlansKnown
  <2>2. CASE rawPlan # NoValue
    <3>1. rawPlan \in plansHeld
      BY <2>2 DEF PlanInv
    <3>2. SendSet(Schedule, rawPlan) /\ UNCHANGED plansHeld
      BY <1>8, <2>2 DEF Flip, world
    <3> QED BY <3>1, <3>2, SendSetPlans
  <2> QED BY <2>1, <2>2
<1>9. CASE SendGet
  <2>1. PICK n \in 0 .. Len(wire) :
          /\ Decode(n)
          /\ wire' \in {After(n), Append(After(n), Value(Head(todo).name))}
    BY <1>9 DEF SendGet, Answer, NoAnswer
  <2>2. UNCHANGED <<plan, plansHeld>>
    BY <1>9 DEF SendGet
  <2>3. rawPlan' \in plansHeld \cup {NoValue}
    BY <2>1, PlansDecoded
  <2>4. PlansKnown(After(n), plansHeld)
    BY PlansAfter DEF PlanInv
  <2>5. Value(Head(todo).name).plan \in plansHeld
    BY DEF Value, PlanInv, PlanFromCamera
  <2>6. PlansKnown(Append(After(n), Value(Head(todo).name)), plansHeld)
    BY <2>4, <2>5, PlansAppend
  <2>7. PlansKnown(wire', plansHeld)
    BY <2>1, <2>4, <2>6
  <2> QED BY <2>2, <2>3, <2>7 DEF PlanInv, PlanFromCamera
<1>10. CASE Drain
  <2>1. PICK n \in Arrived : Decode(n) /\ wire' = After(n)
    BY <1>10 DEF Drain
  <2>2. n \in 0 .. Len(wire)
    <3>1. PICK S : wire \in Seq(S)
      BY DEF PlanInv, PlansKnown
    <3>2. Len(wire) \in Nat
      BY <3>1, LenProperties
    <3> QED BY <3>2 DEF Arrived
  <2>3. UNCHANGED <<plan, plansHeld>>
    BY <1>10 DEF Drain, world
  <2>4. rawPlan' \in plansHeld \cup {NoValue}
    BY <2>1, <2>2, PlansDecoded
  <2>5. PlansKnown(After(n), plansHeld)
    BY <2>2, PlansAfter DEF PlanInv
  <2> QED BY <2>1, <2>3, <2>4, <2>5 DEF PlanInv, PlanFromCamera
<1>11. CASE LookUp \/ Confirm \/ Readback \/ Merge \/ UNCHANGED vars
  <2>1. UNCHANGED <<plan, rawPlan, wire, plansHeld>>
    BY <1>11 DEF LookUp, Confirm, Readback, Merge, vars, world
  <2> QED BY <2>1 DEF PlanInv, PlanFromCamera, PlansKnown
<1> QED BY <1>1, <1>2, <1>3, <1>4, <1>5, <1>6, <1>7, <1>8, <1>9, <1>10, <1>11 DEF Next, Step

\* Whatever the camera answers and however late, whoever edits the schedule
\* meanwhile and whenever the session is lost, turning the schedule on or off
\* leaves the camera with a plan that somebody gave it.
THEOREM PlanNeverMadeUp == Spec => []PlanFromCamera
<1>1. Init => PlanInv
  <2> SUFFICES ASSUME Init PROVE PlanInv
    OBVIOUS
  <2>1. plan \in plansHeld /\ rawPlan = NoValue /\ wire = <<>>
    BY DEF Init
  <2>2. <<>> \in Seq({}) /\ Len(<<>>) = 0
    BY EmptySeq
  <2>3. DOMAIN <<>> = 1 .. 0
    BY <2>2, LenProperties
  <2> QED BY <2>1, <2>2, <2>3 DEF PlanInv, PlanFromCamera, PlansKnown
<1>2. PlanInv => PlanFromCamera
  BY DEF PlanInv
<1> QED BY <1>1, <1>2, NextPlans, PTL DEF Spec

-----------------------------------------------------------------------------
(* A settings request to a V2 camera that answers in time shows what the   *)
(* camera took and not what it rejected.  A rejection counts from when the *)
(* camera says it, read or not yet.                                        *)

Denied(w) == {w[i].opcode : i \in {j \in DOMAIN w : w[j].kind = "refused"}}
Said == rejected \cup Denied(wire)

V2Commands == [kind : {"get", "set", "drain"}, name : Settings]

\* What is still to be written is neither written yet nor to be written twice,
\* and the wait comes last.
WritesLeft ==
  /\ \A i \in 1 .. Len(todo) : todo[i].kind = "set" => todo[i].name \in Plain \ written
  /\ \A i, j \in 1 .. Len(todo) :
       todo[i].kind = "set" /\ todo[j].kind = "set" /\ todo[i].name = todo[j].name => i = j
  /\ \A i \in 1 .. Len(todo) : todo[i].kind = "drain" <=> i = Len(todo)

\* Of what has been written the camera took what it has not refused, one way or
\* the other.
Answered ==
  /\ accepted \subseteq written /\ written \subseteq Plain
  /\ Said \subseteq {Opcode[s] : s \in written}
  /\ \A s \in written \ unsaid : s \in accepted <=> Opcode[s] \notin Said
  /\ todo = <<>> => wire = <<>>

ShowInv ==
  /\ \E S : wire \in Seq(S)
  /\ todo \in Seq(V2Commands)
  /\ op \in {"idle", "apply", "sweep", "light"}
  /\ op = "idle" => todo = <<>>
  /\ op # "apply" => \A i \in 1 .. Len(todo) : todo[i].kind # "set"
  /\ alive => IF op = "apply" THEN WritesLeft /\ Answered ELSE Said = {}

-----------------------------------------------------------------------------
(* The wire.                                                               *)

LEMMA DeniedNothing == Denied(<<>>) = {}
<1>1. DOMAIN <<>> = {}
  <2>1. <<>> \in Seq({}) /\ Len(<<>>) = 0
    BY EmptySeq
  <2>2. DOMAIN <<>> = 1 .. 0
    BY <2>1, LenProperties
  <2> QED BY <2>2
<1> QED BY <1>1 DEF Denied

LEMMA DeniedAppend ==
  ASSUME NEW S, NEW w \in Seq(S), NEW e
  PROVE  /\ \E T : Append(w, e) \in Seq(T)
         /\ e.kind # "refused" => Denied(Append(w, e)) = Denied(w)
         /\ e.kind = "refused" => Denied(Append(w, e)) = Denied(w) \cup {e.opcode}
<1> DEFINE T == S \cup {e}
<1>1. w \in Seq(T) /\ e \in T
  BY SeqMonotonic
<1> HIDE DEF T
<1> DEFINE n == Len(w)
<1> DEFINE a == Append(w, e)
<1>2. /\ a \in Seq(T) /\ Len(a) = n + 1
      /\ \A i \in 1 .. n : a[i] = w[i]
      /\ a[n + 1] = e
  BY <1>1, AppendProperties
<1>3. n \in Nat /\ DOMAIN w = 1 .. n /\ DOMAIN a = 1 .. n + 1
  BY <1>1, <1>2, LenProperties
<1> HIDE DEF n, a
<1>4. CASE e.kind # "refused"
  <2>1. {j \in DOMAIN a : a[j].kind = "refused"} = {j \in DOMAIN w : w[j].kind = "refused"}
    BY <1>2, <1>3, <1>4
  <2> QED BY <1>2, <1>3, <1>4, <2>1 DEF Denied, a
<1>5. CASE e.kind = "refused"
  <2>1. {j \in DOMAIN a : a[j].kind = "refused"}
          = {j \in DOMAIN w : w[j].kind = "refused"} \cup {n + 1}
    BY <1>2, <1>3, <1>5
  <2>2. \A j \in DOMAIN w : a[j] = w[j]
    BY <1>2, <1>3
  <2> QED BY <1>2, <2>1, <2>2 DEF Denied, a
<1> QED BY <1>2, <1>4, <1>5 DEF a

\* What the decoder takes off the wire has still been said.
LEMMA SaidDecoded ==
  ASSUME NEW S, wire \in Seq(S), NEW n \in 0 .. Len(wire), Decode(n)
  PROVE  /\ \E T : After(n) \in Seq(T)
         /\ rejected' \cup Denied(After(n)) = Said
         /\ n = Len(wire) => After(n) = <<>>
<1> DEFINE m == Len(wire)
<1> DEFINE w == SubSeq(wire, n + 1, m)
<1>1. m \in Nat /\ DOMAIN wire = 1 .. m
  BY LenProperties
<1>2. \A i \in n + 1 .. m : wire[i] \in S
  BY <1>1, ElementOfSeq
<1>3. n \in Nat /\ n <= m /\ n + 1 \in Int /\ m \in Int
  BY <1>1
<1> HIDE DEF m
<1>4. /\ w \in Seq(S)
      /\ Len(w) = IF n + 1 <= m THEN m - (n + 1) + 1 ELSE 0
      /\ \A i \in 1 .. m - (n + 1) + 1 : w[i] = wire[n + 1 + i - 1]
  BY <1>2, <1>3, SubSeqProperties
<1> HIDE DEF w
<1>5. Len(w) = m - n /\ DOMAIN w = 1 .. m - n
  <2>1. Len(w) = m - n
    BY <1>1, <1>3, <1>4
  <2> QED BY <1>4, <2>1, LenProperties
<1>6. \A i \in 1 .. m - n : n + i \in DOMAIN wire /\ ~(n + i \in 1 .. n) /\ w[i] = wire[n + i]
  <2> SUFFICES ASSUME NEW i \in 1 .. m - n
               PROVE  n + i \in DOMAIN wire /\ ~(n + i \in 1 .. n) /\ w[i] = wire[n + i]
    OBVIOUS
  <2>1. i \in 1 .. m - (n + 1) + 1 /\ n + 1 + i - 1 = n + i /\ n + i \in 1 .. m
    BY <1>1, <1>3
  <2> QED BY <1>1, <1>3, <1>4, <2>1
<1>7. \A j \in DOMAIN wire : j \in 1 .. n \/ (j - n \in 1 .. m - n /\ n + (j - n) = j)
  BY <1>1, <1>3
<1>8. rejected' = rejected \cup {wire[i].opcode : i \in {j \in 1 .. n : wire[j].kind = "refused"}}
  BY DEF Decode
<1>9. rejected' \cup Denied(w) = Said
  <2>1. ASSUME NEW x \in rejected' \cup Denied(w) PROVE x \in Said
    <3>1. CASE x \in Denied(w)
      <4>1. PICK i \in DOMAIN w : w[i].kind = "refused" /\ x = w[i].opcode
        BY <3>1 DEF Denied
      <4> QED BY <1>5, <1>6, <4>1 DEF Said, Denied
    <3>2. CASE x \in rejected'
      <4>1. 1 .. n \subseteq DOMAIN wire
        BY <1>1, <1>3
      <4> QED BY <1>8, <3>2, <4>1 DEF Said, Denied
    <3> QED BY <2>1, <3>1, <3>2
  <2>2. ASSUME NEW x \in Said PROVE x \in rejected' \cup Denied(w)
    <3>1. CASE x \in rejected
      BY <1>8, <3>1
    <3>2. CASE x \in Denied(wire)
      <4>1. PICK j \in DOMAIN wire : wire[j].kind = "refused" /\ x = wire[j].opcode
        BY <3>2 DEF Denied
      <4>2. CASE j \in 1 .. n
        BY <1>8, <4>1, <4>2
      <4>3. CASE j - n \in 1 .. m - n /\ n + (j - n) = j
        <5>1. w[j - n] = wire[j]
          BY <1>6, <4>3
        <5>2. x \in Denied(w)
          BY <1>5, <4>1, <4>3, <5>1 DEF Denied
        <5> QED BY <5>2
      <4> QED BY <1>7, <4>2, <4>3
    <3> QED BY <2>2, <3>1, <3>2 DEF Said
  <2> QED BY <2>1, <2>2
<1>10. n = m => w = <<>>
  <2>1. n = m => Len(w) = 0
    BY <1>3, <1>5
  <2> QED BY <1>4, <2>1, EmptySeq
<1> QED BY <1>4, <1>9, <1>10 DEF After, w, m

-----------------------------------------------------------------------------
(* The commands.                                                           *)

LEMMA OrderedOnce ==
  ASSUME NEW S, S \subseteq Plain \cup {Schedule}
  PROVE  /\ Ordered(S) \in Seq(S)
         /\ \A i, j \in 1 .. Len(Ordered(S)) : Ordered(S)[i] = Ordered(S)[j] => i = j
<1> USE DEF Ordered, If, Schedule
<1>1. CASE "camera_on" \in S /\ "volume" \in S
  <2>1. CASE "schedule_enabled" \in S
    BY <1>1, <2>1
  <2>2. CASE "schedule_enabled" \notin S
    BY <1>1, <2>2
  <2> QED BY <2>1, <2>2
<1>2. CASE "camera_on" \in S /\ "volume" \notin S
  <2>1. CASE "schedule_enabled" \in S
    BY <1>2, <2>1
  <2>2. CASE "schedule_enabled" \notin S
    BY <1>2, <2>2
  <2> QED BY <2>1, <2>2
<1>3. CASE "camera_on" \notin S /\ "volume" \in S
  <2>1. CASE "schedule_enabled" \in S
    BY <1>3, <2>1
  <2>2. CASE "schedule_enabled" \notin S
    BY <1>3, <2>2
  <2> QED BY <2>1, <2>2
<1>4. CASE "camera_on" \notin S /\ "volume" \notin S
  <2>1. CASE "schedule_enabled" \in S
    BY <1>4, <2>1
  <2>2. CASE "schedule_enabled" \notin S
    BY <1>4, <2>2
  <2> QED BY <2>1, <2>2
<1> QED BY <1>1, <1>2, <1>3, <1>4

\* A list of commands, one per name, and the wait behind them.
CommandsOn(kind, names) == [i \in DOMAIN names |-> Command(kind, names[i])]

LEMMA CommandsSent ==
  ASSUME NEW names, NEW Names, Names \subseteq Settings, names \in Seq(Names),
         NEW kind \in {"get", "set"}
  PROVE  /\ CommandsOn(kind, names) \in Seq(V2Commands)
         /\ Len(CommandsOn(kind, names)) = Len(names)
         /\ \A i \in 1 .. Len(names) : CommandsOn(kind, names)[i] = Command(kind, names[i])
<1> DEFINE n == Len(names)
<1>1. n \in Nat /\ DOMAIN names = 1 .. n /\ \A i \in 1 .. n : names[i] \in Names
  BY LenProperties, ElementOfSeq
<1>2. \A i \in 1 .. n : Command(kind, names[i]) \in V2Commands
  BY <1>1 DEF Command, V2Commands
<1> HIDE DEF n
<1>3. [i \in 1 .. n |-> Command(kind, names[i])] \in Seq(V2Commands)
  BY <1>1, <1>2
<1>4. CommandsOn(kind, names) = [i \in 1 .. n |-> Command(kind, names[i])]
  BY <1>1 DEF CommandsOn
<1> QED BY <1>1, <1>3, <1>4 DEF n

AndWait(kind, names) == CommandsOn(kind, names) \o <<Wait>>

LEMMA ThenWait ==
  ASSUME NEW names, NEW Names, Names \subseteq Settings, names \in Seq(Names),
         NEW kind \in {"get", "set"}
  PROVE  /\ AndWait(kind, names) \in Seq(V2Commands)
         /\ Len(AndWait(kind, names)) = Len(names) + 1
         /\ \A i \in 1 .. Len(names) :
              AndWait(kind, names)[i].kind = kind /\ AndWait(kind, names)[i].name = names[i]
         /\ AndWait(kind, names)[Len(names) + 1].kind = "drain"
<1> DEFINE n == Len(names)
<1> DEFINE cs == AndWait(kind, names)
<1> DEFINE f == CommandsOn(kind, names)
<1>1. n \in Nat
  BY LenProperties
<1>2. f \in Seq(V2Commands) /\ Len(f) = n /\ \A i \in 1 .. n : f[i] = Command(kind, names[i])
  BY CommandsSent
<1>3. Wait \in V2Commands /\ Wait.kind = "drain"
  BY SettingsAssumption DEF Wait, Command, V2Commands
<1>4. <<Wait>> \in Seq(V2Commands) /\ Len(<<Wait>>) = 1 /\ <<Wait>>[1] = Wait
  BY <1>3
<1> HIDE DEF f, n, cs
<1>5. /\ cs \in Seq(V2Commands) /\ Len(cs) = n + 1
      /\ \A i \in 1 .. n + 1 : cs[i] = IF i <= n THEN f[i] ELSE <<Wait>>[i - n]
  BY <1>2, <1>4, ConcatProperties DEF f, cs, AndWait
<1>6. \A i \in 1 .. n : cs[i] = Command(kind, names[i])
  BY <1>1, <1>2, <1>5
<1>7. cs[n + 1] = Wait
  <2>1. n + 1 \in 1 .. n + 1 /\ ~(n + 1 <= n) /\ (n + 1) - n = 1
    BY <1>1
  <2> QED BY <1>4, <1>5, <2>1
<1>8. \A i \in 1 .. n : cs[i].kind = kind /\ cs[i].name = names[i]
  <2>1. \A k, s : Command(k, s).kind = k /\ Command(k, s).name = s
    BY DEF Command
  <2> QED BY <1>6, <2>1
<1>9. cs[n + 1].kind = "drain"
  BY <1>3, <1>7
<1> QED BY <1>5, <1>8, <1>9 DEF cs, n

\* What is left when the first command has been carried out.
LEMMA OneLess ==
  ASSUME todo \in Seq(V2Commands), todo # <<>>, todo' = Tail(todo)
  PROVE  /\ todo' \in Seq(V2Commands) /\ Len(todo) \in Nat \ {0} /\ Len(todo') = Len(todo) - 1
         /\ \A i \in 1 .. Len(todo') : i + 1 \in 1 .. Len(todo) /\ todo'[i] = todo[i + 1]
         /\ Head(todo) = todo[1] /\ Head(todo) \in V2Commands
         /\ todo' = <<>> <=> Len(todo) = 1
<1>1. /\ Tail(todo) \in Seq(V2Commands) /\ Len(Tail(todo)) = Len(todo) - 1
      /\ \A i \in 1 .. Len(Tail(todo)) : Tail(todo)[i] = todo[i + 1]
      /\ Head(todo) \in V2Commands
  BY HeadTailProperties
<1>2. Len(todo) \in Nat \ {0}
  BY EmptySeq, LenProperties
<1>3. \A i \in 1 .. Len(todo) - 1 : i + 1 \in 1 .. Len(todo)
  BY <1>2
<1>4. Tail(todo) = <<>> <=> Len(Tail(todo)) = 0
  BY <1>1, EmptySeq
<1>5. Len(Tail(todo)) = 0 <=> Len(todo) = 1
  BY <1>1, <1>2
<1> QED BY <1>1, <1>2, <1>3, <1>4, <1>5

LEMMA LeftAfter ==
  ASSUME todo \in Seq(V2Commands), todo # <<>>, todo' = Tail(todo), WritesLeft,
         \/ Head(todo).kind # "set" /\ UNCHANGED written
         \/ Head(todo).kind = "set" /\ written' = written \cup {Head(todo).name}
  PROVE  WritesLeft' /\ (todo' = <<>> <=> Head(todo).kind = "drain")
<1>1. /\ Len(todo) \in Nat \ {0} /\ Len(todo') = Len(todo) - 1
      /\ \A i \in 1 .. Len(todo') : i + 1 \in 1 .. Len(todo) /\ todo'[i] = todo[i + 1]
      /\ Head(todo) = todo[1]
      /\ todo' = <<>> <=> Len(todo) = 1
  BY OneLess
<1> DEFINE k == Len(todo)
<1> DEFINE l == Len(todo')
<1>2. k \in Nat \ {0} /\ l = k - 1 /\ 1 \in 1 .. k
  BY <1>1
<1>3. /\ \A i \in 1 .. k : todo[i].kind = "set" => todo[i].name \in Plain \ written
      /\ \A i, j \in 1 .. k :
           todo[i].kind = "set" /\ todo[j].kind = "set" /\ todo[i].name = todo[j].name => i = j
      /\ \A i \in 1 .. k : todo[i].kind = "drain" <=> i = k
  BY DEF WritesLeft
<1>4. \A i \in 1 .. l : i + 1 \in 1 .. k /\ todo'[i] = todo[i + 1] /\ i \in Int /\ i + 1 # 1
  BY <1>1, <1>2
<1> HIDE DEF k, l
<1>5. ASSUME NEW i \in 1 .. l, todo'[i].kind = "set" PROVE todo'[i].name \in Plain \ written'
  <2>1. todo[i + 1].name \in Plain \ written
    BY <1>3, <1>4, <1>5
  <2>2. Head(todo).kind = "set" => todo[i + 1].name # Head(todo).name
    BY <1>1, <1>2, <1>3, <1>4, <1>5
  <2> QED BY <1>4, <2>1, <2>2
<1>6. ASSUME NEW i \in 1 .. l, NEW j \in 1 .. l, todo'[i].kind = "set", todo'[j].kind = "set",
             todo'[i].name = todo'[j].name
      PROVE  i = j
  <2>1. /\ i + 1 \in 1 .. k /\ j + 1 \in 1 .. k
        /\ todo[i + 1].kind = "set" /\ todo[j + 1].kind = "set"
        /\ todo[i + 1].name = todo[j + 1].name
    BY <1>4, <1>6
  <2>2. i + 1 = j + 1
    BY <1>3, <2>1
  <2> QED BY <1>4, <2>2
<1>7. \A i \in 1 .. l : todo'[i].kind = "drain" <=> i = l
  <2> SUFFICES ASSUME NEW i \in 1 .. l PROVE todo'[i].kind = "drain" <=> i = l
    OBVIOUS
  <2>1. todo'[i].kind = "drain" <=> i + 1 = k
    BY <1>3, <1>4
  <2>2. i + 1 = k <=> i = l
    BY <1>2, <1>4
  <2> QED BY <2>1, <2>2
<1>8. WritesLeft'
  BY <1>5, <1>6, <1>7 DEF WritesLeft, l
<1>9. todo' = <<>> <=> Head(todo).kind = "drain"
  BY <1>1, <1>2, <1>3 DEF k
<1> QED BY <1>8, <1>9

LEMMA OpcodesApart ==
  ASSUME Proto = "v2", NEW s \in Plain, NEW t \in Plain
  PROVE  Opcode[s] % 65536 = Opcode[s] /\ (Opcode[s] = Opcode[t] => s = t)
BY DEF Opcode, Plain

-----------------------------------------------------------------------------
(* The steps.                                                              *)

LEMMA EnsureShows ==
  ASSUME ShowInv, op = "idle", Ensure, rejected' \in {EnsureRejected, {}}
  PROVE  Said' = {} /\ alive' = TRUE /\ \E S : wire' \in Seq(S)
<1>1. alive => Said = {} /\ rejected = {}
  BY DEF ShowInv, Said
<1>2. rejected' = {}
  BY <1>1 DEF EnsureRejected
<1>3. CASE alive
  <2>1. wire' = wire /\ alive' = alive
    BY <1>3 DEF Ensure
  <2>2. Denied(wire') = {}
    BY <1>1, <1>3, <2>1 DEF Said
  <2>3. Said' = {}
    BY <1>2, <2>2 DEF Said
  <2> QED BY <1>3, <2>1, <2>3 DEF ShowInv
<1>4. CASE ~alive
  <2>1. wire' = <<>> /\ alive' = TRUE
    BY <1>4 DEF Ensure
  <2>2. Said' = {}
    BY <1>2, <2>1, DeniedNothing DEF Said
  <2>3. <<>> \in Seq({})
    BY EmptySeq
  <2> QED BY <2>1, <2>2, <2>3
<1> QED BY <1>3, <1>4

LEMMA ApplyShows ==
  ASSUME Proto = "v2", ShowInv, NEW r, BeginApply(r)
  PROVE  ShowInv'
<1>1. /\ op = "idle" /\ Ensure /\ rejected' = EnsureRejected /\ op' = "apply"
      /\ todo' = WriteCommands({s \in Writable : r[s] # NoValue})
      /\ written' = {} /\ accepted' = {}
  BY DEF BeginApply
<1>2. Said' = {} /\ alive' = TRUE /\ \E S : wire' \in Seq(S)
  BY <1>1, EnsureShows
<1> DEFINE W == {s \in Writable : r[s] # NoValue}
<1> DEFINE names == Ordered(W)
<1>3. W \subseteq Settings \cap Plain
  BY DEF Writable
<1> HIDE DEF W
<1>4. /\ names \in Seq(W)
      /\ \A i, j \in 1 .. Len(names) : names[i] = names[j] => i = j
  BY <1>3, OrderedOnce
<1>5. /\ Len(names) \in Nat /\ DOMAIN names = 1 .. Len(names)
      /\ \A i \in 1 .. Len(names) : names[i] \in W
  BY <1>4, LenProperties, ElementOfSeq
<1> HIDE DEF names
<1>6. todo' = AndWait("set", names)
  <2>1. \A i \in DOMAIN names : names[i] \in Plain
    BY <1>3, <1>5
  <2>2. todo' = [i \in DOMAIN names |->
                   Command(IF names[i] \in Plain THEN "set" ELSE "toggle", names[i])] \o <<Wait>>
    BY <1>1 DEF WriteCommands, names, W
  <2>3. [i \in DOMAIN names |-> Command(IF names[i] \in Plain THEN "set" ELSE "toggle", names[i])]
          = [i \in DOMAIN names |-> Command("set", names[i])]
    BY <2>1
  <2> QED BY <2>2, <2>3 DEF CommandsOn, AndWait
<1>7. /\ todo' \in Seq(V2Commands)
      /\ Len(todo') = Len(names) + 1
      /\ \A i \in 1 .. Len(names) : todo'[i].kind = "set" /\ todo'[i].name = names[i]
      /\ todo'[Len(todo')].kind = "drain"
  <2>1. W \subseteq Settings /\ names \in Seq(W) /\ "set" \in {"get", "set"}
    BY <1>3, <1>4
  <2> QED BY <1>6, <2>1, ThenWait
<1> DEFINE n == Len(names)
<1>8. \A i \in 1 .. Len(todo') : i \in 1 .. n \/ i = n + 1
  BY <1>5, <1>7
<1>9. n \in Nat /\ \A i \in 1 .. n : i # n + 1
  BY <1>5
<1>10. WritesLeft'
  <2>1. Len(todo') = n + 1 /\ todo'[n + 1].kind = "drain"
    BY <1>7
  <2>2. \A i \in 1 .. n : todo'[i].kind = "set" /\ todo'[i].name = names[i] /\ names[i] \in Plain
    BY <1>3, <1>5, <1>7
  <2>3. \A i, j \in 1 .. n : names[i] = names[j] => i = j
    BY <1>4
  <2> HIDE DEF n
  <2>4. \A i \in 1 .. n + 1 : todo'[i].kind = "set" => todo'[i].name \in Plain \ {}
    BY <1>7, <1>8, <2>1, <2>2
  <2>5. \A i, j \in 1 .. n + 1 :
          todo'[i].kind = "set" /\ todo'[j].kind = "set" /\ todo'[i].name = todo'[j].name => i = j
    BY <1>7, <1>8, <2>1, <2>2, <2>3
  <2>6. \A i \in 1 .. n + 1 : todo'[i].kind = "drain" <=> i = n + 1
    BY <1>7, <1>8, <1>9, <2>1, <2>2
  <2>7. written' = {}
    BY <1>1
  <2> QED BY <2>1, <2>4, <2>5, <2>6, <2>7 DEF WritesLeft
<1>11. Answered'
  <2>1. todo' # <<>>
    BY <1>7, <1>9, EmptySeq
  <2> QED BY <1>1, <1>2, <2>1 DEF Answered
<1> QED BY <1>1, <1>2, <1>7, <1>10, <1>11 DEF ShowInv

LEMMA LookShows ==
  ASSUME Proto = "v2", ShowInv, BeginSweep \/ BeginLight
  PROVE  ShowInv'
<1>1. /\ op = "idle" /\ Ensure /\ rejected' \in {EnsureRejected, {}} /\ op' \in {"sweep", "light"}
  BY DEF BeginSweep, BeginLight, world
<1>2. Said' = {} /\ alive' = TRUE /\ \E S : wire' \in Seq(S)
  BY <1>1, EnsureShows
<1>3. todo' \in Seq(V2Commands) /\ \A i \in 1 .. Len(todo') : todo'[i].kind # "set"
  <2>1. CASE BeginSweep
    <3> DEFINE names == Ordered(Settings)
    <3>1. names \in Seq(Settings)
      BY SettingsAssumption, OrderedOnce
    <3>2. todo' = AndWait("get", names)
      BY <2>1 DEF BeginSweep, SweepCommands, Get, CommandsOn, AndWait
    <3> HIDE DEF names
    <3>3. /\ todo' \in Seq(V2Commands)
          /\ Len(todo') = Len(names) + 1
          /\ \A i \in 1 .. Len(names) : todo'[i].kind = "get"
          /\ todo'[Len(todo')].kind = "drain"
      BY <3>1, <3>2, ThenWait
    <3>4. \A i \in 1 .. Len(todo') : i \in 1 .. Len(names) \/ i = Len(todo')
      BY <3>1, <3>3, LenProperties
    <3> QED BY <3>3, <3>4
  <2>2. CASE BeginLight
    <3>1. todo' = <<Get("camera_on"), Wait>>
      BY <2>2 DEF BeginLight
    <3>2. /\ Get("camera_on") \in V2Commands /\ Get("camera_on").kind = "get"
          /\ Wait \in V2Commands /\ Wait.kind = "drain"
      BY SettingsAssumption DEF Get, Wait, Command, V2Commands
    <3> QED BY <3>1, <3>2
  <2> QED BY <2>1, <2>2
<1> QED BY <1>1, <1>2, <1>3 DEF ShowInv

LEMMA SetShows ==
  ASSUME Proto = "v2", ShowInv, Set
  PROVE  ShowInv'
<1> DEFINE s == Head(todo).name
<1>1. todo # <<>> /\ Head(todo).kind = "set" /\ SendSet(s, plan) /\ todo' = Tail(todo)
      /\ UNCHANGED <<alive, op>>
  BY DEF Set
<1>2. todo \in Seq(V2Commands) /\ \E S : wire \in Seq(S)
  BY DEF ShowInv
<1>3. todo' \in Seq(V2Commands) /\ Head(todo) = todo[1] /\ 1 \in 1 .. Len(todo)
  <2>1. Len(todo) \in Nat \ {0} /\ todo' \in Seq(V2Commands) /\ Head(todo) = todo[1]
    BY <1>1, <1>2, OneLess
  <2> QED BY <2>1
<1>4. op = "apply" /\ (alive => WritesLeft /\ Answered)
  BY <1>1, <1>3 DEF ShowInv
<1>0. CASE ~alive
  <2>1. PICK n \in 0 .. Len(wire) : Decode(n) /\ wire' = After(n)
    BY <1>1, <1>0 DEF SendSet
  <2>2. PICK S : wire \in Seq(S)
    BY <1>2
  <2>3. \E T : wire' \in Seq(T)
    BY <2>1, <2>2, SaidDecoded
  <2> QED BY <1>1, <1>3, <1>4, <1>0, <2>3 DEF ShowInv
<1> SUFFICES ASSUME alive PROVE ShowInv'
  BY <1>0
<1>5. s \in Plain \ written
  BY <1>1, <1>3, <1>4 DEF WritesLeft
<1> HIDE DEF s
<1>6. PICK n \in 0 .. Len(wire) :
        /\ Decode(n) /\ written' = written \cup {s}
        /\ \/ accepted' = accepted \cup {s} /\ wire' = After(n) /\ unsaid' = unsaid
           \/ /\ wire' = Append(After(n), Refused(s))
              /\ accepted' = accepted /\ unsaid' = unsaid
           \/ wire' = After(n) /\ accepted' = accepted /\ unsaid' = unsaid \cup {s}
  BY <1>1, <1>4 DEF SendSet, Takes
<1>7. (\E T : After(n) \in Seq(T)) /\ rejected' \cup Denied(After(n)) = Said
  <2>1. PICK S : wire \in Seq(S)
    BY <1>2
  <2> QED BY <1>6, <2>1, SaidDecoded, Zenon
<1>8. /\ Opcode[s] \notin Said /\ Opcode[s] % 65536 = Opcode[s]
      /\ \A t \in written : Opcode[t] # Opcode[s]
  <2>1. \A t \in written : Opcode[t] # Opcode[s]
    BY <1>4, <1>5, OpcodesApart DEF Answered
  <2>2. Opcode[s] \notin Said
    BY <1>4, <2>1 DEF Answered
  <2> QED BY <1>5, <2>1, <2>2, OpcodesApart
<1>9. WritesLeft' /\ todo' # <<>>
  <2>1. written' = written \cup {Head(todo).name}
    BY <1>6 DEF s
  <2> QED BY <1>1, <1>2, <1>4, <2>1, LeftAfter
<1>10. CASE accepted' = accepted \cup {s} /\ wire' = After(n) /\ unsaid' = unsaid
  <2>1. Said' = Said
    BY <1>7, <1>10 DEF Said
  <2>2. Answered'
    BY <1>4, <1>5, <1>6, <1>8, <1>9, <1>10, <2>1 DEF Answered
  <2> QED BY <1>1, <1>3, <1>4, <1>7, <1>9, <1>10, <2>2 DEF ShowInv
<1>11. CASE wire' = Append(After(n), Refused(s)) /\ accepted' = accepted /\ unsaid' = unsaid
  <2>1. Refused(s).kind = "refused" /\ Refused(s).opcode = Opcode[s]
    BY <1>8 DEF Refused
  <2>2. (\E T : wire' \in Seq(T)) /\ Denied(wire') = Denied(After(n)) \cup {Opcode[s]}
    BY <1>7, <1>11, <2>1, DeniedAppend
  <2>3. Said' = Said \cup {Opcode[s]}
    BY <1>7, <2>2 DEF Said
  <2>4. s \notin accepted'
    BY <1>4, <1>5, <1>11 DEF Answered
  <2>5. Answered'
    BY <1>4, <1>5, <1>6, <1>8, <1>9, <1>11, <2>3, <2>4 DEF Answered
  <2> QED BY <1>1, <1>3, <1>4, <1>9, <2>2, <2>5 DEF ShowInv
<1>12. CASE wire' = After(n) /\ accepted' = accepted /\ unsaid' = unsaid \cup {s}
  <2>1. Said' = Said
    BY <1>7, <1>12 DEF Said
  <2>2. Answered'
    BY <1>4, <1>5, <1>6, <1>9, <1>12, <2>1 DEF Answered
  <2> QED BY <1>1, <1>3, <1>4, <1>7, <1>9, <1>12, <2>2 DEF ShowInv
<1> QED BY <1>6, <1>10, <1>11, <1>12

\* The other commands say nothing new.
LEMMA WaitShows ==
  ASSUME Proto = "v2", Prompt = TRUE, ShowInv, SendGet \/ Drain
  PROVE  ShowInv'
<1>1. /\ todo # <<>> /\ Head(todo).kind \in {"get", "drain"} /\ todo' = Tail(todo)
      /\ UNCHANGED <<alive, op, written, accepted, unsaid>>
  BY DEF SendGet, Drain, world
<1>2. todo \in Seq(V2Commands) /\ (\E S : wire \in Seq(S)) /\ op # "idle"
  BY <1>1 DEF ShowInv
<1>3. Len(wire) \in Nat
  BY <1>2, LenProperties
<1>4. PICK n \in 0 .. Len(wire) :
        /\ Decode(n)
        /\ \/ wire' = After(n) /\ (Head(todo).kind = "drain" => n = Len(wire))
           \/ wire' = Append(After(n), Value(Head(todo).name)) /\ Head(todo).kind = "get"
  BY <1>3 DEF SendGet, Answer, NoAnswer, Drain, Arrived
<1>5. /\ \E T : After(n) \in Seq(T)
      /\ rejected' \cup Denied(After(n)) = Said
      /\ n = Len(wire) => After(n) = <<>>
  BY <1>2, <1>4, SaidDecoded
<1>6. /\ \E T : wire' \in Seq(T)
      /\ Said' = Said
      /\ Head(todo).kind = "drain" => wire' = <<>>
  <2>1. CASE wire' = After(n) /\ (Head(todo).kind = "drain" => n = Len(wire))
    BY <1>5, <2>1 DEF Said
  <2>2. CASE wire' = Append(After(n), Value(Head(todo).name)) /\ Head(todo).kind = "get"
    <3>1. Value(Head(todo).name).kind = "value"
      BY DEF Value
    <3>2. (\E T : wire' \in Seq(T)) /\ Denied(wire') = Denied(After(n))
      BY <1>5, <2>2, <3>1, DeniedAppend
    <3>3. Said' = Said
      BY <1>5, <3>2 DEF Said
    <3> QED BY <2>2, <3>2, <3>3
  <2> QED BY <1>4, <2>1, <2>2
<1>7. /\ todo' \in Seq(V2Commands)
      /\ \A i \in 1 .. Len(todo') : i + 1 \in 1 .. Len(todo) /\ todo'[i] = todo[i + 1]
  BY <1>1, <1>2, OneLess
<1>8. CASE op = "apply" /\ alive
  <2>1. WritesLeft' /\ (todo' = <<>> <=> Head(todo).kind = "drain")
    BY <1>1, <1>2, <1>8, LeftAfter DEF ShowInv
  <2>2. Answered'
    BY <1>1, <1>6, <1>8, <2>1 DEF ShowInv, Answered
  <2> QED BY <1>1, <1>2, <1>6, <1>7, <1>8, <2>1, <2>2 DEF ShowInv
<1>9. CASE op # "apply" \/ ~alive
  <2>1. op # "apply" => (alive => Said' = {}) /\ \A i \in 1 .. Len(todo') : todo'[i].kind # "set"
    BY <1>6, <1>7, <1>9 DEF ShowInv
  <2> QED BY <1>1, <1>2, <1>6, <1>7, <1>9, <2>1 DEF ShowInv
<1> QED BY <1>8, <1>9

\* At the end of a request everything has been read.
LEMMA ConfirmShows ==
  ASSUME ShowInv, Confirm
  PROVE  ShowInv' /\ ConfirmsTaken
<1>1. /\ op = "apply" /\ todo = <<>> /\ op' = "idle" /\ rejected' = {}
      /\ cache' = [s \in Settings |-> IF s \in written /\ ~SaidNo(s) THEN request[s] ELSE cache[s]]
      /\ UNCHANGED <<alive, todo, wire>>
  BY DEF Confirm, world
<1>2. alive => Answered /\ wire = <<>>
  BY <1>1 DEF ShowInv, Answered
<1>3. alive => Said = rejected /\ Said' = {}
  BY <1>1, <1>2, DeniedNothing DEF Said
<1>4. alive => \A s \in Settings \ unsaid : s \in accepted <=> s \in written /\ ~SaidNo(s)
  BY <1>2, <1>3 DEF Answered, SaidNo
<1>5. ConfirmsTaken
  BY <1>1, <1>4 DEF ConfirmsTaken
<1>6. ShowInv'
  <2>1. Len(todo') = 0
    BY <1>1, EmptySeq
  <2>2. \A i \in 1 .. Len(todo') : todo'[i].kind # "set"
    BY <2>1
  <2> QED BY <1>1, <1>3, <2>2 DEF ShowInv
<1> QED BY <1>5, <1>6

LEMMA AroundShows ==
  ASSUME ShowInv,
         \/ \E s \in Settings, v \in Values : AppChanges(s, v)
         \/ \E p \in Plans : AppReplans(p)
         \/ SessionDies \/ LookUp \/ Flip \/ Readback \/ Merge \/ UNCHANGED vars
  PROVE  ShowInv' /\ (op = "apply" => op' = "apply")
<1>1. CASE SessionDies
  <2>1. alive' = FALSE /\ wire' = <<>> /\ UNCHANGED <<op, todo>>
    BY <1>1 DEF SessionDies
  <2>2. <<>> \in Seq({})
    BY EmptySeq
  <2> QED BY <2>1, <2>2 DEF ShowInv
<1>2. ~LookUp /\ ~Flip
  <2>1. todo # <<>> => Head(todo) \in V2Commands
    BY HeadTailProperties DEF ShowInv
  <2> QED BY <2>1 DEF LookUp, Flip, V2Commands
<1>3. CASE \/ \E s \in Settings, v \in Values : AppChanges(s, v)
           \/ \E p \in Plans : AppReplans(p)
           \/ UNCHANGED vars
  <2>1. UNCHANGED <<wire, rejected, todo, op, alive, written, accepted, unsaid>>
    BY <1>3 DEF AppChanges, AppReplans, vars
  <2> QED BY <2>1 DEF ShowInv, Said, WritesLeft, Answered
<1>4. CASE Readback \/ Merge
  <2>1. /\ op \in {"sweep", "light"} /\ op' = "idle" /\ todo = <<>>
        /\ UNCHANGED <<wire, rejected, todo, alive>>
    BY <1>4 DEF Readback, Merge, world
  <2> QED BY <2>1 DEF ShowInv, Said
<1> QED BY <1>1, <1>2, <1>3, <1>4

LEMMA ShowStep ==
  ASSUME Proto = "v2", Prompt = TRUE
  PROVE  ShowInv /\ [Next]_vars => ShowInv' /\ ConfirmsTaken
<1> SUFFICES ASSUME ShowInv, [Next]_vars PROVE ShowInv' /\ ConfirmsTaken
  OBVIOUS
<1>1. ASSUME NEW r \in Requests, BeginApply(r) PROVE ShowInv' /\ ConfirmsTaken
  BY <1>1, ApplyShows DEF BeginApply, ConfirmsTaken
<1>2. CASE BeginSweep \/ BeginLight
  BY <1>2, LookShows DEF BeginSweep, BeginLight, ConfirmsTaken
<1>3. CASE Set
  BY <1>3, SetShows DEF Set, ConfirmsTaken
<1>4. CASE SendGet \/ Drain
  BY <1>4, WaitShows DEF SendGet, Drain, ConfirmsTaken
<1>5. CASE Confirm
  BY <1>5, ConfirmShows
<1>6. CASE \/ \E s \in Settings, v \in Values : AppChanges(s, v)
           \/ \E p \in Plans : AppReplans(p)
           \/ SessionDies \/ LookUp \/ Flip \/ Readback \/ Merge \/ UNCHANGED vars
  BY <1>6, AroundShows DEF ConfirmsTaken
<1> QED BY <1>1, <1>2, <1>3, <1>4, <1>5, <1>6 DEF Next, Step

LEMMA ShowStart == Init => ShowInv
<1> SUFFICES ASSUME Init PROVE ShowInv
  OBVIOUS
<1>1. wire = <<>> /\ rejected = {} /\ todo = <<>> /\ op = "idle"
  BY DEF Init
<1>2. <<>> \in Seq({}) /\ <<>> \in Seq(V2Commands) /\ Len(<<>>) = 0
  BY EmptySeq
<1>3. Said = {}
  BY <1>1, DeniedNothing DEF Said
<1> QED BY <1>1, <1>2, <1>3 DEF ShowInv

\* A V2 camera, whose rejections name the request by its whole opcode, and that
\* answers within the wait: a request whose session lives to its end leaves the
\* cache showing what the camera took of it and not what it rejected (apply,
\* _confirm), whatever requests, changes in the app and lost sessions came
\* before.  The settings whose failure the bridge does not look for, `unsaid`, are
\* outside it.  On V3 it does not hold, as a run shows.
THEOREM ShownAsAnswered ==
  ASSUME Proto = "v2", Prompt = TRUE
  PROVE  Spec => ShowsWhatWasTaken
<1> QED BY ShowStart, ShowStep, PTL DEF Spec, ShowsWhatWasTaken

\* The same of the camera that is chosen in the composition of both.
THEOREM ShownOnV2 ==
  ASSUME Proto = "v2", Prompt = TRUE
  PROVE  MCSpec => ShowsOnV2
<1> DEFINE Inv == speaks = "v2" => ShowInv
<1>1. MCInit => Inv
  BY ShowStart DEF MCInit
<1>2. Inv /\ [MCNext]_<<vars, speaks>> => Inv' /\ [speaks = "v2" => ConfirmsTaken]_vars
  <2> SUFFICES ASSUME Inv, [MCNext]_<<vars, speaks>>, speaks = "v2" \/ speaks' = "v2"
               PROVE  Inv' /\ [speaks = "v2" => ConfirmsTaken]_vars
    OBVIOUS
  <2>1. speaks = "v2" /\ [Next]_vars
    BY DEF MCNext
  <2> QED BY <2>1, ShowStep
<1> QED BY <1>1, <1>2, PTL DEF MCSpec, ShowsOnV2
=============================================================================
