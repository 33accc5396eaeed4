-------------------------- MODULE DiarySaveProofs --------------------------
(***************************************************************************)
(* What the lock and the partial files of DiarySave achieve, for any       *)
(* number of presses, days, chunks and reloads.                            *)
(***************************************************************************)
EXTENDS DiarySave, TLAPS

\* A press that writes under a name writes a file that has that name.
HandlesName ==
  \A p \in Presses : pc[p] = "write" =>
    /\ handle[p] = "partial" => partial[day[p]] # NoFile
    /\ handle[p] = "saved" => saved[day[p]] # NoFile

TypeInv == TypeOK /\ HandlesName

\* As long as no two coordinators' presses were inside at once, one is.
Alone ==
  ~overlapped => \A p, q \in Presses : Inside(p) /\ Inside(q) => p = q

\* It then saves days that nobody has saved, each once, from a partial file
\* that holds what it has got.
Downloading(p) == pc[p] \in {"get", "open", "write", "replace"}

Orderly(p) ==
  /\ pc[p] = "write" => handle[p] = "partial" /\ partial[day[p]] = 1 .. got[p]
  /\ pc[p] = "replace" => partial[day[p]] = Whole
  /\ Downloading(p) =>
       /\ saved[day[p]] = NoFile /\ day[p] \notin wanted[p]
       /\ \A d \in wanted[p] : saved[d] = NoFile

Clean ==
  ~overlapped => /\ \A d \in Days : saved[d] \in {NoFile, Whole}
                 /\ \A p \in Presses : Orderly(p)

IInv == TypeInv /\ Alone /\ Clean
-----------------------------------------------------------------------------
(* Types.                                                                  *)

\* A name is not given to a set of chunks by mistake.
LEMMA NoFileIsNone == NoFile \notin SUBSET Whole
<1>1. 0 \notin Whole
  BY DiaryAssumption DEF Whole
<1> QED BY <1>1 DEF NoFile

\* Leaving and taking the next day keep the types and who holds which lock.
LEMMA LeaveTypes ==
  ASSUME TypeOK, NEW p \in Presses, Inside(p), Leave(p), UNCHANGED coordinator
  PROVE  /\ pc' \in [Presses -> Places]
         /\ lock' \in [Coordinators -> Presses \cup {Nobody}]
         /\ \A q \in Presses : Inside(q)' => lock'[coordinator'[q]] = q
         /\ \A q \in Presses : pc'[q] = IF q = p THEN "idle" ELSE pc[q]
<1>1. coordinator[p] \in Coordinators /\ lock[coordinator[p]] = p
  BY DEF TypeOK
<1>2. /\ pc' \in [Presses -> Places]
      /\ lock' \in [Coordinators -> Presses \cup {Nobody}]
      /\ \A q \in Presses : pc'[q] = IF q = p THEN "idle" ELSE pc[q]
  BY DEF TypeOK, Leave, Places
<1>3. ASSUME NEW q \in Presses, Inside(q)' PROVE lock'[coordinator'[q]] = q
  <2>1. q # p /\ Inside(q)
    BY <1>2, <1>3 DEF Inside
  <2>2. lock[coordinator[q]] = q /\ coordinator[q] \in Coordinators
    BY <2>1 DEF TypeOK
  <2>3. coordinator[q] # coordinator[p]
    BY <1>1, <2>1, <2>2
  <2> QED BY <2>2, <2>3 DEF Leave, TypeOK
<1> QED BY <1>2, <1>3

LEMMA TakeTypes ==
  ASSUME TypeOK, NEW p \in Presses, Inside(p), NEW days \in SUBSET Days, Take(p, days),
         UNCHANGED coordinator
  PROVE  /\ pc' \in [Presses -> Places]
         /\ lock' \in [Coordinators -> Presses \cup {Nobody}]
         /\ \A q \in Presses : Inside(q)' => lock'[coordinator'[q]] = q
         /\ \A q \in Presses \ {p} : pc'[q] = pc[q] /\ day'[q] = day[q] /\ wanted'[q] = wanted[q]
         /\ pc'[p] \in {"idle", "get"}
         /\ wanted' \in [Presses -> SUBSET Days] /\ day' \in [Presses -> Days]
         /\ pc'[p] = "get" => /\ day'[p] \in days /\ wanted'[p] = days \ {day'[p]}
<1>1. CASE days = {} /\ Leave(p) /\ wanted' = [wanted EXCEPT ![p] = {}] /\ UNCHANGED day
  BY <1>1, LeaveTypes DEF TypeOK
<1>2. ASSUME NEW d \in days,
             day' = [day EXCEPT ![p] = d], wanted' = [wanted EXCEPT ![p] = days \ {d}],
             pc' = [pc EXCEPT ![p] = "get"], UNCHANGED lock
      PROVE  /\ pc' \in [Presses -> Places]
             /\ lock' \in [Coordinators -> Presses \cup {Nobody}]
             /\ \A q \in Presses : Inside(q)' => lock'[coordinator'[q]] = q
             /\ \A q \in Presses \ {p} : pc'[q] = pc[q] /\ day'[q] = day[q] /\ wanted'[q] = wanted[q]
             /\ pc'[p] = "get"
             /\ wanted' \in [Presses -> SUBSET Days] /\ day' \in [Presses -> Days]
             /\ day'[p] \in days /\ wanted'[p] = days \ {day'[p]}
  BY <1>2 DEF TypeOK, Places, Inside
<1> QED BY <1>1, <1>2 DEF Take

LEMMA InitTypes == Init => TypeInv
<1> SUFFICES ASSUME Init PROVE TypeInv
  OBVIOUS
<1>1. /\ current \in Coordinators
      /\ lock \in [Coordinators -> Presses \cup {Nobody}]
      /\ coordinator \in [Presses -> Coordinators]
      /\ got \in [Presses -> 0 .. Chunks] /\ faults \in 0 .. MaxFaults
  BY DiaryAssumption DEF Init, Coordinators
<1>2. /\ pc \in [Presses -> Places] /\ handle \in [Presses -> {"partial", "saved", "gone"}]
      /\ \A p \in Presses : pc[p] = "idle"
  BY DEF Init, Places
<1>3. /\ wanted \in [Presses -> SUBSET Days] /\ day \in [Presses -> Days]
      /\ partial \in [Days -> (SUBSET Whole) \cup {NoFile}]
      /\ saved \in [Days -> (SUBSET Whole) \cup {NoFile}]
      /\ overlapped \in BOOLEAN
  BY DEF Init
<1>4. \A p \in Presses : ~Inside(p) /\ pc[p] # "write"
  BY <1>2 DEF Inside
<1> QED BY <1>1, <1>2, <1>3, <1>4 DEF TypeInv, TypeOK, HandlesName

\* Pressing, and getting in.
LEMMA PressTypes ==
  ASSUME TypeInv, NEW p \in Presses, Press(p)
  PROVE  TypeInv'
<1>1. \A q \in Presses : (pc'[q] = "write" => pc[q] = "write") /\ (Inside(q)' => Inside(q) /\ q # p)
  BY DEF TypeInv, TypeOK, Press, Inside
<1>2. pc' \in [Presses -> Places] /\ coordinator' \in [Presses -> Coordinators]
  BY DEF TypeInv, TypeOK, Press, Places
<1>3. \A q \in Presses : q # p => coordinator'[q] = coordinator[q]
  BY DEF TypeInv, TypeOK, Press
<1> QED BY <1>1, <1>2, <1>3 DEF TypeInv, TypeOK, HandlesName, Press, files, download

LEMMA EnterTypes ==
  ASSUME TypeInv, NEW p \in Presses, Enter(p)
  PROVE  TypeInv'
<1>1. /\ pc' \in [Presses -> Places] /\ lock' \in [Coordinators -> Presses \cup {Nobody}]
      /\ overlapped' \in BOOLEAN
  BY DEF TypeInv, TypeOK, Enter, Places
<1>2. \A q \in Presses : q # p => pc'[q] = pc[q]
  BY DEF TypeInv, TypeOK, Enter
<1>3. pc'[p] = "report" /\ lock'[coordinator[p]] = p /\ lock[coordinator[p]] = Nobody
  BY DEF TypeInv, TypeOK, Enter, Free
<1>4. ASSUME NEW q \in Presses, Inside(q)' PROVE lock'[coordinator'[q]] = q
  <2>1. CASE q = p
    BY <1>3, <2>1 DEF Enter
  <2>2. CASE q # p
    <3>1. Inside(q)
      BY <1>2, <1>4, <2>2 DEF Inside
    <3>2. lock[coordinator[q]] = q /\ q # Nobody
      BY <3>1, DiaryAssumption DEF TypeInv, TypeOK
    <3> QED BY <1>3, <3>2 DEF Enter, TypeInv, TypeOK
  <2> QED BY <2>1, <2>2
<1>5. \A q \in Presses : pc'[q] = "write" => pc[q] = "write"
  BY <1>2, <1>3
<1> QED BY <1>1, <1>4, <1>5 DEF TypeInv, TypeOK, HandlesName, Enter, files, download

\* A step that goes on to another place.
LEMMA OnwardTypes ==
  ASSUME TypeInv, NEW p \in Presses, Inside(p), NEW place \in Places \ {"idle", "waiting", "write"},
         pc' = [pc EXCEPT ![p] = place],
         UNCHANGED <<current, lock, coordinator, download, files, overlapped, faults>>
  PROVE  TypeInv'
<1>1. pc' \in [Presses -> Places]
  BY DEF TypeInv, TypeOK
<1>2. \A q \in Presses : (pc'[q] = "write" => pc[q] = "write") /\ (Inside(q)' => Inside(q))
  BY DEF TypeInv, TypeOK, Inside
<1> QED BY <1>1, <1>2 DEF TypeInv, TypeOK, HandlesName, files, download

LEMMA LookTypes ==
  ASSUME TypeInv, NEW p \in Presses, Look(p)
  PROVE  TypeInv'
<1>1. Inside(p) /\ missing \in SUBSET Days /\ Take(p, missing) /\ UNCHANGED coordinator
  BY DEF Look, Inside, missing
<1>2. TypeOK
  BY DEF TypeInv
<1>3. /\ pc' \in [Presses -> Places]
      /\ lock' \in [Coordinators -> Presses \cup {Nobody}]
      /\ \A q \in Presses : Inside(q)' => lock'[coordinator'[q]] = q
      /\ \A q \in Presses \ {p} : pc'[q] = pc[q] /\ day'[q] = day[q]
      /\ pc'[p] \in {"idle", "get"}
      /\ wanted' \in [Presses -> SUBSET Days] /\ day' \in [Presses -> Days]
  BY <1>1, <1>2, TakeTypes
<1>4. HandlesName'
  BY <1>3 DEF Look, files, TypeInv, HandlesName
<1>5. TypeOK'
  BY <1>2, <1>3 DEF Look, files, TypeOK
<1> QED BY <1>4, <1>5 DEF TypeInv

LEMMA OpenTypes ==
  ASSUME TypeInv, NEW p \in Presses, Open(p)
  PROVE  TypeInv'
<1>1. /\ pc' \in [Presses -> Places]
      /\ \A q \in Presses : q # p => pc'[q] = pc[q] /\ handle'[q] = handle[q]
      /\ \A q \in Presses : Inside(q)' => Inside(q)
      /\ handle' \in [Presses -> {"partial", "saved", "gone"}] /\ handle'[p] = "partial"
  BY DEF TypeInv, TypeOK, Open, Places, Inside
<1>2. got' \in [Presses -> 0 .. Chunks]
  BY DiaryAssumption DEF TypeInv, TypeOK, Open
<1>3. /\ partial' \in [Days -> (SUBSET Whole) \cup {NoFile}]
      /\ partial'[day[p]] = {} /\ {} # NoFile
      /\ \A d \in Days : partial[d] # NoFile => partial'[d] # NoFile
  BY DEF TypeInv, TypeOK, Open, NoFile
<1>4. HandlesName'
  BY <1>1, <1>3 DEF TypeInv, TypeOK, HandlesName, Open
<1>5. TypeOK'
  BY <1>1, <1>2, <1>3 DEF TypeInv, TypeOK, Open
<1> QED BY <1>4, <1>5 DEF TypeInv

LEMMA WriteTypes ==
  ASSUME TypeInv, NEW p \in Presses, Write(p)
  PROVE  TypeInv'
<1>1. got' \in [Presses -> 0 .. Chunks] /\ got[p] + 1 \in Whole /\ 0 \notin Whole
  BY DiaryAssumption DEF TypeInv, TypeOK, Write, Whole
<1>2. day[p] \in Days /\ pc[p] = "write"
  BY DEF TypeInv, TypeOK, Write
<1> DEFINE Grown(f, g) ==
      /\ g \in [Days -> (SUBSET Whole) \cup {NoFile}]
      /\ \A d \in Days : f[d] # NoFile => g[d] # NoFile
<1>3. Grown(partial, partial')
  <2>1. CASE handle[p] = "partial"
    <3>1. partial[day[p]] \in SUBSET Whole
      BY <1>2, <2>1 DEF TypeInv, TypeOK, HandlesName
    <3>2. partial[day[p]] \cup {got[p] + 1} \in SUBSET Whole
      BY <1>1, <3>1
    <3>3. partial[day[p]] \cup {got[p] + 1} # NoFile
      BY <1>1, <3>2, NoFileIsNone
    <3> QED BY <1>2, <2>1, <3>2, <3>3 DEF TypeInv, TypeOK, Write, Put
  <2>2. CASE handle[p] # "partial"
    BY <2>2 DEF TypeInv, TypeOK, Write, Put
  <2> QED BY <2>1, <2>2
<1>4. Grown(saved, saved')
  <2>1. CASE handle[p] = "saved"
    <3>1. saved[day[p]] \in SUBSET Whole
      BY <1>2, <2>1 DEF TypeInv, TypeOK, HandlesName
    <3>2. saved[day[p]] \cup {got[p] + 1} \in SUBSET Whole
      BY <1>1, <3>1
    <3>3. saved[day[p]] \cup {got[p] + 1} # NoFile
      BY <1>1, <3>2, NoFileIsNone
    <3> QED BY <1>2, <2>1, <3>2, <3>3 DEF TypeInv, TypeOK, Write, Put
  <2>2. CASE handle[p] # "saved"
    BY <2>2 DEF TypeInv, TypeOK, Write, Put
  <2> QED BY <2>1, <2>2
<1>5. HandlesName'
  BY <1>3, <1>4 DEF TypeInv, TypeOK, HandlesName, Write
<1>6. TypeOK'
  BY <1>1, <1>3, <1>4 DEF TypeInv, TypeOK, Write, Inside
<1> QED BY <1>5, <1>6 DEF TypeInv

LEMMA ReplaceTypes ==
  ASSUME TypeInv, NEW p \in Presses, Replace(p)
  PROVE  TypeInv'
<1>1. Inside(p) /\ TypeOK /\ pc[p] = "replace" /\ day[p] \in Days
  BY DEF Replace, Inside, TypeInv, TypeOK
<1>2. CASE partial[day[p]] # NoFile /\ Rename(p) /\ Take(p, wanted[p])
  <2>1. wanted[p] \in SUBSET Days /\ UNCHANGED coordinator
    BY <1>1 DEF TypeOK, Replace
  <2>2. /\ pc' \in [Presses -> Places]
        /\ lock' \in [Coordinators -> Presses \cup {Nobody}]
        /\ \A q \in Presses : Inside(q)' => lock'[coordinator'[q]] = q
        /\ \A q \in Presses \ {p} : pc'[q] = pc[q] /\ day'[q] = day[q]
        /\ pc'[p] \in {"idle", "get"}
        /\ wanted' \in [Presses -> SUBSET Days] /\ day' \in [Presses -> Days]
    BY <1>1, <1>2, <2>1, TakeTypes
  <2>3. /\ saved' \in [Days -> (SUBSET Whole) \cup {NoFile}]
        /\ partial' \in [Days -> (SUBSET Whole) \cup {NoFile}]
        /\ handle' \in [Presses -> {"partial", "saved", "gone"}]
    BY <1>1, <1>2 DEF TypeOK, Rename
  <2>4. ASSUME NEW q \in Presses, pc'[q] = "write"
        PROVE  /\ handle'[q] = "partial" => partial'[day'[q]] # NoFile
               /\ handle'[q] = "saved" => saved'[day'[q]] # NoFile
    <3>1. q # p /\ pc[q] = "write" /\ day'[q] = day[q] /\ day[q] \in Days
      BY <1>1, <2>2, <2>4 DEF TypeOK
    <3>2. /\ handle[q] = "partial" => partial[day[q]] # NoFile
          /\ handle[q] = "saved" => saved[day[q]] # NoFile
      BY <3>1 DEF TypeInv, HandlesName
    <3>3. CASE day[q] = day[p]
      <4>1. handle'[q] = IF handle[q] = "partial" THEN "saved" ELSE "gone"
        BY <1>2, <3>1, <3>3 DEF Rename
      <4>2. saved'[day[q]] # NoFile
        BY <1>1, <1>2, <3>3 DEF Rename, TypeOK
      <4> QED BY <3>1, <4>1, <4>2
    <3>4. CASE day[q] # day[p]
      <4>1. handle'[q] = handle[q]
        BY <1>2, <3>1, <3>4 DEF Rename
      <4>2. saved'[day[q]] = saved[day[q]] /\ partial'[day[q]] = partial[day[q]]
        BY <1>1, <1>2, <3>1, <3>4 DEF Rename, TypeOK
      <4> QED BY <3>1, <3>2, <4>1, <4>2
    <3> QED BY <3>3, <3>4
  <2>5. TypeOK'
    BY <1>1, <2>2, <2>3 DEF TypeOK, Replace
  <2> QED BY <2>4, <2>5 DEF TypeInv, HandlesName
<1>3. CASE Leave(p) /\ UNCHANGED <<wanted, day, handle, files>>
  <2>1. /\ pc' \in [Presses -> Places]
        /\ lock' \in [Coordinators -> Presses \cup {Nobody}]
        /\ \A q \in Presses : Inside(q)' => lock'[coordinator'[q]] = q
        /\ \A q \in Presses : pc'[q] = IF q = p THEN "idle" ELSE pc[q]
    BY <1>1, <1>3, LeaveTypes DEF Replace
  <2> QED BY <1>1, <1>3, <2>1 DEF TypeInv, TypeOK, HandlesName, Replace, files
<1> QED BY <1>2, <1>3 DEF Replace

LEMMA BreakOffTypes ==
  ASSUME TypeInv, NEW p \in Presses, BreakOff(p)
  PROVE  TypeInv'
<1>1. Inside(p) /\ TypeOK /\ day[p] \in Days
  BY DEF BreakOff, Inside, TypeInv, TypeOK
<1>2. /\ pc' \in [Presses -> Places]
      /\ lock' \in [Coordinators -> Presses \cup {Nobody}]
      /\ \A q \in Presses : Inside(q)' => lock'[coordinator'[q]] = q
      /\ \A q \in Presses : pc'[q] = IF q = p THEN "idle" ELSE pc[q]
  BY <1>1, LeaveTypes DEF BreakOff
<1>3. /\ partial' \in [Days -> (SUBSET Whole) \cup {NoFile}]
      /\ handle' \in [Presses -> {"partial", "saved", "gone"}]
      /\ faults' \in 0 .. MaxFaults
  <2>1. partial' \in [Days -> (SUBSET Whole) \cup {NoFile}]
    BY <1>1 DEF TypeOK, BreakOff, Unlink
  <2>2. handle' \in [Presses -> {"partial", "saved", "gone"}]
    BY <1>1 DEF TypeOK, BreakOff, Unlink
  <2>3. faults' \in 0 .. MaxFaults
    BY <1>1, DiaryAssumption DEF TypeOK, BreakOff, Fault
  <2> QED BY <2>1, <2>2, <2>3
<1>4. ASSUME NEW q \in Presses, pc'[q] = "write"
      PROVE  /\ handle'[q] = "partial" => partial'[day'[q]] # NoFile
             /\ handle'[q] = "saved" => saved'[day'[q]] # NoFile
  <2>1. pc[q] = "write" /\ day[q] \in Days
    BY <1>1, <1>2, <1>4 DEF TypeOK
  <2>2. handle'[q] = IF day[q] = day[p] /\ handle[q] = "partial" THEN "gone" ELSE handle[q]
    BY <2>1 DEF BreakOff, Unlink
  <2>3. day[q] # day[p] => partial'[day[q]] = partial[day[q]]
    BY <1>1, <2>1 DEF BreakOff, Unlink, TypeOK
  <2> QED BY <2>1, <2>2, <2>3 DEF BreakOff, TypeInv, HandlesName
<1>5. TypeOK'
  BY <1>1, <1>2, <1>3 DEF TypeOK, BreakOff
<1> QED BY <1>4, <1>5 DEF TypeInv, HandlesName

LEMMA RaiseTypes ==
  ASSUME TypeInv, NEW p \in Presses, Raise(p)
  PROVE  TypeInv'
<1>1. TypeOK /\ faults' \in 0 .. MaxFaults
  BY DiaryAssumption DEF TypeInv, TypeOK, Raise, Fault
<1>2. /\ pc' \in [Presses -> Places]
      /\ lock' \in [Coordinators -> Presses \cup {Nobody}]
      /\ \A q \in Presses : Inside(q)' => lock'[coordinator'[q]] = q
      /\ \A q \in Presses : pc'[q] = IF q = p THEN "idle" ELSE pc[q]
  <2>1. CASE Inside(p)
    BY <1>1, <2>1, LeaveTypes DEF Raise
  <2>2. CASE ~Inside(p)
    BY <1>1, <2>2 DEF Raise, TypeOK, Places, Inside
  <2> QED BY <2>1, <2>2
<1> QED BY <1>1, <1>2 DEF TypeInv, TypeOK, HandlesName, Raise, files, download

LEMMA RestartTypes ==
  ASSUME TypeInv, Restart
  PROVE  TypeInv'
<1>1. faults' \in 0 .. MaxFaults
  BY DiaryAssumption DEF TypeInv, TypeOK, Restart, Fault
<1>2. /\ pc' \in [Presses -> Places] /\ lock' \in [Coordinators -> Presses \cup {Nobody}]
      /\ \A q \in Presses : pc'[q] = "idle" /\ ~Inside(q)'
  BY DEF Restart, Places, Inside
<1> QED BY <1>1, <1>2 DEF TypeInv, TypeOK, HandlesName, Restart, files, download

LEMMA ReloadTypes ==
  ASSUME TypeInv, Reload
  PROVE  TypeInv'
<1>1. current' \in Coordinators
  BY DiaryAssumption DEF TypeInv, TypeOK, Reload, Coordinators
<1> QED BY <1>1 DEF TypeInv, TypeOK, HandlesName, Inside, Reload, files, download

LEMMA NextTypes == TypeInv /\ [Next]_vars => TypeInv'
<1> SUFFICES ASSUME TypeInv, [Next]_vars PROVE TypeInv'
  OBVIOUS
<1>1. ASSUME NEW p \in Presses, Step(p) PROVE TypeInv'
  <2>1. CASE Report(p) \/ Get(p) \/ Close(p)
    <3>1. CASE Report(p)
      BY <3>1, OnwardTypes DEF Report, Inside, Places
    <3>2. CASE Get(p)
      BY <3>2, OnwardTypes DEF Get, Inside, Places
    <3>3. CASE Close(p)
      BY <3>3, OnwardTypes DEF Close, Inside, Places
    <3> QED BY <2>1, <3>1, <3>2, <3>3
  <2> QED BY <1>1, <2>1, LookTypes, OpenTypes, WriteTypes, ReplaceTypes DEF Step
<1>2. CASE UNCHANGED vars
  BY <1>2 DEF TypeInv, TypeOK, HandlesName, Inside, vars, files, download
<1> QED BY <1>1, <1>2, PressTypes, EnterTypes, BreakOffTypes, RaiseTypes, RestartTypes,
           ReloadTypes DEF Next

\* DiarySave's variables keep their types, and whoever is inside holds the lock
\* of the coordinator it was pressed with, whatever failed or was killed before.
THEOREM TypeCorrect == Spec => []TypeOK
<1>1. TypeInv => TypeOK
  BY DEF TypeInv
<1> QED BY <1>1, InitTypes, NextTypes, PTL DEF Spec
-----------------------------------------------------------------------------
(* One press at a time.                                                    *)

LEMMA NextAlone == TypeInv /\ Alone /\ [Next]_vars => Alone'
<1> SUFFICES ASSUME TypeInv, Alone, [Next]_vars PROVE Alone'
  OBVIOUS
<1>1. ASSUME NEW p \in Presses, Enter(p) PROVE Alone'
  <2> SUFFICES ASSUME ~overlapped', NEW q \in Presses, Inside(q)'
               PROVE  q = p
    BY DEF Alone
  <2>1. CASE q # p
    <3>1. Inside(q)
      BY <1>1, <2>1 DEF Enter, TypeInv, TypeOK, Inside
    <3>2. coordinator[q] = coordinator[p]
      BY <1>1, <3>1 DEF Enter
    <3>3. lock[coordinator[p]] = q /\ lock[coordinator[p]] = Nobody
      BY <1>1, <3>1, <3>2 DEF Enter, Free, TypeInv, TypeOK
    <3> QED BY <3>3, DiaryAssumption
  <2> QED BY <2>1
<1>2. ASSUME \A q \in Presses : Inside(q)' => Inside(q), UNCHANGED overlapped PROVE Alone'
  BY <1>2 DEF Alone
<1>3. ASSUME NEW p \in Presses, Press(p) \/ Step(p) \/ BreakOff(p) \/ Raise(p) PROVE Alone'
  <2>1. UNCHANGED overlapped
    BY <1>3 DEF Press, Step, Report, Look, Get, Open, Write, Close, Replace, BreakOff, Raise
  <2>2. ASSUME NEW q \in Presses, Inside(q)' PROVE Inside(q)
    <3>1. pc'[q] = pc[q] \/ q = p
      BY <1>3 DEF Press, Step, Report, Look, Get, Open, Write, Close, Replace, BreakOff, Raise,
                  Take, Leave, TypeInv, TypeOK
    <3>2. CASE pc'[q] = pc[q]
      BY <2>2, <3>2 DEF Inside
    <3>3. CASE q = p
      BY <1>3, <2>2, <3>3
         DEF Press, Step, Report, Look, Get, Open, Write, Close, Replace, BreakOff, Raise,
             Inside, TypeInv, TypeOK
    <3> QED BY <3>1, <3>2, <3>3
  <2> QED BY <1>2, <2>1, <2>2
<1>4. CASE Reload \/ Restart \/ UNCHANGED vars
  BY <1>2, <1>4 DEF Reload, Restart, vars, Inside
<1> QED BY <1>1, <1>3, <1>4 DEF Next
-----------------------------------------------------------------------------
(* What it saves.                                                          *)

\* A press that is alone inside does as it likes with the files, if it is
\* orderly itself.
LEMMA OthersOutside ==
  ASSUME Alone, ~overlapped, NEW p \in Presses, Inside(p),
         \A q \in Presses \ {p} : pc'[q] = pc[q],
         \A d \in Days : saved'[d] \in {NoFile, Whole},
         Orderly(p)'
  PROVE  Clean'
<1>1. ASSUME NEW q \in Presses \ {p} PROVE Orderly(q)'
  <2>1. ~Inside(q)
    BY DEF Alone
  <2> QED BY <2>1 DEF Orderly, Downloading, Inside
<1> QED BY <1>1 DEF Clean

\* Ending a press is orderly.
LEMMA LeaveClean ==
  ASSUME TypeOK, Clean, NEW p \in Presses, pc' = [pc EXCEPT ![p] = "idle"], Alone, Inside(p),
         UNCHANGED <<saved, overlapped>>
  PROVE  Clean'
<1>1. CASE overlapped
  BY <1>1 DEF Clean
<1>2. CASE ~overlapped
  <2>1. pc'[p] = "idle" /\ \A q \in Presses \ {p} : pc'[q] = pc[q]
    BY DEF TypeOK
  <2>2. Orderly(p)'
    BY <2>1 DEF Orderly, Downloading
  <2> QED BY <1>2, <2>1, <2>2, OthersOutside DEF Clean
<1> QED BY <1>1, <1>2

\* Being elsewhere with the same files is orderly, if less is claimed there.
LEMMA MoveClean ==
  ASSUME TypeOK, Clean, NEW p \in Presses, NEW place, pc' = [pc EXCEPT ![p] = place],
         place \in {"waiting", "report", "look"} \/
           (pc[p] = "get" /\ place = "open") \/
           (pc[p] = "write" /\ place = "replace" /\ got[p] = Chunks),
         UNCHANGED <<download, files>>, overlapped => overlapped'
  PROVE  Clean'
<1> SUFFICES ASSUME ~overlapped', NEW q \in Presses PROVE Orderly(q)'
  BY DEF Clean, files
<1>1. Orderly(q) /\ pc'[q] = IF q = p THEN place ELSE pc[q]
  BY DEF Clean, TypeOK
<1>2. CASE q # p
  BY <1>1, <1>2 DEF Orderly, Downloading, files, download
<1>3. CASE q = p
  BY <1>1, <1>3 DEF Orderly, Downloading, Whole, files, download
<1> QED BY <1>2, <1>3

\* The next day taken is one that nobody has saved.
LEMMA TakeClean ==
  ASSUME TypeOK, Alone, ~overlapped, NEW p \in Presses, Inside(p),
         NEW days \in SUBSET Days, Take(p, days), UNCHANGED coordinator,
         \A d \in days : saved'[d] = NoFile,
         \A d \in Days : saved'[d] \in {NoFile, Whole}
  PROVE  Clean'
<1>1. /\ \A q \in Presses \ {p} : pc'[q] = pc[q]
      /\ pc'[p] \in {"idle", "get"}
      /\ pc'[p] = "get" => /\ day'[p] \in days /\ wanted'[p] = days \ {day'[p]}
  BY TakeTypes
<1>2. Orderly(p)'
  BY <1>1 DEF Orderly, Downloading
<1> QED BY <1>1, <1>2, OthersOutside

LEMMA LookClean ==
  ASSUME IInv, NEW p \in Presses, Look(p)
  PROVE  Clean'
<1>1. CASE overlapped
  BY <1>1 DEF Clean, Look
<1>2. CASE ~overlapped
  <2>1. /\ Inside(p) /\ missing \in SUBSET Days /\ Take(p, missing) /\ UNCHANGED <<saved, coordinator>>
        /\ \A d \in missing : saved'[d] = NoFile
    BY DEF Look, Inside, missing, files
  <2>2. \A d \in Days : saved'[d] \in {NoFile, Whole}
    BY <1>2, <2>1 DEF IInv, Clean
  <2> QED BY <1>2, <2>1, <2>2, TakeClean DEF IInv, TypeInv
<1> QED BY <1>1, <1>2

LEMMA OpenClean ==
  ASSUME IInv, NEW p \in Presses, Open(p)
  PROVE  Clean'
<1>1. CASE overlapped
  BY <1>1 DEF Clean, Open
<1>2. CASE ~overlapped
  <2>1. Inside(p) /\ day[p] \in Days /\ Orderly(p)
    BY <1>2 DEF Open, Inside, IInv, TypeInv, TypeOK, Clean
  <2>2. /\ pc'[p] = "write" /\ handle'[p] = "partial" /\ got'[p] = 0
        /\ partial'[day[p]] = {} /\ UNCHANGED <<day, wanted, saved>>
        /\ \A q \in Presses \ {p} : pc'[q] = pc[q]
    BY <2>1 DEF Open, IInv, TypeInv, TypeOK
  <2>3. 1 .. 0 = {}
    OBVIOUS
  <2>4. Orderly(p)'
    BY <2>1, <2>2, <2>3 DEF Open, Orderly, Downloading
  <2>5. \A d \in Days : saved'[d] \in {NoFile, Whole}
    BY <1>2, <2>2 DEF IInv, Clean
  <2> QED BY <1>2, <2>1, <2>2, <2>4, <2>5, OthersOutside DEF IInv
<1> QED BY <1>1, <1>2

LEMMA WriteClean ==
  ASSUME IInv, NEW p \in Presses, Write(p)
  PROVE  Clean'
<1>1. CASE overlapped
  BY <1>1 DEF Clean, Write
<1>2. CASE ~overlapped
  <2>1. Inside(p) /\ day[p] \in Days /\ Orderly(p) /\ pc[p] = "write" /\ got[p] \in 0 .. Chunks
    BY <1>2 DEF Write, Inside, IInv, TypeInv, TypeOK, Clean
  <2>2. handle[p] = "partial" /\ partial[day[p]] = 1 .. got[p]
    BY <2>1 DEF Orderly
  <2>3. /\ got'[p] = got[p] + 1 /\ UNCHANGED <<pc, day, wanted, saved, handle>>
        /\ partial'[day[p]] = (1 .. got[p]) \cup {got[p] + 1}
    BY <2>1, <2>2 DEF Write, Put, IInv, TypeInv, TypeOK
  <2>4. (1 .. got[p]) \cup {got[p] + 1} = 1 .. (got[p] + 1)
    BY <2>1, DiaryAssumption
  <2>5. Orderly(p)'
    BY <2>1, <2>2, <2>3, <2>4 DEF Orderly, Downloading
  <2>6. \A d \in Days : saved'[d] \in {NoFile, Whole}
    BY <1>2, <2>3 DEF IInv, Clean
  <2> QED BY <1>2, <2>1, <2>3, <2>5, <2>6, OthersOutside DEF IInv
<1> QED BY <1>1, <1>2

LEMMA ReplaceClean ==
  ASSUME IInv, NEW p \in Presses, Replace(p)
  PROVE  Clean'
<1>1. CASE overlapped
  BY <1>1 DEF Clean, Replace
<1>2. CASE ~overlapped
  <2>1. Inside(p) /\ day[p] \in Days /\ Orderly(p) /\ pc[p] = "replace"
    BY <1>2 DEF Replace, Inside, IInv, TypeInv, TypeOK, Clean
  <2>2. /\ partial[day[p]] = Whole /\ day[p] \notin wanted[p]
        /\ \A d \in wanted[p] : saved[d] = NoFile
    BY <2>1 DEF Orderly, Downloading
  <2>3. CASE Rename(p) /\ Take(p, wanted[p])
    <3>1. /\ \A d \in Days : saved'[d] \in {NoFile, Whole}
          /\ \A d \in wanted[p] : saved'[d] = NoFile
      BY <1>2, <2>1, <2>2, <2>3 DEF Rename, IInv, TypeInv, TypeOK, Clean
    <3>2. wanted[p] \in SUBSET Days /\ UNCHANGED coordinator
      BY DEF Replace, IInv, TypeInv, TypeOK
    <3> QED BY <1>2, <2>1, <2>3, <3>1, <3>2, TakeClean DEF IInv, TypeInv
  <2>4. CASE Leave(p) /\ UNCHANGED files
    BY <2>1, <2>4, LeaveClean DEF Leave, Replace, IInv, TypeInv, files
  <2> QED BY <2>3, <2>4 DEF Replace
<1> QED BY <1>1, <1>2

LEMMA NextClean == IInv /\ [Next]_vars => Clean'
<1> SUFFICES ASSUME IInv, [Next]_vars PROVE Clean'
  OBVIOUS
<1>1. TypeOK /\ Alone /\ Clean
  BY DEF IInv, TypeInv
<1>2. ASSUME NEW p \in Presses, Press(p) PROVE Clean'
  BY <1>1, <1>2, MoveClean DEF Press
<1>3. ASSUME NEW p \in Presses, Enter(p) PROVE Clean'
  <2>1. overlapped => overlapped'
    BY <1>3 DEF Enter
  <2> QED BY <1>1, <1>3, <2>1, MoveClean DEF Enter
<1>4. ASSUME NEW p \in Presses, Report(p) \/ Get(p) \/ Close(p) PROVE Clean'
  <2>1. CASE Report(p)
    BY <1>1, <2>1, MoveClean DEF Report
  <2>2. CASE Get(p)
    BY <1>1, <2>2, MoveClean DEF Get
  <2>3. CASE Close(p)
    BY <1>1, <2>3, MoveClean DEF Close
  <2> QED BY <1>4, <2>1, <2>2, <2>3
<1>5. ASSUME NEW p \in Presses, BreakOff(p) PROVE Clean'
  <2>1. Inside(p)
    BY <1>5 DEF BreakOff, Inside
  <2> QED BY <1>1, <1>5, <2>1, LeaveClean DEF BreakOff, Leave
<1>6. ASSUME NEW p \in Presses, Raise(p) PROVE Clean'
  <2>1. CASE Inside(p)
    BY <1>1, <1>6, <2>1, LeaveClean DEF Raise, Leave, files
  <2>2. CASE ~Inside(p)
    <3>1. \A q \in Presses : Orderly(q) => Orderly(q)'
      BY <1>1, <1>6, <2>2 DEF Raise, Inside, TypeOK, Orderly, Downloading, files, download
    <3> QED BY <1>1, <1>6, <3>1 DEF Raise, Clean, files
  <2> QED BY <2>1, <2>2
<1>7. CASE Reload \/ UNCHANGED vars
  BY <1>1, <1>7 DEF Reload, vars, Clean, Orderly, Downloading, files, download
<1>8. CASE Restart
  <2>1. \A q \in Presses : Orderly(q)'
    BY <1>8 DEF Restart, Orderly, Downloading
  <2> QED BY <1>1, <1>8, <2>1 DEF Restart, Clean, files
<1> QED BY <1>2, <1>3, <1>4, <1>5, <1>6, <1>7, <1>8, LookClean, OpenClean, WriteClean,
           ReplaceClean DEF Next, Step

LEMMA InitIInv == Init => IInv
<1> SUFFICES ASSUME Init PROVE IInv
  OBVIOUS
<1>1. \A p \in Presses : pc[p] = "idle"
  BY DEF Init
<1>2. Alone /\ Clean
  BY <1>1 DEF Alone, Clean, Orderly, Downloading, Inside, Init
<1> QED BY <1>2, InitTypes DEF IInv

LEMMA NextIInv == IInv /\ [Next]_vars => IInv'
BY NextTypes, NextAlone, NextClean DEF IInv

\* Unless a reload lets presses of two coordinators in at once, a file in the
\* media folder is a whole video, whatever failed, was stopped or was killed.
THEOREM SavedWhole == Spec => []SavedIsWhole
<1>1. IInv => SavedIsWhole
  BY DEF IInv, Clean, SavedIsWhole
<1> QED BY <1>1, InitIInv, NextIInv, PTL DEF Spec

\* Nor is a day downloaded that is on disk by then, however many presses wait.
THEOREM SavedOnce == Spec => NeverTwice
<1>1. ASSUME IInv, [Next]_vars
      PROVE  [\A p \in Presses :
                ~overlapped /\ pc[p] = "open" /\ pc'[p] = "write" => saved[day[p]] = NoFile]_vars
  <2>1. ASSUME NEW p \in Presses, ~overlapped, pc[p] = "open" PROVE saved[day[p]] = NoFile
    BY <1>1, <2>1 DEF IInv, Clean, Orderly, Downloading
  <2> QED BY <2>1
<1> QED BY <1>1, InitIInv, NextIInv, PTL DEF Spec, NeverTwice
=============================================================================
