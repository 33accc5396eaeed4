----------------------------- MODULE DiarySave -----------------------------
(***************************************************************************)
(* Saving the Doggie Diary: every press of the button reads the report,    *)
(* sees which days are not on disk and downloads those, each to a partial  *)
(* file that is moved into place when it is complete.  One press at a time *)
(* is inside, for each coordinator; a reload makes a new coordinator, with *)
(* a lock of its own, while presses of the old one go on.                  *)
(***************************************************************************)
EXTENDS Naturals

CONSTANTS
  Presses,     \* the service calls that press the button
  Nobody,      \* the holder of a lock that is free
  Days,        \* the days of the report that have a video
  Chunks,      \* how many chunks a video comes in
  MaxReloads,  \* bound: reloads of the entry
  MaxFaults    \* bound: presses that fail or are stopped, and restarts

ASSUME DiaryAssumption ==
  /\ Nobody \notin Presses
  /\ Chunks \in Nat \ {0} /\ MaxReloads \in Nat /\ MaxFaults \in Nat

VARIABLES
  current,     \* the coordinator the button is bound to
  lock,        \* diary_lock of each coordinator: the press inside
  pc,          \* where a press is: see Places
  coordinator, \* the coordinator a press was made with
  wanted,      \* what it has yet to download
  day,         \* the day it is downloading
  got,         \* how many chunks of it have come
  handle,      \* which name the file it writes has now
  partial,     \* the partial file of each day: what has been written of it
  saved,       \* the file of each day in the media folder
  overlapped,  \* history: presses of two coordinators were inside at once
  faults

files == <<partial, saved>>
download == <<wanted, day, got, handle>>
vars == <<current, lock, pc, coordinator, download, files, overlapped, faults>>

Coordinators == 0 .. MaxReloads

\* "waiting" for the lock; then inside: the "report", the "look" at the disk,
\* and for each day "get", "open", "write" and "replace".
Places == {"idle", "waiting", "report", "look", "get", "open", "write", "replace"}
Inside(p) == pc[p] \notin {"idle", "waiting"}

\* A file is the set of its chunks that have been written; NoFile is not one.
Whole == 1 .. Chunks
NoFile == {0}
-----------------------------------------------------------------------------
(* Files.                                                                  *)

\* A file that is open keeps being written under the name it has been moved to,
\* or without one.
Rename(p) ==
  /\ saved' = [saved EXCEPT ![day[p]] = partial[day[p]]]
  /\ partial' = [partial EXCEPT ![day[p]] = NoFile]
  /\ handle' = [q \in Presses |->
                  IF pc[q] = "write" /\ day[q] = day[p]
                  THEN IF handle[q] = "partial" THEN "saved" ELSE "gone"
                  ELSE handle[q]]

Unlink(d) ==
  /\ partial' = [partial EXCEPT ![d] = NoFile]
  /\ handle' = [q \in Presses |->
                  IF pc[q] = "write" /\ day[q] = d /\ handle[q] = "partial"
                  THEN "gone" ELSE handle[q]]

Put(p, chunk) ==
  /\ partial' = IF handle[p] = "partial"
                THEN [partial EXCEPT ![day[p]] = @ \cup {chunk}] ELSE partial
  /\ saved' = IF handle[p] = "saved"
              THEN [saved EXCEPT ![day[p]] = @ \cup {chunk}] ELSE saved
-----------------------------------------------------------------------------
(* How a press goes on and how it ends.                                    *)

Fault == faults < MaxFaults /\ faults' = faults + 1

\* async with: the lock is released however the press ends.
Leave(p) ==
  /\ pc' = [pc EXCEPT ![p] = "idle"]
  /\ lock' = [lock EXCEPT ![coordinator[p]] = Nobody]

\* The next of the days, in the report's order, or the end of the press.
Take(p, days) ==
  \/ /\ days = {}
     /\ Leave(p)
     /\ wanted' = [wanted EXCEPT ![p] = {}] /\ UNCHANGED day
  \/ \E d \in days :
       /\ day' = [day EXCEPT ![p] = d]
       /\ wanted' = [wanted EXCEPT ![p] = days \ {d}]
       /\ pc' = [pc EXCEPT ![p] = "get"] /\ UNCHANGED lock

Press(p) ==
  /\ pc[p] = "idle"
  /\ pc' = [pc EXCEPT ![p] = "waiting"]
  /\ coordinator' = [coordinator EXCEPT ![p] = current]
  /\ UNCHANGED <<current, lock, download, files, overlapped, faults>>

\* Mutant: the lock keeps nobody out.
FreeAlways(c) == TRUE

Free(c) == lock[c] = Nobody

Enter(p) ==
  /\ pc[p] = "waiting" /\ Free(coordinator[p])
  /\ lock' = [lock EXCEPT ![coordinator[p]] = p]
  /\ pc' = [pc EXCEPT ![p] = "report"]
  /\ overlapped' = (overlapped \/ \E q \in Presses : Inside(q) /\ coordinator[q] # coordinator[p])
  /\ UNCHANGED <<current, coordinator, download, files, faults>>

\* get_diary_report is answered.
Report(p) ==
  /\ pc[p] = "report"
  /\ pc' = [pc EXCEPT ![p] = "look"]
  /\ UNCHANGED <<current, lock, coordinator, download, files, overlapped, faults>>

\* Mutant: a day of which there is a partial file counts as saved.
MissingUnstarted == {d \in Days : saved[d] = NoFile /\ partial[d] = NoFile}

missing == {d \in Days : saved[d] = NoFile}

Look(p) ==
  /\ pc[p] = "look"
  /\ Take(p, missing)
  /\ UNCHANGED <<current, coordinator, got, handle, files, overlapped, faults>>

\* async_save: the link is good.
Get(p) ==
  /\ pc[p] = "get"
  /\ pc' = [pc EXCEPT ![p] = "open"]
  /\ UNCHANGED <<current, lock, coordinator, download, files, overlapped, faults>>

\* A partial file somebody has left is emptied.
Open(p) ==
  /\ pc[p] = "open"
  /\ partial' = [partial EXCEPT ![day[p]] = {}]
  /\ got' = [got EXCEPT ![p] = 0]
  /\ handle' = [handle EXCEPT ![p] = "partial"]
  /\ pc' = [pc EXCEPT ![p] = "write"]
  /\ UNCHANGED <<current, lock, coordinator, wanted, day, saved, overlapped, faults>>

Write(p) ==
  /\ pc[p] = "write" /\ got[p] < Chunks
  /\ Put(p, got[p] + 1)
  /\ got' = [got EXCEPT ![p] = @ + 1]
  /\ UNCHANGED <<current, lock, pc, coordinator, wanted, day, handle, overlapped, faults>>

\* The body has ended, and the file is closed.
Close(p) ==
  /\ pc[p] = "write" /\ got[p] = Chunks
  /\ pc' = [pc EXCEPT ![p] = "replace"]
  /\ UNCHANGED <<current, lock, coordinator, download, files, overlapped, faults>>

\* A partial file that is gone ends the press.
Replace(p) ==
  /\ pc[p] = "replace"
  /\ \/ /\ partial[day[p]] # NoFile
        /\ Rename(p) /\ Take(p, wanted[p])
     \/ /\ partial[day[p]] = NoFile
        /\ Leave(p) /\ UNCHANGED <<wanted, day, handle, files>>
  /\ UNCHANGED <<current, coordinator, got, overlapped, faults>>

\* Mutant: a download that breaks off is taken for one that has ended.
BreakOffAsEnd(p) ==
  /\ pc[p] \in {"get", "write"} /\ Fault
  /\ pc' = [pc EXCEPT ![p] = "replace"]
  /\ UNCHANGED <<current, lock, coordinator, download, files, overlapped>>

\* The network fails or is too slow: the file is closed and its name removed.
BreakOff(p) ==
  /\ pc[p] \in {"get", "write"} /\ Fault
  /\ Unlink(day[p]) /\ Leave(p)
  /\ UNCHANGED <<current, coordinator, wanted, day, got, saved, overlapped>>

\* Everything else that ends a press leaves the files as they are: no report, a
\* stale link, a disk that is full, a script that is stopped.
Raise(p) ==
  /\ pc[p] # "idle" /\ Fault
  /\ IF Inside(p) THEN Leave(p) ELSE pc' = [pc EXCEPT ![p] = "idle"] /\ UNCHANGED lock
  /\ UNCHANGED <<current, coordinator, download, files, overlapped>>
-----------------------------------------------------------------------------
(* Around them.                                                            *)

Reload ==
  /\ current < MaxReloads /\ current' = current + 1
  /\ UNCHANGED <<lock, pc, coordinator, download, files, overlapped, faults>>

\* Home Assistant stops or is killed, and starts: the files stay.
Restart ==
  /\ Fault
  /\ lock' = [c \in Coordinators |-> Nobody]
  /\ pc' = [p \in Presses |-> "idle"]
  /\ UNCHANGED <<current, coordinator, download, files, overlapped>>

Init ==
  /\ current = 0
  /\ lock = [c \in Coordinators |-> Nobody]
  /\ pc = [p \in Presses |-> "idle"]
  /\ coordinator = [p \in Presses |-> 0]
  /\ wanted = [p \in Presses |-> {}]
  /\ day \in [Presses -> Days]
  /\ got = [p \in Presses |-> 0]
  /\ handle = [p \in Presses |-> "gone"]
  /\ partial = [d \in Days |-> NoFile] /\ saved = [d \in Days |-> NoFile]
  /\ overlapped = FALSE /\ faults = 0

\* What the press does itself, once it is inside.
Step(p) ==
  Report(p) \/ Look(p) \/ Get(p) \/ Open(p) \/ Write(p) \/ Close(p) \/ Replace(p)

Next ==
  \/ \E p \in Presses : Press(p) \/ Enter(p) \/ Step(p) \/ BreakOff(p) \/ Raise(p)
  \/ Reload \/ Restart

Spec == Init /\ [][Next]_vars

\* The button is pressed again and again; asyncio.Lock lets presses in in turn,
\* and what a press awaits comes to an end.
FairSpec ==
  /\ Spec
  /\ WF_vars(\E p \in Presses : Press(p))
  /\ \A p \in Presses : SF_vars(Enter(p)) /\ WF_vars(Step(p))
-----------------------------------------------------------------------------
(* Properties.                                                             *)

\* The type invariant.  Whoever is inside holds the lock of its coordinator.
TypeOK ==
  /\ current \in Coordinators
  /\ lock \in [Coordinators -> Presses \cup {Nobody}]
  /\ pc \in [Presses -> Places]
  /\ coordinator \in [Presses -> Coordinators]
  /\ wanted \in [Presses -> SUBSET Days] /\ day \in [Presses -> Days]
  /\ got \in [Presses -> 0 .. Chunks]
  /\ handle \in [Presses -> {"partial", "saved", "gone"}]
  /\ partial \in [Days -> (SUBSET Whole) \cup {NoFile}]
  /\ saved \in [Days -> (SUBSET Whole) \cup {NoFile}]
  /\ overlapped \in BOOLEAN /\ faults \in 0 .. MaxFaults
  /\ \A p \in Presses : Inside(p) => lock[coordinator[p]] = p

\* A file in the media folder is a whole video, wherever presses failed, were
\* stopped or died with Home Assistant: "an interrupted download cannot leave a
\* half file that the next run then mistakes for a day already saved".  Not so
\* when a reload has let two presses in at once, each with a lock of its own.
SavedIsWhole == ~overlapped => \A d \in Days : saved[d] \in {NoFile, Whole}

\* No press downloads a day that is on disk by then, whoever saved it: "reading
\* the report and deciding what is missing have to see the same disk as the
\* downloads that follow them".
NeverTwice ==
  [][\A p \in Presses :
       ~overlapped /\ pc[p] = "open" /\ pc'[p] = "write" => saved[day[p]] = NoFile]_vars

\* If the button is pressed again and again, every day of the report is saved at
\* last and stays, whatever failed before and whatever partial files it left.
SavedAtLast == \A d \in Days : <>[](saved[d] # NoFile)
=============================================================================
