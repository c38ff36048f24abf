---------------------- MODULE E2ETestRunJournalProofs ----------------------
(***************************************************************************)
(* The status of a run is a journal, for every list of test cases (readable*)
(* or not, with repetitions or not) and every set of replicas.  The reason *)
(* is optimistic concurrency: an update is accepted only if the snapshot it*)
(* was computed from is still the stored status.                           *)
(***************************************************************************)
EXTENDS E2ETestRunProofs

\* the entry a cleanup in progress is about, in the replica's snapshot
Position(r) == GetStatus(HereName(r), snap[r].status)

\* A snapshot is never newer than the stored run, and equal to it if not older.
SnapCurrent(r) ==
    pc[r] # "idle" => /\ snap[r].rv <= run.rv
                      /\ snap[r].rv = run.rv => snap[r].status = run.status

\* A cleanup in progress is about an entry not yet recorded as cleaned up.
CleanupPending(r) ==
    pc[r] \in {"waitGone", "recordCleanup"} /\ Position(r) \in DOMAIN snap[r].status =>
        ~isTestCaseCleanupSucceeded(snap[r].status[Position(r)])

JournalInv == \A r \in Replicas : SnapCurrent(r) /\ CleanupPending(r)

-----------------------------------------------------------------------------
\* A status is a journal of itself.
LEMMA JournalReflexive ==
  ASSUME NEW s \in Seq(Entry(Names))
  PROVE  Journal(s, s)
  BY DEF Journal

\* Appending an entry leaves the journal before it alone.
LEMMA JournalAppend ==
  ASSUME NEW s \in Seq(Entry(Names)), NEW e \in Entry(Names)
  PROVE  Journal(s, Append(s, e))
  BY DEF Journal

\* What SetCleanup leaves alone, and the one thing it changes.
LEMMA SetCleanupEffect ==
  ASSUME NEW n, NEW ok \in BOOLEAN, NEW s \in Seq(Entry(Names))
  PROVE  LET t == SetCleanup(n, ok, s) IN
         \A i \in DOMAIN s :
            /\ t[i].name = s[i].name /\ t[i].run = s[i].run /\ t[i].exports = s[i].exports
            /\ i # GetStatus(n, s) => t[i] = s[i]
<1> DEFINE t == SetCleanup(n, ok, s)
<1> SUFFICES ASSUME NEW i \in DOMAIN s
             PROVE  /\ t[i].name = s[i].name /\ t[i].run = s[i].run
                    /\ t[i].exports = s[i].exports
                    /\ i # GetStatus(n, s) => t[i] = s[i]
  OBVIOUS
<1>1. s[i] \in Entry(Names)
  OBVIOUS
<1>2. CASE i = GetStatus(n, s)
  <2>1. t[i] = [s[i] EXCEPT !.cleanup = IF ok THEN "succeeded" ELSE "failed"]
    BY <1>2 DEF SetCleanup
  <2> QED BY <1>1, <1>2, <2>1 DEF Entry
<1>3. CASE i # GetStatus(n, s)
  BY <1>3 DEF SetCleanup
<1> QED BY <1>2, <1>3

\* Recording a cleanup is a journal step if the entry was not clean before.
LEMMA JournalSetCleanup ==
  ASSUME NEW n, NEW ok \in BOOLEAN, NEW s \in Seq(Entry(Names)),
         GetStatus(n, s) \in DOMAIN s =>
            ~isTestCaseCleanupSucceeded(s[GetStatus(n, s)])
  PROVE  Journal(s, SetCleanup(n, ok, s))
<1> DEFINE t == SetCleanup(n, ok, s)
<1>1. Len(s) \in Nat /\ Len(s) <= Len(t)
  BY SetCleanupTyped
<1>2. ASSUME NEW i \in DOMAIN s
      PROVE  /\ t[i].name = s[i].name /\ t[i].run = s[i].run /\ t[i].exports = s[i].exports
             /\ isTestCaseCleanupSucceeded(s[i]) => isTestCaseCleanupSucceeded(t[i])
  BY SetCleanupEffect
<1>3. Journal(s, t)
  <2> HIDE DEF t
  <2> QED BY <1>1, <1>2 DEF Journal
<1> QED BY <1>3
-----------------------------------------------------------------------------
\* Every step keeps the snapshots in step with the stored run.
LEMMA JournalInvInductive == TypeOK /\ JournalInv /\ [Next]_vars => JournalInv'
<1> SUFFICES ASSUME TypeOK, JournalInv, [Next]_vars
             PROVE  JournalInv'
  OBVIOUS
<1> USE DEF JournalInv, SnapCurrent, CleanupPending, Position, HereName, Here
<1>1. ASSUME NEW r \in Replicas, FetchFound(r) PROVE JournalInv'
  BY <1>1 DEF TypeOK, InLoop, FetchFound, GoTo
<1>2. ASSUME NEW r \in Replicas, FetchNotFound(r) PROVE JournalInv'
  BY <1>2 DEF TypeOK, InLoop, FetchNotFound, local
<1>3. ASSUME NEW r \in Replicas, RunAllDone(r) PROVE JournalInv'
  BY <1>3 DEF TypeOK, InLoop, RunAllDone, GoTo
<1>4. ASSUME NEW r \in Replicas, RunBreaksOff(r) PROVE JournalInv'
  BY <1>4 DEF TypeOK, InLoop, RunBreaksOff, Leave, ReturnError
<1>5. ASSUME NEW r \in Replicas, RunMalformed(r) PROVE JournalInv'
  BY <1>5 DEF TypeOK, InLoop, RunMalformed, Conclude
<1>6. ASSUME NEW r \in Replicas, RunSkipsPassed(r) PROVE JournalInv'
  BY <1>6 DEF TypeOK, InLoop, RunSkipsPassed, GoTo, AtReadable
<1>7. ASSUME NEW r \in Replicas, RunStopsAtFailed(r) PROVE JournalInv'
  BY <1>7 DEF TypeOK, InLoop, RunStopsAtFailed, GoTo, AtReadable
<1>9. ASSUME NEW r \in Replicas, CreateObject(r) PROVE JournalInv'
  BY <1>9 DEF TypeOK, InLoop, CreateObject, AtReadable, AtRunCall, AtCreate
<1>10. ASSUME NEW r \in Replicas, RunFails(r) PROVE JournalInv'
  BY <1>10 DEF TypeOK, InLoop, RunFails, Conclude, AtReadable, AtRunCall, AtCreate
<1>11. ASSUME NEW r \in Replicas, PollReady(r) PROVE JournalInv'
  BY <1>11 DEF TypeOK, InLoop, PollReady, Conclude
<1>12. ASSUME NEW r \in Replicas, PollFails(r) PROVE JournalInv'
  BY <1>12 DEF TypeOK, InLoop, PollFails, Conclude
<1>13. ASSUME NEW r \in Replicas, RecordPassed(r) PROVE JournalInv'
  BY <1>13 DEF TypeOK, InLoop, RecordPassed, GoTo, Write, Accepts
<1>14. ASSUME NEW r \in Replicas, RecordFailed(r) PROVE JournalInv'
  BY <1>14 DEF TypeOK, InLoop, RecordFailed, Leave, Write, Accepts
<1>15. ASSUME NEW r \in Replicas, DecideWait(r) PROVE JournalInv'
  BY <1>15 DEF TypeOK, InLoop, DecideWait, Leave, ReturnLater
<1>16. ASSUME NEW r \in Replicas, DecideStaleCleanup(r) PROVE JournalInv'
  BY <1>16 DEF TypeOK, InLoop, DecideStaleCleanup, GoTo
<1>17. ASSUME NEW r \in Replicas, DecideCleanup(r) PROVE JournalInv'
  BY <1>17 DEF TypeOK, InLoop, DecideCleanup, GoTo
<1>18. ASSUME NEW r \in Replicas, CleanupAllDone(r) PROVE JournalInv'
  BY <1>18 DEF TypeOK, InLoop, CleanupAllDone, Leave, ReturnDone
<1>19. ASSUME NEW r \in Replicas, CleanupSkipsUnregistered(r) PROVE JournalInv'
  BY <1>19 DEF TypeOK, InLoop, CleanupSkipsUnregistered, GoTo
<1>20. ASSUME NEW r \in Replicas, CleanupUnreadable(r) PROVE JournalInv'
  BY <1>20 DEF TypeOK, InLoop, CleanupUnreadable, Leave, ReturnError
<1>21. ASSUME NEW r \in Replicas, CleanupBreaks(r) PROVE JournalInv'
  BY <1>21 DEF TypeOK, InLoop, CleanupBreaks, Leave, ReturnDone, AtReadableCleanup, Cleanable
<1>22. ASSUME NEW r \in Replicas, CleanupSkips(r) PROVE JournalInv'
  BY <1>22 DEF TypeOK, InLoop, CleanupSkips, GoTo, AtReadableCleanup, Cleanable
<1>23. ASSUME NEW r \in Replicas, CleanupNothing(r) PROVE JournalInv'
  BY <1>23 DEF TypeOK, InLoop, CleanupNothing, Conclude, AtReadableCleanup, AtCleanup, Cleanable, HereEntry, HereFound,
      Readable, RecordName
<1>24. ASSUME NEW r \in Replicas, DeleteNotFound(r) PROVE JournalInv'
  BY <1>24 DEF TypeOK, InLoop, DeleteNotFound, Conclude, AtReadableCleanup, AtCleanup, Cleanable, HereEntry, HereFound,
      Readable, RecordName
<1>25. ASSUME NEW r \in Replicas, DeleteObject(r) PROVE JournalInv'
  BY <1>25 DEF TypeOK, InLoop, DeleteObject, AtReadableCleanup, AtCleanup, Cleanable, HereEntry, HereFound,
      Readable, RecordName
<1>26. ASSUME NEW r \in Replicas, WaitGone(r) PROVE JournalInv'
  BY <1>26 DEF TypeOK, InLoop, WaitGone, Conclude
<1>27. ASSUME NEW r \in Replicas, RecordCleaned(r) PROVE JournalInv'
  BY <1>27 DEF TypeOK, InLoop, RecordCleaned, GoTo, Write, Accepts
<1>28. ASSUME NEW r \in Replicas, RecordCleanupError(r) PROVE JournalInv'
  BY <1>28 DEF TypeOK, InLoop, RecordCleanupError, Leave, Write, Accepts
<1>29. ASSUME NEW r \in Replicas, UpdateRejected(r) PROVE JournalInv'
  BY <1>29 DEF TypeOK, InLoop, UpdateRejected, Leave, ReturnError, AtUpdate
<1>30. ASSUME NEW r \in Replicas, FetchFails(r) PROVE JournalInv'
  BY <1>30 DEF TypeOK, InLoop, FetchFails, Fault, local
<1>31. ASSUME NEW r \in Replicas, DeleteFails(r) PROVE JournalInv'
  BY <1>31 DEF TypeOK, InLoop, DeleteFails, Fault, Conclude, AtReadableCleanup, AtCleanup, Cleanable, HereEntry, HereFound,
      Readable, RecordName
<1>32. ASSUME NEW r \in Replicas, WaitGoneFails(r) PROVE JournalInv'
  BY <1>32 DEF TypeOK, InLoop, WaitGoneFails, Fault, Conclude
<1>33. ASSUME NEW r \in Replicas, UpdateFails(r) PROVE JournalInv'
  BY <1>33 DEF TypeOK, InLoop, UpdateFails, Fault, Leave, ReturnError, AtUpdate
<1>34. ASSUME NEW r \in Replicas, UpdateLost(r) PROVE JournalInv'
  BY <1>34 DEF TypeOK, InLoop, UpdateLost, Fault, Leave, Write, AtUpdate, Accepts
<1>35. ASSUME NEW r \in Replicas, Crash(r) PROVE JournalInv'
  BY <1>35 DEF TypeOK, InLoop, Crash, Fault, Leave
<1>36. ASSUME NEW r \in Replicas, Resync(r) PROVE JournalInv'
  BY <1>36 DEF TypeOK, local, Resync
<1>37. ASSUME NEW r \in Replicas, TimerFires(r) PROVE JournalInv'
  BY <1>37 DEF TypeOK, local, TimerFires
<1>38. ASSUME NEW n \in Names, BecomeReady(n) PROVE JournalInv'
  BY <1>38 DEF TypeOK, local, BecomeReady
<1>39. ASSUME NEW n \in Names, FinishDeletion(n) PROVE JournalInv'
  BY <1>39 DEF TypeOK, local, FinishDeletion
<1>40. CASE Age
  BY <1>40 DEF TypeOK, local, Age
<1>41. CASE UserDeletes
  BY <1>41 DEF TypeOK, local, UserDeletes
<1>42. CASE UNCHANGED vars
  BY <1>42 DEF TypeOK, local, vars
<1> QED
  BY <1>1, <1>2, <1>3, <1>4, <1>5, <1>6, <1>7, <1>9, <1>10, <1>11, <1>12, <1>13, <1>14, <1>15, <1>16, <1>17, <1>18, <1>19, <1>20, <1>21, <1>22, <1>23, <1>24, <1>25, <1>26, <1>27, <1>28, <1>29, <1>30, <1>31, <1>32, <1>33, <1>34, <1>35, <1>36, <1>37, <1>38, <1>39, <1>40, <1>41, <1>42
  DEF Next, Worker, RunStep, CleanupStep, FaultStep, Environment

\* Every step leaves the status as it is or extends the journal.
LEMMA JournalStep ==
  ASSUME TypeOK, JournalInv, [Next]_vars
  PROVE  Journal(run.status, run.status')
<1>1. run.status \in Seq(Entry(Names))
  BY DEF TypeOK
<1>2. Journal(run.status, run.status)
  BY <1>1, JournalReflexive
<1>3. ASSUME NEW r \in Replicas, pc[r] = "recordRun", Accepts(r)
      PROVE  Journal(run.status, AfterRun(r))
  <2>1. snap[r].status = run.status /\ snap[r].rv = run.rv
    BY <1>3 DEF JournalInv, SnapCurrent, Accepts
  <2>2. HereName(r) \in Names
    BY <1>3, HereNameInNames DEF TypeOK, InLoop
  <2>3. NewEntry(HereName(r), result[r]) \in Entry(Names)
    BY <2>2 DEF TypeOK, NewEntry, Entry
  <2> QED BY <1>1, <2>1, <2>3, JournalAppend DEF AfterRun
<1>4. ASSUME NEW r \in Replicas, pc[r] = "recordCleanup", Accepts(r)
      PROVE  Journal(run.status, AfterCleanup(r))
  <2>1. snap[r].status = run.status
    BY <1>4 DEF JournalInv, SnapCurrent, Accepts
  <2>2. GetStatus(HereName(r), run.status) \in DOMAIN run.status =>
            ~isTestCaseCleanupSucceeded(run.status[GetStatus(HereName(r), run.status)])
    BY <1>4, <2>1 DEF JournalInv, CleanupPending, Position
  <2>3. result[r] \in BOOLEAN
    BY DEF TypeOK
  <2> QED BY <1>1, <2>1, <2>2, <2>3, JournalSetCleanup DEF AfterCleanup
<1>5. ASSUME NEW r \in Replicas, Worker(r) PROVE Journal(run.status, run.status')
  <2>1. CASE RecordPassed(r)
    BY <1>3, <2>1 DEF RecordPassed, Write
  <2>2. CASE RecordFailed(r)
    BY <1>3, <2>2 DEF RecordFailed, Write
  <2>3. CASE RecordCleaned(r)
    BY <1>4, <2>3 DEF RecordCleaned, Write
  <2>4. CASE RecordCleanupError(r)
    BY <1>4, <2>4 DEF RecordCleanupError, Write
  <2>5. CASE UNCHANGED run
    BY <1>2, <2>5
  <2> QED
    BY <1>5, <2>1, <2>2, <2>3, <2>4, <2>5
    DEF Worker, RunStep, CleanupStep, FetchFound, FetchNotFound, RunAllDone,
        RunBreaksOff, RunMalformed, RunSkipsPassed, RunStopsAtFailed, RunFails,
        CreateObject, PollReady, PollFails, DecideWait, DecideStaleCleanup,
        DecideCleanup, CleanupAllDone, CleanupSkipsUnregistered, CleanupUnreadable,
        CleanupBreaks, CleanupSkips, CleanupNothing, DeleteNotFound, DeleteObject,
        WaitGone, UpdateRejected
<1>6. ASSUME NEW r \in Replicas, FaultStep(r) PROVE Journal(run.status, run.status')
  <2>1. CASE UpdateLost(r)
    BY <1>3, <1>4, <2>1 DEF UpdateLost, Updated, AtUpdate, Write
  <2>2. CASE UNCHANGED run
    BY <1>2, <2>2
  <2> QED
    BY <1>6, <2>1, <2>2
    DEF FaultStep, FetchFails, DeleteFails, WaitGoneFails, UpdateFails, Crash
<1>7. CASE Environment
  <2>1. run.status' = run.status
    BY <1>7 DEF Environment, Resync, TimerFires, BecomeReady, FinishDeletion, Age,
                UserDeletes, TypeOK
  <2> QED BY <1>2, <2>1
<1>8. CASE UNCHANGED vars
  BY <1>2, <1>8 DEF vars
<1> QED BY <1>5, <1>6, <1>7, <1>8 DEF Next

\* A snapshot of the current version always has the current status.
LEMMA JournalInvariant == Spec => [](TypeOK /\ JournalInv)
<1>1. Init => JournalInv
  BY DEF Init, JournalInv, SnapCurrent, CleanupPending
<1> QED BY <1>1, TypeCorrect, JournalInvInductive, PTL DEF Spec

(***************************************************************************)
(* No replica, crash, conflict or lost answer rewrites a verdict, drops an *)
(* entry or revokes a successful cleanup.                                  *)
(***************************************************************************)
THEOREM StatusIsAJournal == Spec => StatusIsJournal
<1>1. TypeOK /\ JournalInv /\ [Next]_vars => Journal(run.status, run.status')
  BY JournalStep
<1>2. TypeOK /\ JournalInv /\ [Next]_vars => [Journal(run.status, run.status')]_vars
  BY <1>1
<1> QED BY <1>2, JournalInvariant, PTL DEF Spec, StatusIsJournal
=============================================================================
