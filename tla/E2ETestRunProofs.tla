-------------------------- MODULE E2ETestRunProofs --------------------------
(***************************************************************************)
(* Proofs about E2ETestRunController, for every list of test cases, every  *)
(* set of replicas and every number of faults.                             *)
(***************************************************************************)
EXTENDS E2ETestRunController, TLAPS

-----------------------------------------------------------------------------
(* Type correctness *)

\* The test cases of a run can be counted.
LEMMA CountOfTestCases == N \in Nat
  BY TestCasesAssumption DEF N

\* What a position of the loops names is one of the names of the status.
LEMMA HereNameInNames ==
  ASSUME NEW r \in Replicas, idx[r] \in 1..N
  PROVE  HereName(r) \in Names
  BY DEF HereName, Here, Names

\* Appending a new entry keeps a status well typed.
LEMMA AppendTyped ==
  ASSUME NEW S, NEW n \in S, NEW ok \in BOOLEAN, NEW s \in Seq(Entry(S))
  PROVE  Append(s, NewEntry(n, ok)) \in Seq(Entry(S))
<1>1. NewEntry(n, ok) \in Entry(S)
  BY DEF NewEntry, Entry
<1> QED BY <1>1

\* Recording a cleanup changes one field of at most one entry.
LEMMA SetCleanupTyped ==
  ASSUME NEW S, NEW n, NEW ok \in BOOLEAN, NEW s \in Seq(Entry(S))
  PROVE  /\ SetCleanup(n, ok, s) \in Seq(Entry(S))
         /\ Len(SetCleanup(n, ok, s)) = Len(s)
<1> DEFINE t == SetCleanup(n, ok, s)
<1>1. DOMAIN s = 1..Len(s) /\ Len(s) \in Nat
  OBVIOUS
<1>2. DOMAIN t = 1..Len(s)
  BY <1>1 DEF SetCleanup
<1>3. \A i \in 1..Len(s) : t[i] \in Entry(S)
  <2> SUFFICES ASSUME NEW i \in 1..Len(s)
               PROVE  t[i] \in Entry(S)
    OBVIOUS
  <2>1. s[i] \in Entry(S)
    BY <1>1
  <2>2. CASE i = GetStatus(n, s)
    <3>1. t[i] = [s[i] EXCEPT !.cleanup = IF ok THEN "succeeded" ELSE "failed"]
      BY <1>1, <2>2 DEF SetCleanup
    <3> QED BY <2>1, <3>1 DEF Entry
  <2>3. CASE i # GetStatus(n, s)
    <3>1. t[i] = s[i]
      BY <1>1, <2>3 DEF SetCleanup
    <3> QED BY <2>1, <3>1
  <2> QED BY <2>2, <2>3
<1>4. t = [i \in 1..Len(s) |-> t[i]]
  BY <1>1, <1>2 DEF SetCleanup
<1>5. t \in Seq(Entry(S))
  BY <1>1, <1>3, <1>4
<1>6. Len(t) = Len(s)
  BY <1>1, <1>2, <1>5
<1> QED BY <1>5, <1>6

\* What the two updates write is well typed.
LEMMA UpdatesTyped ==
  ASSUME TypeOK, NEW r \in Replicas,
         pc[r] \in {"recordRun", "recordCleanup"}
  PROVE  /\ AfterRun(r) \in Seq(Entry(Names))
         /\ AfterCleanup(r) \in Seq(Entry(Names))
         /\ Updated(r) \in Seq(Entry(Names))
<1>1. idx[r] \in 1..N
  BY DEF TypeOK, InLoop
<1>2. HereName(r) \in Names
  BY <1>1, HereNameInNames
<1>3. snap[r].status \in Seq(Entry(Names)) /\ result[r] \in BOOLEAN
  BY DEF TypeOK
<1>4. AfterRun(r) \in Seq(Entry(Names))
  BY <1>2, <1>3, AppendTyped DEF AfterRun
<1>5. AfterCleanup(r) \in Seq(Entry(Names))
  BY <1>3, SetCleanupTyped DEF AfterCleanup
<1> QED BY <1>4, <1>5 DEF Updated

\* An accepted update keeps the object well typed and queues every replica.
LEMMA WriteTyped ==
  ASSUME TypeOK, NEW s \in Seq(Entry(Names)), Write(s)
  PROVE  /\ run' \in [exists : BOOLEAN, rv : Nat, status : Seq(Entry(Names))]
         /\ queue' \in [Replicas -> BOOLEAN]
  BY DEF TypeOK, Write

\* Reconcile's local variables are well typed when it returns.
LEMMA LeaveTyped ==
  ASSUME TypeOK, NEW r \in Replicas, Leave(r)
  PROVE  /\ pc' \in [Replicas -> Locations]
         /\ idx' \in [Replicas -> Nat]
         /\ \A q \in Replicas : InLoop(q)'
         /\ snap' \in [Replicas -> [rv : Nat, status : Seq(Entry(Names))]]
         /\ stale' \in [Replicas -> BOOLEAN]
         /\ result' \in [Replicas -> BOOLEAN]
<1>1. NoSnap \in [rv : Nat, status : Seq(Entry(Names))]
  BY DEF NoSnap
<1>2. snap' \in [Replicas -> [rv : Nat, status : Seq(Entry(Names))]]
  BY <1>1 DEF TypeOK, Leave
<1>3. pc' \in [Replicas -> Locations] /\ idx' \in [Replicas -> Nat]
  BY DEF TypeOK, Leave, Locations
<1>4. \A q \in Replicas : InLoop(q)'
  BY DEF TypeOK, Leave, InLoop, Locations
<1>5. stale' \in [Replicas -> BOOLEAN] /\ result' \in [Replicas -> BOOLEAN]
  BY DEF TypeOK, Leave
<1> QED BY <1>2, <1>3, <1>4, <1>5

\* Every step keeps the types, and the loops in their bounds.
LEMMA TypeOKInductive == TypeOK /\ [Next]_vars => TypeOK'
<1> SUFFICES ASSUME TypeOK, [Next]_vars
             PROVE  TypeOK'
  OBVIOUS
<1> USE CountOfTestCases, BoundsAssumption DEF Locations, Objects, NoSnap
<1>1. ASSUME NEW r \in Replicas, FetchFound(r) PROVE TypeOK'
  BY <1>1 DEF TypeOK, InLoop, FetchFound, GoTo
<1>2. ASSUME NEW r \in Replicas, FetchNotFound(r) PROVE TypeOK'
  BY <1>2 DEF TypeOK, InLoop, FetchNotFound, local
<1>3. ASSUME NEW r \in Replicas, RunAllDone(r) PROVE TypeOK'
  BY <1>3 DEF TypeOK, InLoop, RunAllDone, GoTo
<1>4. ASSUME NEW r \in Replicas, RunBreaksOff(r) PROVE TypeOK'
  BY <1>4 DEF TypeOK, InLoop, RunBreaksOff, Leave, ReturnError
<1>5. ASSUME NEW r \in Replicas, RunMalformed(r) PROVE TypeOK'
  BY <1>5 DEF TypeOK, InLoop, RunMalformed, Conclude
<1>6. ASSUME NEW r \in Replicas, RunSkipsPassed(r) PROVE TypeOK'
  BY <1>6 DEF TypeOK, InLoop, RunSkipsPassed, GoTo, AtReadable
<1>7. ASSUME NEW r \in Replicas, RunStopsAtFailed(r) PROVE TypeOK'
  BY <1>7 DEF TypeOK, InLoop, RunStopsAtFailed, GoTo, AtReadable
<1>9. ASSUME NEW r \in Replicas, CreateObject(r) PROVE TypeOK'
  <2>1. res' \in [Names -> Objects]
    BY <1>9 DEF TypeOK, CreateObject
  <2> QED BY <1>9, <2>1 DEF TypeOK, InLoop, CreateObject, AtCreate, AtRunCall, AtReadable
<1>10. ASSUME NEW r \in Replicas, RunFails(r) PROVE TypeOK'
  <2>1. res' \in [Names -> Objects]
    BY <1>10 DEF TypeOK, RunFails
  <2> QED BY <1>10, <2>1 DEF TypeOK, InLoop, RunFails, Conclude, AtRunCall, AtReadable
<1>11. ASSUME NEW r \in Replicas, PollReady(r) PROVE TypeOK'
  BY <1>11 DEF TypeOK, InLoop, PollReady, Conclude
<1>12. ASSUME NEW r \in Replicas, PollFails(r) PROVE TypeOK'
  BY <1>12 DEF TypeOK, InLoop, PollFails, Conclude
<1>13. ASSUME NEW r \in Replicas, RecordPassed(r) PROVE TypeOK'
  <2>1. AfterRun(r) \in Seq(Entry(Names)) /\ run.rv + 1 \in Nat
    BY <1>13, UpdatesTyped DEF TypeOK, RecordPassed
  <2>2. snap' \in [Replicas -> [rv : Nat, status : Seq(Entry(Names))]]
    BY <1>13, <2>1 DEF TypeOK, RecordPassed
  <2>3. /\ run' \in [exists : BOOLEAN, rv : Nat, status : Seq(Entry(Names))]
        /\ queue' \in [Replicas -> BOOLEAN]
    BY <1>13, <2>1, WriteTyped DEF RecordPassed
  <2> QED BY <1>13, <2>2, <2>3 DEF TypeOK, InLoop, RecordPassed, GoTo
<1>14. ASSUME NEW r \in Replicas, RecordFailed(r) PROVE TypeOK'
  <2>1. AfterRun(r) \in Seq(Entry(Names))
    BY <1>14, UpdatesTyped DEF RecordFailed
  <2>2. /\ run' \in [exists : BOOLEAN, rv : Nat, status : Seq(Entry(Names))]
        /\ queue' \in [Replicas -> BOOLEAN]
    BY <1>14, <2>1, WriteTyped DEF RecordFailed
  <2> QED BY <1>14, <2>2, LeaveTyped DEF TypeOK, RecordFailed
<1>15. ASSUME NEW r \in Replicas, DecideWait(r) PROVE TypeOK'
  BY <1>15 DEF TypeOK, InLoop, DecideWait, Leave, ReturnLater
<1>16. ASSUME NEW r \in Replicas, DecideStaleCleanup(r) PROVE TypeOK'
  BY <1>16 DEF TypeOK, InLoop, DecideStaleCleanup, GoTo
<1>17. ASSUME NEW r \in Replicas, DecideCleanup(r) PROVE TypeOK'
  BY <1>17 DEF TypeOK, InLoop, DecideCleanup, GoTo
<1>18. ASSUME NEW r \in Replicas, CleanupAllDone(r) PROVE TypeOK'
  BY <1>18 DEF TypeOK, InLoop, CleanupAllDone, Leave, ReturnDone
<1>19. ASSUME NEW r \in Replicas, CleanupSkipsUnregistered(r) PROVE TypeOK'
  BY <1>19 DEF TypeOK, InLoop, CleanupSkipsUnregistered, GoTo
<1>20. ASSUME NEW r \in Replicas, CleanupUnreadable(r) PROVE TypeOK'
  BY <1>20 DEF TypeOK, InLoop, CleanupUnreadable, Leave, ReturnError
<1>21. ASSUME NEW r \in Replicas, CleanupBreaks(r) PROVE TypeOK'
  BY <1>21 DEF TypeOK, InLoop, CleanupBreaks, Leave, ReturnDone, AtReadableCleanup, Cleanable
<1>22. ASSUME NEW r \in Replicas, CleanupSkips(r) PROVE TypeOK'
  BY <1>22 DEF TypeOK, InLoop, CleanupSkips, GoTo, AtReadableCleanup, Cleanable
<1>23. ASSUME NEW r \in Replicas, CleanupNothing(r) PROVE TypeOK'
  BY <1>23 DEF TypeOK, InLoop, CleanupNothing, Conclude, AtReadableCleanup, AtCleanup, Cleanable
<1>24. ASSUME NEW r \in Replicas, DeleteNotFound(r) PROVE TypeOK'
  BY <1>24 DEF TypeOK, InLoop, DeleteNotFound, Conclude, AtReadableCleanup, AtCleanup, Cleanable
<1>25. ASSUME NEW r \in Replicas, DeleteObject(r) PROVE TypeOK'
  <2>1. res' \in [Names -> Objects]
    BY <1>25 DEF TypeOK, DeleteObject
  <2> QED BY <1>25, <2>1 DEF TypeOK, InLoop, DeleteObject, AtCleanup, AtReadableCleanup
<1>26. ASSUME NEW r \in Replicas, WaitGone(r) PROVE TypeOK'
  BY <1>26 DEF TypeOK, InLoop, WaitGone, Conclude
<1>27. ASSUME NEW r \in Replicas, RecordCleaned(r) PROVE TypeOK'
  <2>1. AfterCleanup(r) \in Seq(Entry(Names)) /\ run.rv + 1 \in Nat
    BY <1>27, UpdatesTyped DEF TypeOK, RecordCleaned
  <2>2. snap' \in [Replicas -> [rv : Nat, status : Seq(Entry(Names))]]
    BY <1>27, <2>1 DEF TypeOK, RecordCleaned
  <2>3. /\ run' \in [exists : BOOLEAN, rv : Nat, status : Seq(Entry(Names))]
        /\ queue' \in [Replicas -> BOOLEAN]
    BY <1>27, <2>1, WriteTyped DEF RecordCleaned
  <2> QED BY <1>27, <2>2, <2>3 DEF TypeOK, InLoop, RecordCleaned, GoTo
<1>28. ASSUME NEW r \in Replicas, RecordCleanupError(r) PROVE TypeOK'
  <2>1. AfterCleanup(r) \in Seq(Entry(Names))
    BY <1>28, UpdatesTyped DEF RecordCleanupError
  <2>2. /\ run' \in [exists : BOOLEAN, rv : Nat, status : Seq(Entry(Names))]
        /\ queue' \in [Replicas -> BOOLEAN]
    BY <1>28, <2>1, WriteTyped DEF RecordCleanupError
  <2> QED BY <1>28, <2>2, LeaveTyped DEF TypeOK, RecordCleanupError
<1>29. ASSUME NEW r \in Replicas, UpdateRejected(r) PROVE TypeOK'
  BY <1>29 DEF TypeOK, InLoop, UpdateRejected, Leave, ReturnError, AtUpdate
<1>30. ASSUME NEW r \in Replicas, FetchFails(r) PROVE TypeOK'
  BY <1>30 DEF TypeOK, InLoop, FetchFails, Fault, local
<1>31. ASSUME NEW r \in Replicas, DeleteFails(r) PROVE TypeOK'
  <2>1. res' \in [Names -> Objects]
    BY <1>31 DEF TypeOK, DeleteFails
  <2> QED BY <1>31, <2>1 DEF TypeOK, InLoop, DeleteFails, Fault, Conclude, AtCleanup, AtReadableCleanup
<1>32. ASSUME NEW r \in Replicas, WaitGoneFails(r) PROVE TypeOK'
  BY <1>32 DEF TypeOK, InLoop, WaitGoneFails, Fault, Conclude
<1>33. ASSUME NEW r \in Replicas, UpdateFails(r) PROVE TypeOK'
  BY <1>33 DEF TypeOK, InLoop, UpdateFails, Fault, Leave, ReturnError, AtUpdate
<1>34. ASSUME NEW r \in Replicas, UpdateLost(r) PROVE TypeOK'
  BY <1>34, UpdatesTyped DEF TypeOK, InLoop, UpdateLost, Fault, Leave, Write, AtUpdate
<1>35. ASSUME NEW r \in Replicas, Crash(r) PROVE TypeOK'
  BY <1>35 DEF TypeOK, InLoop, Crash, Fault, Leave
<1>36. ASSUME NEW r \in Replicas, Resync(r) PROVE TypeOK'
  BY <1>36 DEF TypeOK, InLoop, local, Resync
<1>37. ASSUME NEW r \in Replicas, TimerFires(r) PROVE TypeOK'
  BY <1>37 DEF TypeOK, InLoop, local, TimerFires
<1>38. ASSUME NEW n \in Names, BecomeReady(n) PROVE TypeOK'
  BY <1>38 DEF TypeOK, InLoop, local, BecomeReady
<1>39. ASSUME NEW n \in Names, FinishDeletion(n) PROVE TypeOK'
  BY <1>39 DEF TypeOK, InLoop, local, FinishDeletion
<1>40. CASE Age
  BY <1>40 DEF TypeOK, InLoop, local, Age
<1>41. CASE UserDeletes
  BY <1>41 DEF TypeOK, InLoop, local, UserDeletes
<1>42. CASE UNCHANGED vars
  BY <1>42 DEF TypeOK, InLoop, local, vars
<1> QED
  BY <1>1, <1>2, <1>3, <1>4, <1>5, <1>6, <1>7, <1>9, <1>10, <1>11, <1>12, <1>13, <1>14, <1>15, <1>16, <1>17, <1>18, <1>19, <1>20, <1>21, <1>22, <1>23, <1>24, <1>25, <1>26, <1>27, <1>28, <1>29, <1>30, <1>31, <1>32, <1>33, <1>34, <1>35, <1>36, <1>37, <1>38, <1>39, <1>40, <1>41, <1>42
  DEF Next, Worker, RunStep, CleanupStep, FaultStep, Environment

\* TypeOK holds in every reachable state: the fields of the run, the
\* snapshots and the positions of both loops of every replica are in range.
THEOREM TypeCorrect == Spec => []TypeOK
<1>1. Init => TypeOK
  <2> SUFFICES ASSUME Init
               PROVE  TypeOK
    OBVIOUS
  <2>1. NoSnap \in [rv : Nat, status : Seq(Entry(Names))]
    BY DEF NoSnap
  <2>2. run \in [exists : BOOLEAN, rv : Nat, status : Seq(Entry(Names))]
    BY DEF Init
  <2>3. faults \in 0..MaxFaults
    BY BoundsAssumption DEF Init
  <2>4. snap \in [Replicas -> [rv : Nat, status : Seq(Entry(Names))]]
    BY <2>1 DEF Init
  <2> QED BY <2>2, <2>3, <2>4 DEF Init, TypeOK, InLoop, Locations, Objects
<1> QED BY <1>1, TypeOKInductive, PTL DEF Spec
=============================================================================
