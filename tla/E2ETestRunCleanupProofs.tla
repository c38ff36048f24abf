---------------------- MODULE E2ETestRunCleanupProofs ----------------------
(***************************************************************************)
(* What the cleanup loop leaves behind, for any number of replicas: when   *)
(* it ends, its snapshot has nothing left to clean, or the replica is      *)
(* still queued, so a run with work left is never forgotten.  Nor is a run *)
(* with a config that cannot be read, at which both loops end.             *)
(***************************************************************************)
EXTENDS E2ETestRunOrderProofs, WellFoundedInduction

Cleaning(r) == pc[r] \in {"clean", "waitGone", "recordCleanup"}

\* The entries the cleanup loop has passed are cleaned up in its snapshot.
LaterCleaned(r) ==
    Cleaning(r) => \A j \in DOMAIN snap[r].status :
        j > idx[r] => isTestCaseCleanupSucceeded(snap[r].status[j])

\* The normal cleanup is chosen for passed runs, or where nothing can be stale.
NotStale(r) == Cleaning(r) /\ ~stale[r] => AllPassed(snap[r].status) \/ ~Stale(r)

\* A worker with an outdated snapshot will look at the run again.
Notified(r) == pc[r] # "idle" /\ snap[r].rv # run.rv => queue[r]

LoopAt(r) == LaterCleaned(r) /\ NotStale(r) /\ Notified(r)
LoopInv   == \A r \in Replicas : LoopAt(r)

\* Some test case of the registry has a config that cannot be read.
Malformed(m)   == Registered(SpecTestCases[m]) /\ SpecTestCases[m].config = "malformed"
SomeUnreadable == \E m \in 1..N : Malformed(m)

(***************************************************************************)
(* At a test case m whose config cannot be read, both loops end: the run   *)
(* loop gets no further, so a verdict is always a failure, and the stale   *)
(* cleanup never gets below it.                                            *)
(***************************************************************************)
Blocked(r, m) ==
    /\ pc[r] = "run" => idx[r] <= m
    /\ pc[r] = "poll" => idx[r] < m
    /\ pc[r] = "recordRun" => idx[r] <= m /\ (result[r] => idx[r] # m)
    /\ pc[r] = "decide" \/ Cleaning(r) => HasFailed(snap[r].status)
    /\ Cleaning(r) /\ ~stale[r] => ~Stale(r)
    /\ pc[r] = "clean" /\ stale[r] => idx[r] >= m
    /\ pc[r] \in {"waitGone", "recordCleanup"} /\ stale[r] => idx[r] > m
    /\ Notified(r)
BlockedInv(m) == \A r \in Replicas : Blocked(r, m)

-----------------------------------------------------------------------------
\* The entry an update of a cleanup changes is the one of its test case.
LEMMA AfterCleanupEffect ==
  ASSUME TypeOK, Distinct, OrderInv, NEW r \in Replicas, pc[r] = "recordCleanup"
  PROVE  LET s == snap[r].status  t == AfterCleanup(r) IN
         /\ DOMAIN t = DOMAIN s /\ Len(t) = Len(s) /\ s \in Stati /\ t \in Stati
         /\ idx[r] \in DOMAIN s
         /\ \A j \in DOMAIN s : /\ t[j].name = s[j].name /\ t[j].run = s[j].run
                                /\ t[j].exports = s[j].exports
                                /\ j # idx[r] => t[j] = s[j]
         /\ isTestCaseCleanupSucceeded(t[idx[r]]) <=> result[r]
<1> DEFINE s == snap[r].status
           t == AfterCleanup(r)
<1>1. s \in Stati /\ result[r] \in BOOLEAN /\ idx[r] \in 1..N /\ DOMAIN s = 1..Len(s)
  BY DEF TypeOK, Stati, InLoop
<1>2. idx[r] \in DOMAIN s /\ Good(s)
  BY DEF OrderInv, PhaseInv, AtEntry, SnapGood
<1>3. GetStatus(HereName(r), s) = idx[r]
  BY <1>1, <1>2, FoundInPrefix DEF HereName, Here
<1>4. t = SetCleanup(HereName(r), result[r], s)
  BY DEF AfterCleanup
<1>5. t \in Stati /\ Len(t) = Len(s)
  BY <1>1, <1>4, SetCleanupTyped DEF Stati
<1>6. DOMAIN t = DOMAIN s
  BY <1>1, <1>5 DEF Stati
<1>7. \A j \in DOMAIN s : /\ t[j].name = s[j].name /\ t[j].run = s[j].run
                          /\ t[j].exports = s[j].exports
                          /\ j # idx[r] => t[j] = s[j]
  BY <1>1, <1>3, <1>4, SetCleanupEffect DEF Stati
<1>8. t[idx[r]] = [s[idx[r]] EXCEPT !.cleanup = IF result[r] THEN "succeeded" ELSE "failed"]
  BY <1>1, <1>2, <1>3, <1>4 DEF SetCleanup
<1>9. s[idx[r]] \in Entry(Names)
  BY <1>1, <1>2 DEF Stati
<1>10. isTestCaseCleanupSucceeded(t[idx[r]]) <=> result[r]
  BY <1>1, <1>8, <1>9 DEF isTestCaseCleanupSucceeded, Entry
<1> QED BY <1>1, <1>2, <1>5, <1>6, <1>7, <1>10

\* Whoever changes the stored run queues it at every replica; a step of one
\* replica takes it out of no other queue and stops no other timer.
LEMMA WritesNotify ==
  ASSUME TypeOK, NEW r \in Replicas, Worker(r) \/ FaultStep(r)
  PROVE  /\ run' = run \/ \A q \in Replicas : queue'[q]
         /\ \A q \in Replicas : q # r => (queue[q] => queue'[q]) /\ timer'[q] = timer[q]
<1> USE DEF TypeOK, local, Fault, Leave, ReturnDone, ReturnError, ReturnLater, GoTo, Conclude, Write
<1>1. CASE RunStep(r)
  BY <1>1 DEF RunStep, RunAllDone, RunBreaksOff, RunMalformed, RunSkipsPassed,
      RunStopsAtFailed, RunFails, CreateObject, PollReady,
      PollFails, RecordPassed, RecordFailed
<1>2. CASE CleanupStep(r)
  BY <1>2 DEF CleanupStep, DecideWait, DecideStaleCleanup, DecideCleanup, CleanupAllDone,
      CleanupSkipsUnregistered, CleanupUnreadable, CleanupBreaks,
      CleanupSkips, CleanupNothing, DeleteNotFound, DeleteObject,
      WaitGone, RecordCleaned, RecordCleanupError
<1>3. CASE FetchFound(r) \/ FetchNotFound(r) \/ UpdateRejected(r)
  BY <1>3 DEF FetchFound, FetchNotFound, UpdateRejected
<1>4. CASE FaultStep(r)
  BY <1>4 DEF FaultStep, FetchFails, DeleteFails, WaitGoneFails, UpdateFails, UpdateLost,
      Crash
<1> QED BY <1>1, <1>2, <1>3, <1>4 DEF Worker

\* A replica whose Reconcile returns is not in a loop.
LEMMA LoopLeft ==
  ASSUME TypeOK, NEW r \in Replicas, Leave(r)
  PROVE  LoopAt(r)'
  BY DEF TypeOK, Leave, LoopAt, LaterCleaned, NotStale, Notified, Cleaning

\* A replica that does nothing keeps its part of the invariant.
LEMMA LoopKept ==
  ASSUME TypeOK, NEW q \in Replicas, LoopAt(q),
         pc'[q] = pc[q], idx'[q] = idx[q], snap'[q] = snap[q], stale'[q] = stale[q],
         run'.rv = run.rv \/ queue'[q], queue[q] => queue'[q]
  PROVE  LoopAt(q)'
  BY DEF LoopAt, LaterCleaned, NotStale, Notified, Cleaning, Stale

\* The steps of the acting replica outside the cleanup loops.
LEMMA LoopOutside ==
  ASSUME TypeOK, NEW r \in Replicas, LoopAt(r),
         RunStep(r) \/ FetchFound(r) \/ FetchNotFound(r) \/ UpdateRejected(r)
  PROVE  LoopAt(r)'
<1> USE DEF LoopAt, LaterCleaned, NotStale, Notified, Cleaning
<1>1. CASE RunAllDone(r) \/ RunSkipsPassed(r) \/ RunStopsAtFailed(r)
  BY <1>1 DEF RunAllDone, RunSkipsPassed, RunStopsAtFailed, GoTo, TypeOK, AtReadable
<1>2. CASE RunBreaksOff(r) \/ RecordFailed(r) \/ UpdateRejected(r)
  BY <1>2, LoopLeft DEF RunBreaksOff, RecordFailed, UpdateRejected, ReturnError
<1>3. CASE RunMalformed(r) \/ RunFails(r) \/ PollReady(r) \/ PollFails(r)
  BY <1>3 DEF RunMalformed, RunFails, PollReady, PollFails, Conclude, TypeOK, AtRunCall, AtReadable
<1>4. CASE CreateObject(r)
  BY <1>4 DEF CreateObject, TypeOK, AtCreate, AtRunCall, AtReadable
<1>5. CASE RecordPassed(r)
  <2>1. pc'[r] = "run" /\ snap'[r].rv = run.rv + 1 /\ run'.rv = run.rv + 1
    BY <1>5 DEF RecordPassed, GoTo, Write, TypeOK
  <2> QED BY <2>1
<1>6. CASE FetchFound(r)
  BY <1>6 DEF FetchFound, GoTo, TypeOK
<1>7. CASE FetchNotFound(r)
  BY <1>7 DEF FetchNotFound, local
<1> QED BY <1>1, <1>2, <1>3, <1>4, <1>5, <1>6, <1>7 DEF RunStep

\* The steps of the cleanup loops.
LEMMA LoopInside ==
  ASSUME TypeOK, Distinct, JournalInv, OrderInv, NEW r \in Replicas, LoopAt(r), CleanupStep(r)
  PROVE  LoopAt(r)'
<1> DEFINE s == snap[r].status
<1>1. /\ s \in Stati /\ DOMAIN s = 1..Len(s) /\ Len(s) \in Nat /\ idx[r] \in Nat /\ N \in Nat
  BY Acting, CountOfTestCases DEF TypeOK
<1>2. ASSUME pc[r] \in {"decide", "clean"}
      PROVE  /\ idx[r] \in 0..N /\ Len(s) <= N /\ Good(s)
             /\ idx[r] \in DOMAIN s => Registered(Here(r))
             /\ idx[r] > 0 => (HereFound(r) <=> idx[r] \in DOMAIN s)
             /\ idx[r] > 0 /\ HereFound(r) => HereEntry(r) = s[idx[r]]
  <2>1. idx[r] \in 0..N
    BY <1>2 DEF TypeOK, InLoop
  <2>2. Good(s) /\ Len(s) <= N
    BY <1>2, Acting
  <2>3. idx[r] > 0 => idx[r] \in 1..N
    BY <1>1, <2>1
  <2>4. idx[r] \in DOMAIN s => Registered(Here(r))
    BY <2>2 DEF Good, Here
  <2> QED BY <1>2, <2>1, <2>2, <2>3, <2>4, Acting
\* moving on past an entry that is cleaned up, or past none
<1>3. ASSUME pc[r] = "clean", idx[r] > 0,
             idx[r] \in DOMAIN s => isTestCaseCleanupSucceeded(s[idx[r]])
      PROVE  \A j \in DOMAIN s : j > idx[r] - 1 => isTestCaseCleanupSucceeded(s[j])
  <2>1. \A j \in DOMAIN s : j > idx[r] - 1 => j > idx[r] \/ j = idx[r]
    BY <1>1
  <2>2. \A j \in DOMAIN s : j > idx[r] => isTestCaseCleanupSucceeded(s[j])
    BY <1>3 DEF LoopAt, LaterCleaned, Cleaning
  <2> QED BY <1>3, <2>1, <2>2
<1> USE DEF LoopAt, LaterCleaned, NotStale, Notified, Cleaning
<1> HIDE DEF s
<1>4. CASE DecideWait(r) \/ CleanupAllDone(r) \/ CleanupUnreadable(r) \/ CleanupBreaks(r)
           \/ RecordCleanupError(r)
  BY <1>4, LoopLeft DEF DecideWait, CleanupAllDone, CleanupUnreadable, CleanupBreaks,
     RecordCleanupError, ReturnLater, ReturnDone, ReturnError
<1>5. CASE DecideStaleCleanup(r) \/ DecideCleanup(r)
  <2>1. /\ pc[r] = "decide" /\ pc'[r] = "clean" /\ idx'[r] = N /\ snap'[r] = snap[r]
        /\ ~stale'[r] => ~Stale(r)
    BY <1>5 DEF DecideStaleCleanup, DecideCleanup, GoTo, TypeOK
  <2>2. UNCHANGED <<run, queue>>
    BY <1>5 DEF DecideStaleCleanup, DecideCleanup
  <2>3. \A j \in DOMAIN s : ~(j > N)
    BY <1>1, <1>2, <2>1
  <2> QED BY <2>1, <2>2, <2>3 DEF s, Stale
<1>6. CASE CleanupSkipsUnregistered(r) \/ CleanupSkips(r)
  <2>1. /\ pc[r] = "clean" /\ idx[r] > 0 /\ pc'[r] = "clean" /\ idx'[r] = idx[r] - 1
        /\ UNCHANGED <<run, queue, snap, stale>>
    BY <1>6 DEF CleanupSkipsUnregistered, CleanupSkips, GoTo, AtReadableCleanup, TypeOK
  <2>2. idx[r] \in DOMAIN s => isTestCaseCleanupSucceeded(s[idx[r]])
    BY <1>2, <1>6, <2>1 DEF CleanupSkipsUnregistered, CleanupSkips, Cleanable
  <2>3. \A j \in DOMAIN s : j > idx'[r] => isTestCaseCleanupSucceeded(s[j])
    BY <1>3, <2>1, <2>2
  <2> QED BY <2>1, <2>3 DEF s, Stale
<1>7. CASE CleanupNothing(r) \/ DeleteNotFound(r)
  BY <1>7 DEF CleanupNothing, DeleteNotFound, AtCleanup, AtReadableCleanup, Conclude, TypeOK, Stale
<1>8. CASE DeleteObject(r)
  BY <1>8 DEF DeleteObject, AtCleanup, AtReadableCleanup, TypeOK, Stale
<1>9. CASE WaitGone(r)
  BY <1>9 DEF WaitGone, Conclude, TypeOK, Stale
<1>10. CASE RecordCleaned(r)
  <2> DEFINE t == AfterCleanup(r)
  <2>1. /\ pc[r] = "recordCleanup" /\ pc'[r] = "clean" /\ idx'[r] = idx[r] - 1
        /\ snap'[r].status = t /\ snap'[r].rv = run.rv + 1 /\ run'.rv = run.rv + 1
        /\ stale'[r] = stale[r] /\ result[r]
    BY <1>10 DEF RecordCleaned, GoTo, Write, TypeOK
  <2>2. /\ DOMAIN t = DOMAIN s /\ idx[r] \in DOMAIN s
        /\ \A j \in DOMAIN s : j # idx[r] => t[j] = s[j]
        /\ isTestCaseCleanupSucceeded(t[idx[r]])
    BY <2>1, AfterCleanupEffect DEF s
  <2>3. ~stale[r] => AllPassed(t)
    BY <1>10, <2>1, CleanupRecorded DEF RecordCleaned
  <2>4. \A j \in DOMAIN s : j > idx[r] => isTestCaseCleanupSucceeded(s[j])
    BY <2>1 DEF s
  <2>5. \A j \in DOMAIN s : j > idx[r] - 1 => j > idx[r] \/ j = idx[r]
    BY <1>1
  <2>6. \A j \in DOMAIN s : j > idx[r] => j # idx[r]
    BY <1>1
  <2>7. \A j \in DOMAIN t : j > idx[r] - 1 => isTestCaseCleanupSucceeded(t[j])
    BY <2>2, <2>4, <2>5, <2>6
  <2> HIDE DEF t
  <2> QED BY <2>1, <2>3, <2>7
<1> QED BY <1>4, <1>5, <1>6, <1>7, <1>8, <1>9, <1>10 DEF CleanupStep

\* The faults.
LEMMA LoopFaults ==
  ASSUME TypeOK, NEW r \in Replicas, LoopAt(r), FaultStep(r)
  PROVE  LoopAt(r)'
<1> USE DEF LoopAt, LaterCleaned, NotStale, Notified, Cleaning, Stale
<1>1. CASE FetchFails(r)
  BY <1>1 DEF FetchFails, Fault, local
<1>2. CASE UpdateFails(r) \/ UpdateLost(r) \/ Crash(r)
  BY <1>2, LoopLeft DEF UpdateFails, UpdateLost, Crash, ReturnError
<1>3. CASE DeleteFails(r)
  BY <1>3 DEF DeleteFails, AtCleanup, AtReadableCleanup, Conclude, TypeOK
<1>4. CASE WaitGoneFails(r)
  BY <1>4 DEF WaitGoneFails, Conclude, TypeOK
<1> QED BY <1>1, <1>2, <1>3, <1>4 DEF FaultStep

\* Every step of the controller keeps the invariant of the cleanup loops.
LEMMA LoopInvInductive ==
  ASSUME TypeOK, Distinct, JournalInv, OrderInv, LoopInv, [Next]_vars
  PROVE  LoopInv'
<1>0. SUFFICES ASSUME NEW q \in Replicas PROVE LoopAt(q)'
  BY DEF LoopInv
<1>1. LoopAt(q)
  BY DEF LoopInv
<1>2. ASSUME NEW r \in Replicas, Worker(r) \/ FaultStep(r) PROVE LoopAt(q)'
  <2>1. CASE q = r
    BY <1>1, <1>2, <2>1, LoopOutside, LoopInside, LoopFaults DEF Worker
  <2>2. CASE q # r
    BY <1>1, <1>2, <2>2, OthersKept, WritesNotify, LoopKept
  <2> QED BY <2>1, <2>2
<1>3. CASE Environment \/ UNCHANGED vars
  <2>1. /\ run'.rv = run.rv /\ (queue[q] => queue'[q])
        /\ pc' = pc /\ idx' = idx /\ snap' = snap /\ stale' = stale
    BY <1>3 DEF Environment, Resync, TimerFires, BecomeReady, FinishDeletion, Age,
                UserDeletes, local, vars, TypeOK
  <2> QED BY <1>1, <2>1, LoopKept
<1> QED BY <1>2, <1>3 DEF Next

\* So it holds in every reachable state.
LEMMA LoopInvariant ==
  ASSUME Distinct PROVE Spec => [](TypeOK /\ JournalInv /\ OrderInv /\ LoopInv)
<1>1. Init => LoopInv
  BY DEF Init, LoopInv, LoopAt, LaterCleaned, NotStale, Notified, Cleaning
<1>2. TypeOK /\ JournalInv /\ OrderInv /\ LoopInv /\ [Next]_vars => LoopInv'
  BY LoopInvInductive
<1> QED BY <1>1, <1>2, OrderInvariant, PTL DEF Spec

-----------------------------------------------------------------------------
(* A config that cannot be read *)

\* A set of natural numbers that is not empty has a least element.
LEMMA LeastNatural ==
  ASSUME NEW T, T \subseteq Nat, T # {}
  PROVE  \E x \in T : \A y \in T : x <= y
<1> DEFINE R == OpToRel(<, Nat)
<1>1. IsWellFoundedOn(R, Nat)
  BY NatLessThanWellFounded, Zenon
<1>2. \A y, x \in Nat : <<y, x>> \in R <=> y < x
  BY Zenon DEF OpToRel
<1> HIDE DEF R
<1>3. PICK x \in T : \A y \in T : ~(<<y, x>> \in R)
  BY <1>1, WFMin
<1>4. \A y \in T : ~(y < x)
  BY <1>2, <1>3
<1> QED BY <1>3, <1>4

\* The entry found under a name is an entry of the status.
LEMMA FoundIsAnEntry ==
  ASSUME NEW s \in Stati, NEW n, Found(n, s)
  PROVE  GetStatus(n, s) \in DOMAIN s
<1>1. Matches(n, s) \subseteq Nat /\ Matches(n, s) # {} /\ Matches(n, s) \subseteq DOMAIN s
  BY DEF Matches, Found, Stati
<1>2. \E i \in Matches(n, s) : \A j \in Matches(n, s) : i <= j
  BY <1>1, LeastNatural
<1> QED BY <1>1, <1>2 DEF GetStatus

\* A replica whose Reconcile returns is at no test case.
LEMMA BlockedLeft ==
  ASSUME TypeOK, NEW r \in Replicas, NEW m \in 1..N, Leave(r)
  PROVE  Blocked(r, m)'
  BY DEF TypeOK, Leave, Blocked, Notified, Cleaning

\* A replica that does nothing stays where it is.
LEMMA BlockedKept ==
  ASSUME TypeOK, NEW q \in Replicas, NEW m \in 1..N, Blocked(q, m),
         pc'[q] = pc[q], idx'[q] = idx[q], snap'[q] = snap[q], stale'[q] = stale[q],
         result'[q] = result[q], run'.rv = run.rv \/ queue'[q], queue[q] => queue'[q]
  PROVE  Blocked(q, m)'
  BY DEF Blocked, Notified, Cleaning, Stale

\* The run loop does not get past the test case.
LEMMA BlockedOutside ==
  ASSUME TypeOK, NEW r \in Replicas, NEW m \in 1..N, Malformed(m), Blocked(r, m),
         RunStep(r) \/ FetchFound(r) \/ FetchNotFound(r) \/ UpdateRejected(r)
  PROVE  Blocked(r, m)'
<1>1. AtReadable(r) => idx[r] # m
  BY DEF AtReadable, Readable, Here, Malformed
<1>2. idx[r] \in Nat /\ m \in 1..N /\ N \in Nat
  BY CountOfTestCases DEF TypeOK
<1> USE DEF Blocked, Notified, Cleaning
<1>3. CASE RunAllDone(r)
  BY <1>2, <1>3 DEF RunAllDone
<1>4. CASE RunSkipsPassed(r)
  BY <1>1, <1>2, <1>4 DEF RunSkipsPassed, GoTo, TypeOK, AtReadable
<1>5. CASE RunStopsAtFailed(r)
  <2>1. snap[r].status \in Stati
    BY DEF TypeOK, Stati
  <2>2. HasFailed(snap[r].status)
    BY <1>5, <2>1, FoundIsAnEntry DEF RunStopsAtFailed, HereFound, HereEntry, HasFailed
  <2> QED BY <1>5, <2>2 DEF RunStopsAtFailed, GoTo, TypeOK, AtReadable
<1>6. CASE RunBreaksOff(r) \/ RecordFailed(r) \/ UpdateRejected(r)
  BY <1>6, BlockedLeft DEF RunBreaksOff, RecordFailed, UpdateRejected, ReturnError
<1>7. CASE RunMalformed(r)
  BY <1>7 DEF RunMalformed, Conclude, TypeOK
<1>8. CASE RunFails(r)
  BY <1>1, <1>2, <1>8 DEF RunFails, Conclude, TypeOK, AtRunCall, AtReadable
<1>9. CASE PollReady(r) \/ PollFails(r)
  BY <1>2, <1>9 DEF PollReady, PollFails, Conclude, TypeOK
<1>10. CASE CreateObject(r)
  BY <1>1, <1>2, <1>10 DEF CreateObject, TypeOK, AtCreate, AtRunCall, AtReadable
<1>11. CASE RecordPassed(r)
  <2>1. /\ pc'[r] = "run" /\ snap'[r].rv = run.rv + 1 /\ run'.rv = run.rv + 1
        /\ idx'[r] = idx[r] + 1 /\ idx[r] < m
    BY <1>2, <1>11 DEF RecordPassed, GoTo, Write, TypeOK
  <2> QED BY <1>2, <2>1
<1>12. CASE FetchFound(r)
  BY <1>2, <1>12 DEF FetchFound, GoTo, TypeOK
<1>13. CASE FetchNotFound(r)
  BY <1>13 DEF FetchNotFound, local
<1> QED BY <1>3, <1>4, <1>5, <1>6, <1>7, <1>8, <1>9, <1>10, <1>11, <1>12, <1>13 DEF RunStep

\* Recording a cleanup takes back no failure, and a success adds no open one.
LEMMA CleanupFailsNothing ==
  ASSUME NEW s \in Stati, NEW n, HasFailed(s)
  PROVE  /\ HasFailed(SetCleanup(n, TRUE, s))
         /\ isRunFailedAndNotCleaned(SetCleanup(n, TRUE, s)) => isRunFailedAndNotCleaned(s)
<1> DEFINE t == SetCleanup(n, TRUE, s)
<1>1. /\ DOMAIN t = DOMAIN s
      /\ \A i \in DOMAIN s : t[i].run = s[i].run /\ (i # GetStatus(n, s) => t[i] = s[i])
  <2>1. \A i \in DOMAIN s : t[i].run = s[i].run /\ (i # GetStatus(n, s) => t[i] = s[i])
    BY SetCleanupEffect DEF Stati
  <2>2. DOMAIN t = DOMAIN s
    BY DEF SetCleanup
  <2> QED BY <2>1, <2>2
<1>2. \A i \in DOMAIN s : i = GetStatus(n, s) => isTestCaseCleanupSucceeded(t[i])
  <2> SUFFICES ASSUME NEW i \in DOMAIN s, i = GetStatus(n, s)
               PROVE  isTestCaseCleanupSucceeded(t[i])
    OBVIOUS
  <2>1. t[i] = [s[i] EXCEPT !.cleanup = "succeeded"] /\ s[i] \in Entry(Names)
    BY DEF SetCleanup, Stati
  <2> QED BY <2>1 DEF isTestCaseCleanupSucceeded, Entry
<1> HIDE DEF t
<1>3. HasFailed(t)
  BY <1>1 DEF HasFailed, isTestCaseFailed
<1>4. isRunFailedAndNotCleaned(t) => isRunFailedAndNotCleaned(s)
  BY <1>1, <1>2 DEF isRunFailedAndNotCleaned, isTestCaseFailed
<1> QED BY <1>3, <1>4 DEF t

\* The stale cleanup does not get past the test case either.
LEMMA BlockedInside ==
  ASSUME TypeOK, NEW r \in Replicas, NEW m \in 1..N, Malformed(m), Blocked(r, m), CleanupStep(r)
  PROVE  Blocked(r, m)'
<1>1. /\ AtReadableCleanup(r) => idx[r] # m
      /\ ~Registered(Here(r)) => idx[r] # m
  BY DEF AtReadableCleanup, Readable, Here, Malformed
<1>2. idx[r] \in Nat /\ m \in 1..N /\ N \in Nat
  BY CountOfTestCases DEF TypeOK
<1> USE DEF Blocked, Notified, Cleaning
<1>3. CASE DecideWait(r) \/ CleanupAllDone(r) \/ CleanupUnreadable(r) \/ CleanupBreaks(r)
           \/ RecordCleanupError(r)
  BY <1>3, BlockedLeft DEF DecideWait, CleanupAllDone, CleanupUnreadable, CleanupBreaks,
     RecordCleanupError, ReturnLater, ReturnDone, ReturnError
<1>4. CASE DecideStaleCleanup(r) \/ DecideCleanup(r)
  <2>1. /\ pc[r] = "decide" /\ pc'[r] = "clean" /\ idx'[r] = N /\ snap'[r] = snap[r]
        /\ ~stale'[r] => ~Stale(r)
        /\ UNCHANGED <<run, queue>>
    BY <1>4 DEF DecideStaleCleanup, DecideCleanup, GoTo, TypeOK
  <2> QED BY <1>2, <2>1 DEF Stale
<1>5. CASE CleanupSkipsUnregistered(r) \/ CleanupSkips(r)
  <2>1. /\ pc[r] = "clean" /\ idx[r] > 0 /\ pc'[r] = "clean" /\ idx'[r] = idx[r] - 1
        /\ idx[r] # m
        /\ UNCHANGED <<run, queue, snap, stale>>
    BY <1>1, <1>5
    DEF CleanupSkipsUnregistered, CleanupSkips, GoTo, AtReadableCleanup, TypeOK
  <2> QED BY <1>2, <2>1 DEF Stale
<1>6. CASE CleanupNothing(r) \/ DeleteNotFound(r) \/ DeleteObject(r)
  <2>1. /\ pc[r] = "clean" /\ pc'[r] \in {"waitGone", "recordCleanup"} /\ idx[r] # m
        /\ UNCHANGED <<run, queue, snap, stale, idx>>
    BY <1>1, <1>6 DEF CleanupNothing, DeleteNotFound, DeleteObject, AtCleanup,
                      AtReadableCleanup, Conclude, TypeOK
  <2> QED BY <1>2, <2>1 DEF Stale
<1>7. CASE WaitGone(r)
  BY <1>7 DEF WaitGone, Conclude, TypeOK, Stale
<1>8. CASE RecordCleaned(r)
  <2> DEFINE s == snap[r].status
             t == AfterCleanup(r)
  <2>1. /\ pc[r] = "recordCleanup" /\ pc'[r] = "clean" /\ idx'[r] = idx[r] - 1
        /\ snap'[r].status = t /\ snap'[r].rv = run.rv + 1 /\ run'.rv = run.rv + 1
        /\ stale'[r] = stale[r]
    BY <1>8 DEF RecordCleaned, GoTo, Write, TypeOK
  <2>2. s \in Stati /\ HasFailed(s) /\ result[r] = TRUE
    BY <1>8, <2>1 DEF RecordCleaned, TypeOK, Stati
  <2>3. HasFailed(t) /\ (isRunFailedAndNotCleaned(t) => isRunFailedAndNotCleaned(s))
    BY <2>2, CleanupFailsNothing DEF AfterCleanup
  <2>4. ~stale[r] => ~StaleEnabled \/ ~isRunFailedAndNotCleaned(s)
    BY <2>1 DEF Stale
  <2> HIDE DEF s, t
  <2> QED BY <1>2, <2>1, <2>3, <2>4 DEF Stale
<1> QED BY <1>3, <1>4, <1>5, <1>6, <1>7, <1>8 DEF CleanupStep

\* Nor does a fault bring anyone past it.
LEMMA BlockedFaults ==
  ASSUME TypeOK, NEW r \in Replicas, NEW m \in 1..N, Malformed(m), Blocked(r, m), FaultStep(r)
  PROVE  Blocked(r, m)'
<1>1. AtReadableCleanup(r) => idx[r] # m
  BY DEF AtReadableCleanup, Readable, Here, Malformed
<1>2. idx[r] \in Nat /\ m \in 1..N /\ N \in Nat
  BY CountOfTestCases DEF TypeOK
<1> USE DEF Blocked, Notified, Cleaning, Stale
<1>3. CASE FetchFails(r)
  BY <1>3 DEF FetchFails, Fault, local
<1>4. CASE UpdateFails(r) \/ UpdateLost(r) \/ Crash(r)
  BY <1>4, BlockedLeft DEF UpdateFails, UpdateLost, Crash, ReturnError
<1>5. CASE DeleteFails(r)
  BY <1>1, <1>2, <1>5 DEF DeleteFails, AtCleanup, AtReadableCleanup, Conclude, TypeOK
<1>6. CASE WaitGoneFails(r)
  BY <1>6 DEF WaitGoneFails, Conclude, TypeOK
<1> QED BY <1>3, <1>4, <1>5, <1>6 DEF FaultStep

\* The result of a replica is changed by no other.
LEMMA ResultsKept ==
  ASSUME TypeOK, NEW r \in Replicas, Worker(r) \/ FaultStep(r), NEW q \in Replicas, q # r
  PROVE  result'[q] = result[q]
<1> USE DEF TypeOK, local, Fault, Leave, ReturnDone, ReturnError, ReturnLater, GoTo, Conclude
<1>1. CASE RunStep(r)
  BY <1>1 DEF RunStep, RunAllDone, RunBreaksOff, RunMalformed, RunSkipsPassed,
      RunStopsAtFailed, RunFails, CreateObject, PollReady,
      PollFails, RecordPassed, RecordFailed
<1>2. CASE CleanupStep(r)
  BY <1>2 DEF CleanupStep, DecideWait, DecideStaleCleanup, DecideCleanup, CleanupAllDone,
      CleanupSkipsUnregistered, CleanupUnreadable, CleanupBreaks,
      CleanupSkips, CleanupNothing, DeleteNotFound, DeleteObject,
      WaitGone, RecordCleaned, RecordCleanupError
<1>3. CASE FetchFound(r) \/ FetchNotFound(r) \/ UpdateRejected(r)
  BY <1>3 DEF FetchFound, FetchNotFound, UpdateRejected
<1>4. CASE FaultStep(r)
  BY <1>4 DEF FaultStep, FetchFails, DeleteFails, WaitGoneFails, UpdateFails, UpdateLost,
      Crash
<1> QED BY <1>1, <1>2, <1>3, <1>4 DEF Worker

\* So nobody ever gets past the test case.
LEMMA BlockedInvariant ==
  ASSUME NEW m \in 1..N, Malformed(m)
  PROVE  Spec => [](TypeOK /\ JournalInv /\ BlockedInv(m))
<1>1. Init => BlockedInv(m)
  BY DEF Init, BlockedInv, Blocked, Notified, Cleaning
<1>2. TypeOK /\ BlockedInv(m) /\ [Next]_vars => BlockedInv(m)'
  <2> SUFFICES ASSUME TypeOK, BlockedInv(m), [Next]_vars, NEW q \in Replicas
               PROVE  Blocked(q, m)'
    BY DEF BlockedInv
  <2>1. Blocked(q, m)
    BY DEF BlockedInv
  <2>2. ASSUME NEW r \in Replicas, Worker(r) \/ FaultStep(r) PROVE Blocked(q, m)'
    <3>1. CASE q = r
      BY <2>1, <2>2, <3>1, BlockedOutside, BlockedInside, BlockedFaults DEF Worker
    <3>2. CASE q # r
      BY <2>1, <2>2, <3>2, OthersKept, ResultsKept, WritesNotify, BlockedKept
    <3> QED BY <3>1, <3>2
  <2>3. CASE Environment \/ UNCHANGED vars
    <3>1. /\ run'.rv = run.rv /\ (queue[q] => queue'[q])
          /\ pc' = pc /\ idx' = idx /\ snap' = snap /\ stale' = stale /\ result' = result
      BY <2>3 DEF Environment, Resync, TimerFires, BecomeReady, FinishDeletion, Age,
                  UserDeletes, local, vars, TypeOK
    <3> QED BY <2>1, <3>1, BlockedKept
  <2> QED BY <2>2, <2>3 DEF Next
<1> QED BY <1>1, <1>2, JournalInvariant, PTL DEF Spec

\* Where a config cannot be read, a cleanup that ends well is that of a failed run
\* which is not stale.
LEMMA BlockedDone ==
  ASSUME TypeOK, NEW r \in Replicas, NEW m \in 1..N, Blocked(r, m),
         CleanupAllDone(r) \/ CleanupBreaks(r)
  PROVE  WorkDone(snap[r].status)
<1>1. pc[r] = "clean" /\ (stale[r] => idx[r] # 0)
  BY DEF CleanupAllDone, CleanupBreaks, AtReadableCleanup, Blocked
<1>2. HasFailed(snap[r].status) /\ ~Stale(r)
  BY <1>1 DEF CleanupAllDone, CleanupBreaks, Blocked, Cleaning
<1> QED BY <1>2 DEF WorkDone, Stale

-----------------------------------------------------------------------------
(* A run with work left is never forgotten *)

Awake(r) == queue[r] \/ timer[r] \/ pc[r] # "idle"

\* The cleanup ends well only where its snapshot leaves nothing to do.
LEMMA LoopDone ==
  ASSUME TypeOK, Distinct, OrderInv, NEW r \in Replicas, LoopAt(r),
         CleanupAllDone(r) \/ CleanupBreaks(r)
  PROVE  WorkDone(snap[r].status)
<1> DEFINE s == snap[r].status
<1>1. /\ pc[r] = "clean" /\ s \in Stati /\ DOMAIN s = 1..Len(s) /\ Len(s) \in Nat
      /\ idx[r] \in 0..N /\ Good(s) /\ N \in Nat
  BY Acting, CountOfTestCases
  DEF CleanupAllDone, CleanupBreaks, AtReadableCleanup, TypeOK, InLoop
<1>2. /\ \A j \in DOMAIN s : j > idx[r] => isTestCaseCleanupSucceeded(s[j])
      /\ ~stale[r] => AllPassed(s) \/ ~Stale(r)
      /\ AllPassed(s) \/ HasFailed(s)
      /\ ~stale[r] => AllPassed(s) \/ Len(s) <= idx[r]
  BY <1>1 DEF LoopAt, LaterCleaned, NotStale, Cleaning, OrderInv, PhaseInv, AtVerdict, AtClean
<1>3. AllPassed(s) => ~HasFailed(s) /\ DOMAIN s = 1..N
  BY <1>1 DEF AllPassed, HasFailed, isTestCasePassed, isTestCaseFailed
<1>4. CASE CleanupAllDone(r)
  <2>1. idx[r] = 0
    BY <1>4 DEF CleanupAllDone
  <2>2. AllCleaned(s)
    BY <1>1, <1>2, <2>1 DEF AllCleaned
  <2>3. ~isRunFailedAndNotCleaned(s)
    BY <2>2 DEF AllCleaned, isRunFailedAndNotCleaned
  <2> QED BY <1>2, <2>2, <2>3 DEF WorkDone
<1>5. CASE CleanupBreaks(r)
  <2>1. ~stale[r] /\ ~Cleanable(r) /\ idx[r] \in 1..N
    BY <1>1, <1>5 DEF CleanupBreaks, AtReadableCleanup
  <2>2. ~AllPassed(s)
    <3>1. ASSUME AllPassed(s) PROVE FALSE
      <4>1. idx[r] \in DOMAIN s /\ isTestCasePassed(s[idx[r]])
        BY <1>3, <2>1, <3>1 DEF AllPassed
      <4> QED BY <1>1, <2>1, <4>1, Acting DEF Cleanable
    <3> QED BY <3>1
  <2>3. HasFailed(s) /\ ~Stale(r)
    BY <1>2, <2>1, <2>2
  <2> QED BY <2>3 DEF WorkDone, Stale
<1> QED BY <1>4, <1>5

\* The only other way to fall asleep is to find the run deleted.
LEMMA StaysAwake ==
  ASSUME TypeOK, NEW r \in Replicas, Worker(r) \/ FaultStep(r),
         ~CleanupAllDone(r), ~CleanupBreaks(r), run' = run, run.exists, Awake(r)
  PROVE  Awake(r)'
<1> USE DEF TypeOK, local, Fault, Leave, ReturnError, ReturnLater, GoTo, Conclude, Write, Awake
<1>1. CASE RunStep(r)
  BY <1>1 DEF RunStep, RunAllDone, RunBreaksOff, RunMalformed, RunSkipsPassed,
      RunStopsAtFailed, RunFails, CreateObject, PollReady,
      PollFails, RecordPassed, RecordFailed
<1>2. CASE CleanupStep(r)
  BY <1>2 DEF CleanupStep, DecideWait, DecideStaleCleanup, DecideCleanup,
      CleanupSkipsUnregistered, CleanupUnreadable,
      CleanupSkips, CleanupNothing, DeleteNotFound, DeleteObject,
      WaitGone, RecordCleaned, RecordCleanupError
<1>3. CASE FetchFound(r) \/ FetchNotFound(r) \/ UpdateRejected(r)
  BY <1>3 DEF FetchFound, FetchNotFound, UpdateRejected
<1>4. CASE FaultStep(r)
  BY <1>4 DEF FaultStep, FetchFails, DeleteFails, WaitGoneFails, UpdateFails, UpdateLost,
      Crash
<1> QED BY <1>1, <1>2, <1>3, <1>4 DEF Worker

\* Whoever falls asleep leaves no work, or another replica queued.
LEMMA NeverForgottenInductive ==
  ASSUME TypeOK, JournalInv, NeverForgotten, [Next]_vars,
         \A r \in Replicas : Notified(r),
         \A r \in Replicas : CleanupAllDone(r) \/ CleanupBreaks(r) => WorkDone(snap[r].status)
  PROVE  NeverForgotten'
<1> SUFFICES ASSUME run'.exists, ~WorkDone(run.status')
             PROVE  \E q \in Replicas : Awake(q)'
  BY DEF NeverForgotten, Awake
<1>1. ASSUME NEW r \in Replicas, Worker(r) \/ FaultStep(r)
      PROVE  \E q \in Replicas : Awake(q)'
  <2>1. CASE run' # run
    BY <1>1, <2>1, WritesNotify DEF Awake
  <2>2. CASE run' = run
    <3>1. PICK q \in Replicas : Awake(q)
      BY <2>2 DEF NeverForgotten, Awake
    <3>2. CASE q # r
      BY <1>1, <3>1, <3>2, OthersKept, WritesNotify DEF Awake
    <3>3. CASE q = r /\ ~CleanupAllDone(r) /\ ~CleanupBreaks(r)
      BY <1>1, <2>2, <3>1, <3>3, StaysAwake
    <3>4. CASE CleanupAllDone(r) \/ CleanupBreaks(r)
      <4>1. WorkDone(snap[r].status) /\ pc[r] # "idle" /\ Notified(r) /\ UNCHANGED queue
        BY <3>4 DEF CleanupAllDone, CleanupBreaks, AtReadableCleanup, ReturnDone
      <4>2. snap[r].rv # run.rv
        BY <2>2, <4>1 DEF JournalInv, SnapCurrent
      <4>3. queue[r]
        BY <4>1, <4>2 DEF Notified
      <4> QED BY <4>1, <4>3 DEF Awake
    <3> QED BY <3>2, <3>3, <3>4
  <2> QED BY <2>1, <2>2
<1>2. CASE Environment \/ UNCHANGED vars
  <2>1. CASE UserDeletes
    BY <2>1 DEF UserDeletes, TypeOK
  <2>2. CASE ~UserDeletes
    <3>1. run' = run
      BY <1>2, <2>2 DEF Environment, Resync, TimerFires, BecomeReady, FinishDeletion, Age, vars
    <3>2. PICK q \in Replicas : Awake(q)
      BY <3>1 DEF NeverForgotten, Awake
    <3> QED BY <1>2, <2>2, <3>2 DEF Environment, Resync, TimerFires, BecomeReady,
               FinishDeletion, Age, local, vars, TypeOK, Awake
  <2> QED BY <2>1, <2>2
<1> QED BY <1>1, <1>2 DEF Next

(***************************************************************************)
(* As long as a run exists and has work left, some replica has it in its   *)
(* queue, waits for a timer or is at it: no return, conflict, crash or     *)
(* interleaving of replicas loses the last reason to look at it again.     *)
(***************************************************************************)
THEOREM RunNeverForgotten ==
  ASSUME Distinct \/ SomeUnreadable PROVE Spec => []NeverForgotten
<1>1. Init => NeverForgotten
  BY ReplicasAssumption DEF Init, NeverForgotten
<1>2. CASE Distinct
  <2>1. TypeOK /\ JournalInv /\ OrderInv /\ LoopInv /\ NeverForgotten /\ [Next]_vars
          => NeverForgotten'
    BY <1>2, LoopDone, NeverForgottenInductive DEF LoopInv, LoopAt
  <2> QED BY <1>1, <1>2, <2>1, LoopInvariant, PTL DEF Spec
<1>3. CASE SomeUnreadable
  <2>1. PICK m \in 1..N : Malformed(m)
    BY <1>3 DEF SomeUnreadable
  <2>2. TypeOK /\ JournalInv /\ BlockedInv(m) /\ NeverForgotten /\ [Next]_vars
          => NeverForgotten'
    BY BlockedDone, NeverForgottenInductive DEF BlockedInv, Blocked
  <2>3. Spec => [](TypeOK /\ JournalInv /\ BlockedInv(m))
    BY <2>1, BlockedInvariant
  <2> QED BY <1>1, <2>2, <2>3, PTL DEF Spec
<1> QED BY <1>2, <1>3
=============================================================================
