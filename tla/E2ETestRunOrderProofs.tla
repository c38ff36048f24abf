----------------------- MODULE E2ETestRunOrderProofs -----------------------
(***************************************************************************)
(* For test cases that can be read and have different status names: the    *)
(* status mirrors a prefix of the spec, and nothing is deleted before the  *)
(* run has its verdict.  Any number of replicas and faults, and test cases *)
(* may be missing from the registry.                                       *)
(***************************************************************************)
EXTENDS E2ETestRunJournalProofs

\* The specs meant: no config that is not JSON, no status name twice.
Distinct ==
    /\ \A i \in 1..N : SpecTestCases[i].config # "malformed"
    /\ \A i, j \in 1..N : RecordName(SpecTestCases[i]) = RecordName(SpecTestCases[j]) => i = j

\* A status as the run loop leaves it: a prefix of the spec, of registered cases.
Good(s) == PrefixOfSpec(s) /\ \A i \in DOMAIN s : Registered(SpecTestCases[i])

PassedUpTo(s, n) == \A i \in 1..n : i \in DOMAIN s /\ isTestCasePassed(s[i])

(***************************************************************************)
(* The inductive invariant, one part for each phase of Reconcile.  At index*)
(* i the run loop has seen the first i - 1 test cases pass; the normal     *)
(* cleanup of a failed run never gets below the failed entry, its last.    *)
(***************************************************************************)
SnapGood(r)  == pc[r] # "idle" => Good(snap[r].status) /\ Journal(snap[r].status, run.status)
AtRun(r)     == pc[r] = "run" => PassedUpTo(snap[r].status, idx[r] - 1)
AtTest(r)    == pc[r] \in {"poll", "recordRun"} =>
                    /\ PassedUpTo(snap[r].status, idx[r] - 1)
                    /\ Len(snap[r].status) = idx[r] - 1
                    /\ Registered(Here(r))
AtVerdict(r) == pc[r] \in {"decide", "clean", "waitGone", "recordCleanup"} =>
                    AllPassed(snap[r].status) \/ HasFailed(snap[r].status)
AtStale(r)   == stale[r] => /\ pc[r] \in {"clean", "waitGone", "recordCleanup"}
                            /\ StaleEnabled /\ aged /\ HasFailed(snap[r].status)
AtClean(r)   == pc[r] = "clean" /\ ~stale[r] =>
                    AllPassed(snap[r].status) \/ Len(snap[r].status) <= idx[r]
AtEntry(r)   == pc[r] \in {"waitGone", "recordCleanup"} =>
                    /\ idx[r] \in DOMAIN snap[r].status
                    /\ ~stale[r] => AllPassed(snap[r].status)

PhaseInv(r) == /\ SnapGood(r) /\ AtRun(r) /\ AtTest(r) /\ AtVerdict(r)
               /\ AtStale(r) /\ AtClean(r) /\ AtEntry(r)

OrderInv == Good(run.status) /\ \A r \in Replicas : PhaseInv(r)

Stati == Seq(Entry(Names))

-----------------------------------------------------------------------------
(* Lemmas about good statuses *)

\* In a good status the entry of a test case is at the test case's index.
LEMMA FoundInPrefix ==
  ASSUME Distinct, NEW s \in Stati, Good(s), NEW i \in 1..N
  PROVE  /\ Found(RecordName(SpecTestCases[i]), s) <=> i \in DOMAIN s
         /\ i \in DOMAIN s => GetStatus(RecordName(SpecTestCases[i]), s) = i
         /\ StatusName(SpecTestCases[i]) = RecordName(SpecTestCases[i])
<1> DEFINE n == RecordName(SpecTestCases[i])
<1>1. DOMAIN s = 1..Len(s) /\ Len(s) \in Nat /\ Len(s) <= N /\ N \in Nat
  BY CountOfTestCases DEF Stati, Good, PrefixOfSpec
<1>2. ASSUME NEW j \in DOMAIN s, s[j].name = n
      PROVE  j = i
  <2>1. j \in 1..N /\ s[j].name = RecordName(SpecTestCases[j])
    BY <1>1 DEF Good, PrefixOfSpec
  <2> QED BY <1>2, <2>1 DEF Distinct
<1>3. i \in DOMAIN s => s[i].name = n
  BY DEF Good, PrefixOfSpec
<1>4. i \in DOMAIN s => Matches(n, s) = {i}
  BY <1>2, <1>3 DEF Matches
<1>5. i \notin DOMAIN s => Matches(n, s) = {}
  BY <1>2 DEF Matches
<1>6. Found(n, s) <=> i \in DOMAIN s
  BY <1>4, <1>5 DEF Found
<1>7. ASSUME i \in DOMAIN s PROVE GetStatus(n, s) = i
  <2>1. Matches(n, s) = {i}
    BY <1>4, <1>7
  <2>2. \A x \in {i} : \A y \in {i} : x <= y
    BY <1>1
  <2> QED BY <2>1, <2>2 DEF GetStatus
<1>8. StatusName(SpecTestCases[i]) = n
  BY DEF Distinct, RecordName
<1> QED BY <1>6, <1>7, <1>8

\* Recording the next test case of a run that passed so far.
LEMMA AppendGood ==
  ASSUME NEW s \in Stati, Good(s), NEW ok \in BOOLEAN,
         NEW i \in 1..N, Len(s) = i - 1, PassedUpTo(s, i - 1),
         Registered(SpecTestCases[i])
  PROVE  LET t == Append(s, NewEntry(RecordName(SpecTestCases[i]), ok))
         IN  Good(t) /\ (ok => PassedUpTo(t, i)) /\ Len(t) = i
<1> DEFINE e == NewEntry(RecordName(SpecTestCases[i]), ok)
           t == Append(s, e)
<1>1. N \in Nat /\ DOMAIN s = 1..(i - 1) /\ i \in Nat
  BY CountOfTestCases DEF Stati
<1>2. Len(t) = i /\ DOMAIN t = 1..i /\ t[i] = e /\ \A j \in 1..(i - 1) : t[j] = s[j]
  BY <1>1 DEF Stati
<1>3. e.name = RecordName(SpecTestCases[i]) /\ (ok => isTestCasePassed(e))
  BY DEF NewEntry, isTestCasePassed
<1>4. \A j \in 1..(i - 1) : /\ s[j].name = RecordName(SpecTestCases[j])
                            /\ isTestCasePassed(s[j])
                            /\ Registered(SpecTestCases[j])
  BY <1>1 DEF Good, PrefixOfSpec, PassedUpTo
<1> HIDE DEF e, t
<1>5. \A j \in DOMAIN t : j \in 1..(i - 1) \/ j = i
  BY <1>1, <1>2
<1>6. Good(t)
  BY <1>1, <1>2, <1>3, <1>4, <1>5 DEF Good, PrefixOfSpec
<1>7. ok => PassedUpTo(t, i)
  BY <1>1, <1>2, <1>3, <1>4, <1>5 DEF PassedUpTo
<1> QED BY <1>2, <1>6, <1>7 DEF e, t

\* Recording a cleanup touches no name and no verdict.
LEMMA SetCleanupGood ==
  ASSUME NEW s \in Stati, NEW n, NEW ok \in BOOLEAN
  PROVE  LET t == SetCleanup(n, ok, s)
         IN  /\ Good(s) => Good(t)
             /\ AllPassed(s) => AllPassed(t)
             /\ HasFailed(s) => HasFailed(t)
             /\ Len(t) = Len(s)
<1> DEFINE t == SetCleanup(n, ok, s)
<1>1. t \in Stati /\ Len(t) = Len(s) /\ DOMAIN s = 1..Len(s) /\ DOMAIN t = DOMAIN s
  BY SetCleanupTyped DEF Stati
<1>2. \A i \in DOMAIN s : t[i].name = s[i].name /\ t[i].run = s[i].run
  BY SetCleanupEffect DEF Stati
<1> HIDE DEF t
<1>3. Good(s) => Good(t)
  BY <1>1, <1>2 DEF Good, PrefixOfSpec, isTestCasePassed
<1>4. AllPassed(s) => AllPassed(t)
  BY <1>1, <1>2, CountOfTestCases DEF AllPassed, isTestCasePassed
<1>5. HasFailed(s) => HasFailed(t)
  BY <1>1, <1>2 DEF HasFailed, isTestCaseFailed
<1> QED BY <1>1, <1>3, <1>4, <1>5 DEF t

\* A journal of a journal of a status is a journal of it.
LEMMA JournalTransitive ==
  ASSUME NEW s \in Stati, NEW t \in Stati, NEW u \in Stati, Journal(s, t), Journal(t, u)
  PROVE  Journal(s, u)
<1>1. DOMAIN s \subseteq DOMAIN t /\ Len(s) <= Len(u)
  BY DEF Journal, Stati
<1> QED BY <1>1 DEF Journal

\* A journal that grows within the spec keeps the verdict.
LEMMA VerdictStable ==
  ASSUME NEW s \in Stati, NEW t \in Stati, Journal(s, t), Good(t)
  PROVE  /\ AllPassed(s) => AllPassed(t)
         /\ HasFailed(s) => HasFailed(t)
<1>1. DOMAIN s = 1..Len(s) /\ DOMAIN t = 1..Len(t) /\ Len(s) <= Len(t) /\ Len(t) <= N
      /\ N \in Nat /\ Len(s) \in Nat /\ Len(t) \in Nat
  BY CountOfTestCases DEF Journal, Stati, Good, PrefixOfSpec
<1>2. \A i \in DOMAIN s : i \in DOMAIN t /\ t[i].run = s[i].run
  BY <1>1 DEF Journal
<1>3. ASSUME AllPassed(s) PROVE AllPassed(t)
  <2>0. Len(s) = N
    BY <1>3 DEF AllPassed
  <2>3. Len(t) = N
    <3>1. N \in Nat /\ Len(t) \in Nat /\ N <= Len(t) /\ Len(t) <= N
      BY <1>1, <2>0, CountOfTestCases DEF Stati
    <3> QED BY <3>1
  <2>1. Len(t) = N /\ DOMAIN s = 1..N
    BY <1>1, <2>0, <2>3
  <2>2. \A i \in 1..N : s[i].run = "passed" /\ t[i].run = s[i].run
    BY <1>2, <1>3, <2>1 DEF AllPassed, isTestCasePassed
  <2> QED BY <2>1, <2>2 DEF AllPassed, isTestCasePassed
<1>4. HasFailed(s) => HasFailed(t)
  BY <1>2 DEF HasFailed, isTestCaseFailed
<1> QED BY <1>3, <1>4

\* A good status with a passed last entry has no failed entry.
LEMMA PassedLast ==
  ASSUME NEW s \in Stati, Good(s), Len(s) \in DOMAIN s, isTestCasePassed(s[Len(s)])
  PROVE  ~HasFailed(s)
  BY DEF Good, PrefixOfSpec, HasFailed, isTestCasePassed, isTestCaseFailed, Stati
-----------------------------------------------------------------------------
(* The invariant is inductive *)

\* A step of one replica leaves the local state of the others alone.
LEMMA OthersKept ==
  ASSUME TypeOK, NEW r \in Replicas, Worker(r) \/ FaultStep(r),
         NEW q \in Replicas, q # r
  PROVE  /\ pc'[q] = pc[q] /\ idx'[q] = idx[q]
         /\ snap'[q] = snap[q] /\ stale'[q] = stale[q]
         /\ aged' = aged
<1> USE DEF TypeOK, local, Fault, Leave, ReturnDone, ReturnError, ReturnLater, GoTo, Conclude
<1>1. CASE RunStep(r)
  BY <1>1 DEF RunStep, RunAllDone, RunBreaksOff, RunMalformed, RunSkipsPassed, 
      RunStopsAtFailed, RunFails, CreateObject, PollReady, 
      PollFails, RecordPassed, RecordFailed
<1>2. CASE CleanupStep(r)
  BY <1>2 DEF CleanupStep, DecideWait, DecideStaleCleanup, DecideCleanup, CleanupAllDone, 
      CleanupSkipsUnregistered, CleanupUnreadable, CleanupBreaks, 
      CleanupSkips, CleanupNothing, DeleteNotFound, DeleteObject, 
      WaitGone, RecordCleaned, RecordCleanupError
<1>3. CASE FetchFound(r) \/ FetchNotFound(r) \/ UpdateRejected(r)
  BY <1>3 DEF FetchFound, FetchNotFound, UpdateRejected
<1>4. CASE FaultStep(r)
  BY <1>4 DEF FaultStep, FetchFails, DeleteFails, WaitGoneFails, UpdateFails, UpdateLost, 
      Crash
<1> QED BY <1>1, <1>2, <1>3, <1>4 DEF Worker

\* A replica that does nothing keeps its part of the invariant.
LEMMA PhaseKept ==
  ASSUME TypeOK, TypeOK', JournalInv, OrderInv, [Next]_vars, Good(run.status)',
         NEW q \in Replicas,
         pc'[q] = pc[q], idx'[q] = idx[q], snap'[q] = snap[q], stale'[q] = stale[q],
         aged => aged'
  PROVE  PhaseInv(q)'
<1>1. snap[q].status \in Stati /\ run.status \in Stati /\ run.status' \in Stati
  BY DEF TypeOK, Stati
<1>2. Journal(run.status, run.status')
  BY JournalStep
<1>3. SnapGood(q)'
  BY <1>1, <1>2, JournalTransitive DEF OrderInv, PhaseInv, SnapGood
<1> QED BY <1>3 DEF OrderInv, PhaseInv, AtRun, AtTest, AtVerdict, AtStale, AtClean,
                    AtEntry, Here

\* A replica whose Reconcile returns has nothing left to maintain.
LEMMA PhaseLeft ==
  ASSUME TypeOK, NEW r \in Replicas, Leave(r)
  PROVE  PhaseInv(r)'
  BY DEF TypeOK, Leave, PhaseInv, SnapGood, AtRun, AtTest, AtVerdict, AtStale, AtClean, AtEntry

\* The facts about the acting replica that its steps rest on.
LEMMA Acting ==
  ASSUME TypeOK, Distinct, OrderInv, NEW r \in Replicas
  PROVE  /\ snap[r].status \in Stati
         /\ DOMAIN snap[r].status = 1..Len(snap[r].status)
         /\ Len(snap[r].status) \in Nat
         /\ pc[r] # "idle" => Good(snap[r].status) /\ Len(snap[r].status) <= N
         /\ pc[r] # "idle" /\ idx[r] \in 1..N =>
               /\ HereFound(r) <=> idx[r] \in DOMAIN snap[r].status
               /\ HereFound(r) => HereEntry(r) = snap[r].status[idx[r]]
               /\ Here(r).config # "malformed"
<1>1. /\ snap[r].status \in Stati
      /\ DOMAIN snap[r].status = 1..Len(snap[r].status) /\ Len(snap[r].status) \in Nat
  BY DEF TypeOK, Stati
<1>2. pc[r] # "idle" => Good(snap[r].status)
  BY DEF OrderInv, PhaseInv, SnapGood
<1>3. pc[r] # "idle" => Len(snap[r].status) <= N
  BY <1>2 DEF Good, PrefixOfSpec
<1>4. ASSUME pc[r] # "idle", idx[r] \in 1..N
      PROVE  /\ HereFound(r) <=> idx[r] \in DOMAIN snap[r].status
             /\ HereFound(r) => HereEntry(r) = snap[r].status[idx[r]]
             /\ Here(r).config # "malformed"
  <2>1. Good(snap[r].status)
    BY <1>2, <1>4
  <2>2. /\ Found(RecordName(Here(r)), snap[r].status) <=> idx[r] \in DOMAIN snap[r].status
        /\ idx[r] \in DOMAIN snap[r].status =>
              GetStatus(RecordName(Here(r)), snap[r].status) = idx[r]
        /\ StatusName(Here(r)) = RecordName(Here(r))
    BY <1>1, <1>4, <2>1, FoundInPrefix DEF Here
  <2> QED BY <1>4, <2>2 DEF HereFound, HereEntry, Here, Distinct
<1> QED BY <1>1, <1>2, <1>3, <1>4

\* In the normal path, the entry to clean up is reached only if all passed.
LEMMA CleanupNeedsVerdict ==
  ASSUME TypeOK, Distinct, OrderInv, NEW r \in Replicas,
         AtReadableCleanup(r), Cleanable(r)
  PROVE  /\ idx[r] \in DOMAIN snap[r].status
         /\ ~stale[r] => AllPassed(snap[r].status)
<1>1. pc[r] = "clean" /\ idx[r] \in 1..N
  BY CountOfTestCases DEF AtReadableCleanup, TypeOK, InLoop
<1>2. idx[r] \in DOMAIN snap[r].status /\ HereEntry(r) = snap[r].status[idx[r]]
  BY <1>1, Acting DEF Cleanable
<1>3. ASSUME ~stale[r], ~AllPassed(snap[r].status) PROVE FALSE
  <2>1. Len(snap[r].status) <= idx[r] /\ HasFailed(snap[r].status)
    BY <1>1, <1>3 DEF OrderInv, PhaseInv, AtClean, AtVerdict
  <2>2. Len(snap[r].status) = idx[r]
    <3>1. Len(snap[r].status) \in Nat /\ idx[r] \in 1..Len(snap[r].status)
      BY <1>2, Acting
    <3> QED BY <2>1, <3>1
  <2>3. isTestCasePassed(snap[r].status[Len(snap[r].status)])
    BY <1>2, <1>3, <2>2 DEF Cleanable
  <2>4. Good(snap[r].status) /\ snap[r].status \in Stati
    BY <1>1, Acting
  <2> QED BY <1>2, <2>1, <2>2, <2>3, <2>4, PassedLast
<1> QED BY <1>2, <1>3

-----------------------------------------------------------------------------
(* The steps of the acting replica *)

\* What a record of a test writes, when it can be written.
LEMMA RunRecorded ==
  ASSUME TypeOK, OrderInv, NEW r \in Replicas, pc[r] = "recordRun"
  PROVE  /\ Good(AfterRun(r)) /\ AfterRun(r) \in Stati
         /\ result[r] => PassedUpTo(AfterRun(r), idx[r])
<1> DEFINE s == snap[r].status
<1>1. /\ idx[r] \in 1..N /\ Len(s) = idx[r] - 1 /\ PassedUpTo(s, idx[r] - 1)
      /\ Registered(SpecTestCases[idx[r]]) /\ Good(s) /\ s \in Stati
  BY DEF TypeOK, InLoop, Here, OrderInv, PhaseInv, SnapGood, AtTest, Stati
<1>2. result[r] \in BOOLEAN /\ AfterRun(r) \in Stati
  BY UpdatesTyped DEF TypeOK, Stati
<1>3. AfterRun(r) = Append(s, NewEntry(RecordName(SpecTestCases[idx[r]]), result[r]))
  BY DEF AfterRun, HereName, Here
<1> HIDE DEF s
<1> QED BY <1>1, <1>2, <1>3, AppendGood

\* The run loop.
LEMMA RunStepPhase ==
  ASSUME TypeOK, TypeOK', Distinct, JournalInv, OrderInv, NEW r \in Replicas, RunStep(r)
  PROVE  PhaseInv(r)' /\ Good(run.status)'
<1> DEFINE s == snap[r].status
<1> USE CountOfTestCases
<1>1. /\ s \in Stati /\ DOMAIN s = 1..Len(s) /\ Len(s) \in Nat
      /\ run.status \in Stati /\ idx[r] \in Nat
  BY Acting DEF TypeOK, Stati
<1>2. PhaseInv(r) /\ Good(run.status)
  BY DEF OrderInv
<1>3. ASSUME pc[r] \in {"run", "poll", "recordRun"}
      PROVE  /\ Good(s) /\ Len(s) <= N /\ Journal(s, run.status) /\ ~stale[r]
             /\ idx[r] \in 1..(N + 1)
  <2>1. Good(s) /\ Len(s) <= N
    BY <1>3, Acting
  <2>2. Journal(s, run.status) /\ ~stale[r]
    BY <1>2, <1>3 DEF PhaseInv, SnapGood, AtStale
  <2>3. idx[r] \in 1..(N + 1)
    BY <1>3 DEF TypeOK, InLoop
  <2> QED BY <2>1, <2>2, <2>3
\* a test case without an entry is the one after the last entry
<1>4. ASSUME AtReadable(r), ~HereFound(r)
      PROVE  Len(s) = idx[r] - 1 /\ PassedUpTo(s, idx[r] - 1) /\ Registered(Here(r))
  <2>1. pc[r] = "run" /\ idx[r] \in 1..N /\ Registered(Here(r))
    BY <1>4 DEF AtReadable, TypeOK, InLoop
  <2>2. idx[r] \notin DOMAIN s
    BY <1>4, <2>1, Acting
  <2>3. PassedUpTo(s, idx[r] - 1)
    BY <1>2, <2>1 DEF PhaseInv, AtRun
  <2>4. idx[r] - 1 = 0 \/ idx[r] - 1 \in DOMAIN s
    BY <2>1, <2>3 DEF PassedUpTo
  <2>5. Len(s) = idx[r] - 1
    BY <1>1, <2>1, <2>2, <2>4
  <2> QED BY <2>1, <2>3, <2>5
<1> USE DEF PhaseInv, SnapGood, AtRun, AtTest, AtVerdict, AtStale, AtClean, AtEntry
<1> HIDE DEF s
<1>5. CASE RunAllDone(r)
  <2>1. idx[r] = N + 1 /\ PassedUpTo(s, N)
    BY <1>2, <1>3, <1>5 DEF RunAllDone, s
  <2>2. AllPassed(s)
    BY <1>1, <1>3, <1>5, <2>1 DEF AllPassed, PassedUpTo, RunAllDone
  <2> QED BY <1>2, <1>3, <1>5, <2>2 DEF RunAllDone, GoTo, TypeOK, s
<1>6. CASE RunBreaksOff(r)
  BY <1>2, <1>6, PhaseLeft DEF RunBreaksOff, ReturnError
<1>7. CASE RunMalformed(r)
  <2>1. idx[r] \in 1..N /\ Here(r).config = "malformed"
    BY <1>7 DEF RunMalformed, TypeOK, InLoop
  <2> QED BY <2>1 DEF Distinct, Here
<1>8. CASE RunSkipsPassed(r)
  <2>1. /\ pc[r] = "run" /\ idx[r] \in 1..N /\ HereFound(r)
        /\ isTestCasePassed(HereEntry(r))
    BY <1>8 DEF RunSkipsPassed, AtReadable, TypeOK, InLoop
  <2>2. idx[r] \in DOMAIN s /\ isTestCasePassed(s[idx[r]])
    BY <2>1, Acting DEF s
  <2>3. PassedUpTo(s, idx[r] - 1)
    BY <1>2, <2>1 DEF s
  <2>4. PassedUpTo(s, (idx[r] + 1) - 1)
    BY <1>1, <2>1, <2>2, <2>3 DEF PassedUpTo
  <2> QED BY <1>2, <1>3, <1>8, <2>1, <2>4 DEF RunSkipsPassed, GoTo, TypeOK, s
<1>9. CASE RunStopsAtFailed(r)
  <2>1. /\ pc[r] = "run" /\ idx[r] \in 1..N /\ HereFound(r)
        /\ isTestCaseFailed(HereEntry(r))
    BY <1>9 DEF RunStopsAtFailed, AtReadable, TypeOK, InLoop
  <2>2. HasFailed(s)
    BY <2>1, Acting DEF s, HasFailed
  <2> QED BY <1>2, <1>3, <1>9, <2>1, <2>2 DEF RunStopsAtFailed, GoTo, TypeOK, s
<1>11. CASE CreateObject(r)
  BY <1>2, <1>3, <1>4, <1>11 DEF CreateObject, AtCreate, AtRunCall, AtReadable, TypeOK, s, Here
<1>12. CASE RunFails(r)
  BY <1>2, <1>3, <1>4, <1>12 DEF RunFails, Conclude, AtRunCall, AtReadable, TypeOK, s, Here
<1>13. CASE PollReady(r) \/ PollFails(r)
  BY <1>2, <1>3, <1>13 DEF PollReady, PollFails, Conclude, TypeOK, s, Here
<1>14. ASSUME pc[r] = "recordRun", Accepts(r)
       PROVE  /\ Good(AfterRun(r)) /\ AfterRun(r) \in Stati
              /\ result[r] => PassedUpTo(AfterRun(r), idx[r])
  BY <1>14, RunRecorded
<1>15. CASE RecordPassed(r)
  <2>1. pc[r] = "recordRun" /\ Accepts(r) /\ result[r]
    BY <1>15 DEF RecordPassed
  <2>2. run.status' = AfterRun(r) /\ snap'[r].status = AfterRun(r)
    BY <1>15 DEF RecordPassed, Write, TypeOK
  <2>3. Journal(AfterRun(r), AfterRun(r))
    BY <1>14, <2>1, JournalReflexive DEF Stati
  <2>4. pc'[r] = "run" /\ idx'[r] = idx[r] + 1 /\ stale'[r] = stale[r]
    BY <1>15 DEF RecordPassed, GoTo, TypeOK
  <2>5. PassedUpTo(AfterRun(r), (idx[r] + 1) - 1)
    <3>1. (idx[r] + 1) - 1 = idx[r]
      BY <1>1
    <3> QED BY <1>14, <2>1, <3>1
  <2> QED BY <1>3, <1>14, <2>1, <2>2, <2>3, <2>4, <2>5
<1>16. CASE RecordFailed(r)
  <2>1. run.status' = AfterRun(r) /\ Good(AfterRun(r))
    BY <1>14, <1>16 DEF RecordFailed, Write
  <2> QED BY <1>16, <2>1, PhaseLeft DEF RecordFailed
<1> QED
  BY <1>5, <1>6, <1>7, <1>8, <1>9, <1>11, <1>12, <1>13, <1>15, <1>16 DEF RunStep

\* What a record of a cleanup writes, when the API server accepts it.
LEMMA CleanupRecorded ==
  ASSUME TypeOK, JournalInv, OrderInv, NEW r \in Replicas,
         pc[r] = "recordCleanup", Accepts(r)
  PROVE  /\ AfterCleanup(r) \in Stati /\ Good(AfterCleanup(r))
         /\ ~stale[r] => AllPassed(AfterCleanup(r))
         /\ AllPassed(AfterCleanup(r)) \/ HasFailed(AfterCleanup(r))
         /\ stale[r] => HasFailed(AfterCleanup(r))
<1>1. snap[r].status \in Stati /\ result[r] \in BOOLEAN
  BY DEF TypeOK, Stati
<1>2. /\ Good(snap[r].status) /\ (~stale[r] => AllPassed(snap[r].status))
      /\ AllPassed(snap[r].status) \/ HasFailed(snap[r].status)
      /\ stale[r] => HasFailed(snap[r].status)
  BY DEF OrderInv, PhaseInv, SnapGood, AtVerdict, AtEntry, AtStale
<1>3. AfterCleanup(r) \in Stati
  BY UpdatesTyped DEF Stati
<1>4. /\ Good(snap[r].status) => Good(AfterCleanup(r))
      /\ AllPassed(snap[r].status) => AllPassed(AfterCleanup(r))
      /\ HasFailed(snap[r].status) => HasFailed(AfterCleanup(r))
  BY <1>1, SetCleanupGood DEF AfterCleanup
<1> QED BY <1>2, <1>3, <1>4

\* The two cleanup loops.
LEMMA CleanupStepPhase ==
  ASSUME TypeOK, TypeOK', Distinct, JournalInv, OrderInv, NEW r \in Replicas, CleanupStep(r)
  PROVE  PhaseInv(r)' /\ Good(run.status)'
<1> DEFINE s == snap[r].status
<1> USE CountOfTestCases
<1>1. /\ s \in Stati /\ DOMAIN s = 1..Len(s) /\ Len(s) \in Nat
      /\ run.status \in Stati /\ idx[r] \in Nat
  BY Acting DEF TypeOK, Stati
<1>2. PhaseInv(r) /\ Good(run.status)
  BY DEF OrderInv
<1>3. ASSUME pc[r] \in {"decide", "clean", "waitGone", "recordCleanup"}
      PROVE  /\ Good(s) /\ Len(s) <= N /\ Journal(s, run.status)
             /\ AllPassed(s) \/ HasFailed(s)
             /\ idx[r] \in 0..N /\ (pc[r] = "decide" => ~stale[r])
  BY <1>2, <1>3, Acting DEF PhaseInv, SnapGood, AtVerdict, AtStale, TypeOK, InLoop
<1>4. ASSUME AtReadableCleanup(r), Cleanable(r)
      PROVE  idx[r] \in DOMAIN s /\ (~stale[r] => AllPassed(s)) /\ pc[r] = "clean"
  BY <1>4, CleanupNeedsVerdict DEF AtReadableCleanup
<1> USE DEF PhaseInv, SnapGood, AtRun, AtTest, AtVerdict, AtStale, AtClean, AtEntry
<1> HIDE DEF s
<1>5. CASE DecideWait(r)
  BY <1>2, <1>5, PhaseLeft DEF DecideWait, ReturnLater
<1>6. CASE DecideStaleCleanup(r)
  <2>1. StaleEnabled /\ aged /\ HasFailed(s)
    BY <1>6 DEF DecideStaleCleanup, Stale, isRunFailedAndNotCleaned, HasFailed, s
  <2> QED BY <1>2, <1>3, <1>6, <2>1 DEF DecideStaleCleanup, GoTo, TypeOK, s
<1>7. CASE DecideCleanup(r)
  BY <1>2, <1>3, <1>7 DEF DecideCleanup, GoTo, TypeOK, s
<1>8. CASE CleanupAllDone(r) \/ CleanupUnreadable(r) \/ CleanupBreaks(r)
  BY <1>2, <1>8, PhaseLeft
  DEF CleanupAllDone, CleanupUnreadable, CleanupBreaks, ReturnDone, ReturnError
<1>9. CASE CleanupSkipsUnregistered(r)
  <2>1. pc[r] = "clean" /\ idx[r] > 0 /\ ~Registered(SpecTestCases[idx[r]])
    BY <1>9 DEF CleanupSkipsUnregistered, Here
  <2>2. idx[r] \notin DOMAIN s
    BY <1>3, <2>1 DEF Good
  <2>3. AllPassed(s) \/ Len(s) <= idx[r] - 1 \/ stale[r]
    <3>1. AllPassed(s) \/ stale[r] \/ Len(s) <= idx[r]
      BY <1>2, <2>1 DEF s
    <3>2. ~(Len(s) = idx[r])
      BY <1>1, <2>1, <2>2
    <3> QED BY <1>1, <3>1, <3>2
  <2> QED BY <1>2, <1>3, <1>9, <2>1, <2>3 DEF CleanupSkipsUnregistered, GoTo, TypeOK, s
<1>10. CASE CleanupSkips(r)
  <2>1. pc[r] = "clean" /\ (stale[r] \/ AllPassed(s))
    BY <1>4, <1>10 DEF CleanupSkips, AtReadableCleanup
  <2> QED BY <1>2, <1>3, <1>10, <2>1 DEF CleanupSkips, GoTo, TypeOK, s
<1>11. CASE CleanupNothing(r) \/ DeleteNotFound(r)
  BY <1>2, <1>3, <1>4, <1>11 DEF CleanupNothing, DeleteNotFound, AtCleanup, Conclude, TypeOK, s
<1>12. CASE DeleteObject(r)
  BY <1>2, <1>3, <1>4, <1>12 DEF DeleteObject, AtCleanup, TypeOK, s
<1>13. CASE WaitGone(r)
  BY <1>2, <1>3, <1>13 DEF WaitGone, Conclude, TypeOK, s
<1>14. CASE RecordCleaned(r)
  <2>1. pc[r] = "recordCleanup" /\ Accepts(r)
    BY <1>14 DEF RecordCleaned
  <2>2. /\ run.status' = AfterCleanup(r) /\ snap'[r].status = AfterCleanup(r)
        /\ pc'[r] = "clean" /\ stale'[r] = stale[r] /\ aged' = aged
    BY <1>14 DEF RecordCleaned, Write, GoTo, TypeOK
  <2>3. Journal(AfterCleanup(r), AfterCleanup(r))
    BY <2>1, CleanupRecorded, JournalReflexive DEF Stati
  <2>4. stale[r] => StaleEnabled /\ aged
    BY <1>2
  <2> QED BY <2>1, <2>2, <2>3, <2>4, CleanupRecorded
<1>15. CASE RecordCleanupError(r)
  <2>1. run.status' = AfterCleanup(r) /\ Good(AfterCleanup(r))
    BY <1>15, CleanupRecorded DEF RecordCleanupError, Write
  <2> QED BY <1>15, <2>1, PhaseLeft DEF RecordCleanupError
<1> QED
  BY <1>5, <1>6, <1>7, <1>8, <1>9, <1>10, <1>11, <1>12, <1>13, <1>14, <1>15 DEF CleanupStep

\* The fetch, the rejected update and the faults.
LEMMA OtherStepPhase ==
  ASSUME TypeOK, TypeOK', Distinct, JournalInv, OrderInv, NEW r \in Replicas,
         \/ FetchFound(r) \/ FetchNotFound(r) \/ UpdateRejected(r) \/ FaultStep(r)
  PROVE  PhaseInv(r)' /\ Good(run.status)'
<1>1. PhaseInv(r) /\ Good(run.status) /\ run.status \in Stati
  BY DEF OrderInv, TypeOK, Stati
<1> USE DEF PhaseInv, SnapGood, AtRun, AtTest, AtVerdict, AtStale, AtClean, AtEntry, Fault
<1>2. CASE FetchFound(r)
  <2>1. /\ pc[r] = "idle" /\ pc'[r] = "run" /\ idx'[r] = 1 /\ stale'[r] = stale[r]
        /\ snap'[r].status = run.status /\ run' = run
    BY <1>2 DEF FetchFound, GoTo, TypeOK
  <2>2. PassedUpTo(run.status, 1 - 1) /\ Journal(run.status, run.status)
    BY <1>1, JournalReflexive DEF PassedUpTo, Stati
  <2> QED BY <1>1, <2>1, <2>2
<1>3. CASE FetchNotFound(r) \/ FetchFails(r)
  BY <1>1, <1>3 DEF FetchNotFound, FetchFails, local, Here
<1>4. CASE UpdateRejected(r) \/ UpdateFails(r) \/ Crash(r)
  BY <1>1, <1>4, PhaseLeft DEF UpdateRejected, UpdateFails, Crash, ReturnError
<1>5. CASE DeleteFails(r)
  <2>1. /\ pc[r] = "clean" /\ idx[r] \in DOMAIN snap[r].status
        /\ ~stale[r] => AllPassed(snap[r].status)
    BY <1>5, CleanupNeedsVerdict DEF DeleteFails, AtCleanup, AtReadableCleanup
  <2> QED BY <1>1, <1>5, <2>1 DEF DeleteFails, Conclude, TypeOK
<1>6. CASE WaitGoneFails(r)
  BY <1>1, <1>6 DEF WaitGoneFails, Conclude, TypeOK
<1>7. CASE UpdateLost(r)
  <2>1. run.status' = Updated(r) /\ Accepts(r) /\ AtUpdate(r) /\ Leave(r)
    BY <1>7 DEF UpdateLost, Write
  <2>2. CASE pc[r] = "recordRun"
    BY <2>1, <2>2, RunRecorded, PhaseLeft DEF Updated
  <2>3. CASE pc[r] = "recordCleanup"
    BY <2>1, <2>3, CleanupRecorded, PhaseLeft DEF Updated
  <2> QED BY <2>1, <2>2, <2>3 DEF AtUpdate
<1> QED BY <1>2, <1>3, <1>4, <1>5, <1>6, <1>7 DEF FaultStep

\* Every step of the controller keeps the invariant of the phases.
LEMMA OrderInvInductive ==
  ASSUME TypeOK, TypeOK', Distinct, JournalInv, OrderInv, [Next]_vars
  PROVE  OrderInv'
<1>1. ASSUME NEW r \in Replicas, Worker(r) \/ FaultStep(r) PROVE OrderInv'
  <2>1. PhaseInv(r)' /\ Good(run.status)'
    BY <1>1, RunStepPhase, CleanupStepPhase, OtherStepPhase DEF Worker
  <2>2. ASSUME NEW q \in Replicas, q # r PROVE PhaseInv(q)'
    BY <1>1, <2>1, <2>2, OthersKept, PhaseKept
  <2> QED BY <2>1, <2>2 DEF OrderInv
<1>2. CASE Environment \/ UNCHANGED vars
  <2>1. /\ run'.status = run.status /\ (aged => aged')
        /\ pc' = pc /\ idx' = idx /\ snap' = snap /\ stale' = stale
    BY <1>2 DEF Environment, Resync, TimerFires, BecomeReady, FinishDeletion, Age,
                UserDeletes, local, vars, TypeOK
  <2>2. Good(run.status)'
    BY <2>1 DEF OrderInv
  <2>3. ASSUME NEW q \in Replicas PROVE PhaseInv(q)'
    BY <2>1, <2>2, PhaseKept
  <2> QED BY <2>2, <2>3 DEF OrderInv
<1> QED BY <1>1, <1>2 DEF Next

\* So it holds in every reachable state.
LEMMA OrderInvariant == ASSUME Distinct PROVE Spec => [](TypeOK /\ JournalInv /\ OrderInv)
<1>1. Init => OrderInv
  BY CountOfTestCases
  DEF Init, OrderInv, Good, PrefixOfSpec, PhaseInv, SnapGood, AtRun, AtTest,
      AtVerdict, AtStale, AtClean, AtEntry
<1>2. TypeOK /\ TypeOK' /\ JournalInv /\ OrderInv /\ [Next]_vars => OrderInv'
  BY OrderInvInductive
<1> QED BY <1>1, <1>2, JournalInvariant, PTL DEF Spec

(***************************************************************************)
(* The entries of the status are those of a prefix of the spec, and all    *)
(* but the last passed: no test case runs out of turn, twice, or after a   *)
(* failure, whatever replicas and crashes interleave.                      *)
(***************************************************************************)
THEOREM StatusMirrorsSpec == ASSUME Distinct PROVE Spec => []StatusIsPrefix
<1>1. OrderInv => StatusIsPrefix
  BY DEF OrderInv, Good, StatusIsPrefix
<1> QED BY <1>1, OrderInvariant, PTL

\* Only a delete call makes an object terminate, and it has a verdict to show.
LEMMA DeletionHasVerdict ==
  ASSUME TypeOK, Distinct, OrderInv, [Next]_vars, NEW n \in Names,
         res[n] # "terminating", res'[n] = "terminating"
  PROVE  MayDelete
<1>1. ASSUME NEW r \in Replicas, DeleteObject(r) \/ DeleteFails(r) PROVE MayDelete
  <2>1. AtReadableCleanup(r) /\ Cleanable(r) /\ pc[r] = "clean"
    BY <1>1 DEF DeleteObject, DeleteFails, AtCleanup, AtReadableCleanup
  <2>2. ~stale[r] => AllPassed(snap[r].status)
    BY <2>1, CleanupNeedsVerdict
  <2>3. stale[r] => StaleEnabled /\ aged /\ HasFailed(snap[r].status)
    BY DEF OrderInv, PhaseInv, AtStale
  <2>4. /\ snap[r].status \in Stati /\ run.status \in Stati
        /\ Journal(snap[r].status, run.status) /\ Good(run.status)
    BY <2>1 DEF OrderInv, PhaseInv, SnapGood, TypeOK, Stati
  <2> QED BY <2>2, <2>3, <2>4, VerdictStable DEF MayDelete
<1>2. ASSUME NEW r \in Replicas, RunStep(r) PROVE FALSE
  BY <1>2 DEF RunStep, RunAllDone, RunBreaksOff, RunMalformed, RunSkipsPassed,
      RunStopsAtFailed, RunFails, CreateObject, PollReady, PollFails,
      RecordPassed, RecordFailed, TypeOK
<1>3. ASSUME NEW r \in Replicas, CleanupStep(r) \/ FaultStep(r),
             ~DeleteObject(r), ~DeleteFails(r)
      PROVE  FALSE
  BY <1>3 DEF CleanupStep, DecideWait, DecideStaleCleanup, DecideCleanup, CleanupAllDone,
      CleanupSkipsUnregistered, CleanupUnreadable, CleanupBreaks, CleanupSkips,
      CleanupNothing, DeleteNotFound, WaitGone, RecordCleaned, RecordCleanupError,
      FaultStep, FetchFails, WaitGoneFails, UpdateFails, UpdateLost, Crash
<1>4. ASSUME NEW r \in Replicas, FetchFound(r) \/ FetchNotFound(r) \/ UpdateRejected(r)
      PROVE  FALSE
  BY <1>4 DEF FetchFound, FetchNotFound, UpdateRejected
<1>5. CASE Environment
  BY <1>5 DEF Environment, Resync, TimerFires, BecomeReady, FinishDeletion, Age,
      UserDeletes, TypeOK
<1>6. CASE UNCHANGED vars
  BY <1>6 DEF vars
<1> QED BY <1>1, <1>2, <1>3, <1>4, <1>5, <1>6 DEF Next, Worker

(***************************************************************************)
(* What a run built is deleted only after its verdict: all test cases      *)
(* passed, or one failed and the run is stale.                             *)
(***************************************************************************)
THEOREM NothingDeletedBeforeVerdict ==
  ASSUME Distinct PROVE Spec => DeletedOnlyAfterVerdict
<1>1. TypeOK /\ OrderInv /\ [Next]_vars =>
        [\A n \in Names : res[n] # "terminating" /\ res'[n] = "terminating" => MayDelete]_vars
  BY DeletionHasVerdict
<1> QED BY <1>1, OrderInvariant, PTL DEF Spec, DeletedOnlyAfterVerdict
=============================================================================
