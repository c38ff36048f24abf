-------------------------- MODULE TestRunnerProofs --------------------------
(***************************************************************************)
(* Proofs about TestRunner, for every set of runs, every number of test    *)
(* cases and any number of failures of either pod: no test case meets a    *)
(* missing CRD, and each run gets what it would get alone.                 *)
(***************************************************************************)
EXTENDS TestRunner, TLAPS

(***************************************************************************)
(* What an earlier start of the init job has applied stays, so the sets    *)
(* are always there in the order of the steps; a process that is up has    *)
(* found the last one, and only a process that is up has a worker.         *)
(***************************************************************************)
CRDInv ==
    /\ init \in 0..4
    /\ crds \subseteq CRDSets
    /\ init >= 2 => "openmcp" \in crds
    /\ init >= 3 => "projectWorkspace" \in crds
    /\ "local" \in crds => crds = CRDSets
    /\ process \in Nat
    /\ Up => "local" \in crds
    /\ worker # <<>> => Up

\* Both pods have four steps.
LEMMA FourSteps == Len(InitSteps) = 4 /\ Len(RunSteps) = 4
  BY DEF InitSteps, RunSteps

\* Nothing is applied and nobody works when the program is deployed.
LEMMA CRDsInit == Init => CRDInv
  BY FourSteps DEF Init, StartupInit, CRDInv, Up

\* A step that leaves both pods alone and starts no work without the process being up.
LEMMA PodsAlone ==
  ASSUME CRDInv, UNCHANGED <<crds, init, process>>, Up \/ worker' = worker \/ worker' = <<>>
  PROVE  CRDInv'
  BY DEF CRDInv, Up

\* The init job applies a set after those before it.
LEMMA CRDsApplied ==
  ASSUME CRDInv, NEW set \in CRDSets, InitAppliesCRDs(set), UNCHANGED worker
  PROVE  CRDInv'
<1>1. /\ init \in 0..3 /\ init' = init + 1 /\ crds' = crds \cup {set}
      /\ process' = process /\ InitSteps[init + 1] = set
  BY FourSteps DEF CRDInv, InitAppliesCRDs, InitAt, InitDone
<1>2. /\ init = 0 => set = "access"
      /\ init = 1 => set = "openmcp"
      /\ init = 2 => set = "projectWorkspace"
      /\ init = 3 => set = "local"
  BY <1>1 DEF InitSteps
<1>3. CASE init = 0
  BY <1>2, <1>3 DEF CRDSets
<1>4. CASE init = 1
  BY <1>1, <1>2, <1>4 DEF CRDInv, CRDSets, Up
<1>5. CASE init = 2
  BY <1>1, <1>2, <1>5 DEF CRDInv, CRDSets, Up
<1>6. CASE init = 3
  <2>1. "openmcp" \in crds /\ "projectWorkspace" \in crds /\ crds \subseteq CRDSets
    BY <1>6 DEF CRDInv
  <2>2. set = "local"
    BY <1>2, <1>6
  <2>3. crds' = CRDSets
    BY <1>1, <2>1, <2>2 DEF CRDSets
  <2>4. init' = 4
    BY <1>1, <1>6
  <2>5. process \in Nat /\ (worker # <<>> => Up) /\ (Up' <=> Up) /\ worker' = worker
    BY <1>1 DEF CRDInv, Up
  <2>6. {"openmcp", "projectWorkspace", "local"} \subseteq crds'
    BY <2>3 DEF CRDSets
  <2> QED BY <1>1, <2>3, <2>4, <2>5, <2>6 DEF CRDInv
<1>7. init = 0 \/ init = 1 \/ init = 2 \/ init = 3
  BY <1>1
<1> QED BY <1>3, <1>4, <1>5, <1>6, <1>7

\* Every step of the program keeps the order of the CRDs.
LEMMA CRDsStep == CRDInv /\ [Next]_vars => CRDInv'
<1> SUFFICES ASSUME CRDInv, [Next]_vars
             PROVE  CRDInv'
  OBVIOUS
<1>1. CASE InitPod
  <2>1. UNCHANGED worker
    BY <1>1 DEF InitPod, Unaffected
  <2>2. CASE InitGetsAccess
    <3>1. init' = init + 1 /\ init = 0 /\ UNCHANGED <<crds, process>>
      <4>1. init \in 0..3 /\ InitSteps[init + 1] = "access"
        BY <2>2, FourSteps DEF CRDInv, InitGetsAccess, InitAt, InitDone
      <4>2. init = 0
        BY <4>1 DEF InitSteps
      <4> QED BY <2>2, <4>2 DEF InitGetsAccess
    <3> QED BY <2>1, <3>1 DEF CRDInv, Up
  <2>3. CASE \E set \in CRDSets : InitAppliesCRDs(set)
    BY <2>1, <2>3, CRDsApplied
  <2> QED BY <1>1, <2>2, <2>3 DEF InitPod, InitStep
<1>2. CASE InitPodDies
  BY <1>2 DEF InitPodDies, InitFails, Unaffected, CRDInv, Up
<1>3. CASE ProcessPod
  <2>1. UNCHANGED worker
    BY <1>3 DEF ProcessPod, Unaffected
  <2>2. CASE ProcessStep
    <3>1. /\ process' = process + 1 /\ UNCHANGED <<crds, init>> /\ process \in Nat
          /\ ~Up /\ RunSteps[process + 1] # "caches"
      BY <2>2 DEF ProcessStep, ProcessGetsAccess, ProcessSetsUp, ProcessAt, CRDInv
    <3>2. process # 3
      BY <3>1 DEF RunSteps
    <3>3. ~Up'
      BY <3>1, <3>2, FourSteps DEF Up
    <3> QED BY <2>1, <3>1, <3>3 DEF CRDInv
  <2>3. CASE CachesTimeOut
    <3>1. process' = 0 /\ UNCHANGED <<crds, init>> /\ ~Up
      BY <2>3 DEF CachesTimeOut, ProcessAt
    <3> QED BY <2>1, <3>1, FourSteps DEF CRDInv, Up
  <2> QED BY <1>3, <2>2, <2>3 DEF ProcessPod
<1>4. CASE Accesses
  <2>1. UNCHANGED <<crds, init, process, worker>>
    BY <1>4 DEF Accesses, AccessStep, Request, Grant, Unaffected
  <2> QED BY <2>1, PodsAlone
<1>5. CASE ComeUp
  BY <1>5 DEF ComeUp, CachesSync, ProcessAt, CRDInv
<1>6. CASE GoDown
  <2>1. process' = 0 /\ worker' = <<>> /\ UNCHANGED <<crds, init>>
    BY <1>6 DEF GoDown, ProcessDies
  <2> QED BY <2>1, FourSteps DEF CRDInv, Up
<1>7. ASSUME NEW r \in Runs, Take(r)
      PROVE  CRDInv'
  BY <1>7, PodsAlone DEF Take, startup
<1>8. ASSUME NEW r \in Runs, Worker(r)
      PROVE  CRDInv'
  <2>1. UNCHANGED startup /\ worker # <<>>
    BY <1>8 DEF Worker, BreakOff, CreateObject, RecordPassed, RecordFailed, WaitUntilStale,
                LeaveFailed, StartCleanup, MarkFailed, FinishCleanup, DeleteObject,
                RecordCleaned, AtCase, AtChoice, AtCleanup, At
  <2>2. Up
    BY <2>1 DEF CRDInv
  <2> QED BY <2>1, <2>2, PodsAlone DEF startup
<1>9. ASSUME NEW r \in Runs, ReconcileFails(r)
      PROVE  CRDInv'
  BY <1>9, PodsAlone DEF ReconcileFails, RetryLater
<1>10. ASSUME NEW r \in Runs, CreateRun(r) \/ Age(r)
       PROVE  CRDInv'
  BY <1>10, PodsAlone DEF CreateRun, Age, startup
<1>11. ASSUME NEW key \in DOMAIN objects, Vanish(key)
       PROVE  CRDInv'
  BY <1>11, PodsAlone DEF Vanish, startup
<1>12. CASE UNCHANGED vars
  BY <1>12, PodsAlone DEF vars, startup
<1> QED BY <1>1, <1>2, <1>3, <1>4, <1>5, <1>6, <1>7, <1>8, <1>9, <1>10, <1>11, <1>12 DEF Next

(***************************************************************************)
(* No test case is run before all three sets of CRDs that the init job     *)
(* applies are there, whichever pod is faster and however often either of  *)
(* them starts anew.                                                       *)
(***************************************************************************)
THEOREM NoTestWithoutCRDs == Spec => []TestsFindTheirCRDs
<1>1. CRDInv => TestsFindTheirCRDs
  BY DEF CRDInv, TestsFindTheirCRDs
<1> QED BY <1>1, CRDsInit, CRDsStep, PTL DEF Spec

-----------------------------------------------------------------------------
(* Every run by itself *)

\* the verdict that lets the objects of the run go
Released(r) == IF r \in failed THEN r \in aged ELSE AllPassed(r)
\* the cleanup of the failed test case, which does nothing, is recorded
FailureDone(r) == r \in failed => r \in marked

Stages == {"run", "poll", "clean", "wait"}
Valued ==
    /\ passed \in [Runs -> 0..K] /\ cleaned \in [Runs -> 0..K]
    /\ objects \in [DOMAIN objects -> [by : Runs, going : BOOLEAN]]
    /\ worker = <<>> \/ worker \in created \X Stages

\* what the worker, at a stage of Reconcile, relies on
Standing(r) ==
    /\ r \in failed => passed[r] < K
    /\ cleaned[r] <= passed[r]
    /\ cleaned[r] > 0 => Released(r) /\ FailureDone(r)
    /\ r \in marked => r \in failed /\ r \in aged
    /\ At(r, "poll") => r \notin failed /\ passed[r] < K
    /\ At(r, "clean") => Released(r)
    /\ At(r, "wait") => Released(r) /\ FailureDone(r) /\ cleaned[r] < passed[r]

RunsInv == TypeOK /\ Valued /\ \A r \in Runs : Standing(r)

\* the objects of a run, as its verdicts and its cleanup have left them
Shape(r) ==
    \A i \in 1..K :
        /\ i <= passed[r] - cleaned[r] =>
              Seen(r, i) = "up" \/ (i = passed[r] - cleaned[r] /\ Released(r))
        /\ passed[r] - cleaned[r] < i /\ i <= passed[r] => Seen(r, i) = "absent"
        /\ i = passed[r] + 1 => Seen(r, i) # "going"
        /\ i > passed[r] + 1 => Seen(r, i) = "absent"

\* what carries a run's name was created by it
Owned == \A r \in Runs : \A i \in 1..K :
            Present(Key(r, i)) => objects[Key(r, i)].by = r

-----------------------------------------------------------------------------
(* Types *)

\* the two pods, by themselves
PodsTyped ==
    /\ flags \in Flags /\ crds \subseteq CRDSets /\ faults \in 0..MaxFaults
    /\ access \in [{"onboarding-init", "onboarding-run"} -> {"none", "requested", "granted"}]
    /\ init \in 0..Len(InitSteps) /\ process \in 0..Len(RunSteps)

\* the runs, by themselves
RunsTyped ==
    /\ created \subseteq Runs /\ failed \subseteq created /\ marked \subseteq failed
    /\ aged \subseteq failed /\ queue \subseteq created /\ timer \subseteq failed
    /\ DOMAIN objects \subseteq Keys
    /\ Valued

\* The pods count their steps and stay within them.
LEMMA PodsStep == PodsTyped /\ [Next]_vars => PodsTyped'
<1> SUFFICES ASSUME PodsTyped, [Next]_vars PROVE PodsTyped'
  OBVIOUS
<1> USE FourSteps DEF PodsTyped
<1>1. Fault => faults' \in 0..MaxFaults
  BY StartupAssumption DEF Fault
<1>2. CASE InitPod
  <2>1. init' = init + 1 /\ init \in 0..3 /\ UNCHANGED <<flags, access, process, faults>>
        /\ crds' \subseteq CRDSets
    BY <1>2 DEF InitPod, InitStep, InitGetsAccess, InitAppliesCRDs, InitAt, InitDone
  <2> QED BY <2>1
<1>3. CASE InitPodDies
  BY <1>1, <1>3 DEF InitPodDies, InitFails
<1>4. CASE ProcessPod
  <2>1. /\ UNCHANGED <<flags, access, crds, init, faults>>
        /\ process' = 0 \/ (process' = process + 1 /\ process \in 0..3)
    BY <1>4 DEF ProcessPod, ProcessStep, ProcessGetsAccess, ProcessSetsUp, CachesTimeOut,
                ProcessAt, Up
  <2> QED BY <2>1
<1>5. CASE Accesses
  BY <1>5 DEF Accesses, AccessStep, Request, Grant
<1>6. CASE ComeUp
  <2>1. UNCHANGED <<flags, access, crds, init, faults>> /\ process' = process + 1
        /\ process \in 0..3
    BY <1>6 DEF ComeUp, CachesSync, ProcessAt, Up
  <2> QED BY <2>1
<1>7. CASE GoDown
  BY <1>1, <1>7 DEF GoDown, ProcessDies
<1>8. ASSUME NEW r \in Runs, ReconcileFails(r) PROVE PodsTyped'
  BY <1>1, <1>8 DEF ReconcileFails
<1>9. CASE UNCHANGED startup
  BY <1>9 DEF startup
<1>10. ASSUME NEW r \in Runs, Take(r) \/ Worker(r) \/ CreateRun(r) \/ Age(r)
       PROVE  UNCHANGED startup
  BY <1>10 DEF Take, Worker, CreateRun, Age, BreakOff, CreateObject, RecordPassed,
               RecordFailed, WaitUntilStale, LeaveFailed, StartCleanup, MarkFailed,
               FinishCleanup, DeleteObject, RecordCleaned
<1>11. ASSUME NEW key \in DOMAIN objects, Vanish(key) PROVE UNCHANGED startup
  BY <1>11 DEF Vanish
<1>12. CASE UNCHANGED vars
  BY <1>9, <1>12 DEF vars
<1> QED BY <1>2, <1>3, <1>4, <1>5, <1>6, <1>7, <1>8, <1>9, <1>10, <1>11, <1>12 DEF Next

\* The worker is at one place of one run.
LEMMA OnePlace ==
  ASSUME NEW r, NEW q, NEW v, NEW w, At(r, v), At(q, w)
  PROVE  q = r /\ w = v /\ worker # <<>>
BY DEF At

\* The next object to create and the last one to clean up are the run's own.
LEMMA KeysOfRun ==
  ASSUME RunsInv, NEW r \in Runs
  PROVE  /\ passed[r] \in 0..K /\ cleaned[r] \in 0..K /\ K \in Nat
         /\ passed[r] < K => passed[r] + 1 \in 1..K /\ NextKey(r) \in Keys
         /\ cleaned[r] < passed[r] =>
               passed[r] - cleaned[r] \in 1..K /\ LastKey(r) \in Keys
<1>1. passed[r] \in 0..K /\ cleaned[r] \in 0..K /\ K \in Nat
  BY RunsAssumption DEF RunsInv, Valued
<1>2. passed[r] < K => passed[r] + 1 \in 1..K
  BY <1>1
<1>3. cleaned[r] < passed[r] => passed[r] - cleaned[r] \in 1..K
  BY <1>1
<1>4. \A i \in 1..K : Key(r, i) \in Keys
  BY DEF Keys
<1> QED BY <1>1, <1>2, <1>3, <1>4 DEF NextKey, LastKey

\* A run whose status stays, and at which the worker does not arrive, stands as before.
LEMMA StandingKept ==
  ASSUME NEW r \in Runs, Standing(r),
         passed'[r] = passed[r], cleaned'[r] = cleaned[r],
         r \in failed' <=> r \in failed, r \in marked' <=> r \in marked,
         r \in aged => r \in aged',
         \A w : At(r, w)' => At(r, w)
  PROVE  Standing(r)'
<1>1. Released(r) => Released(r)'
  BY DEF Released, AllPassed
<1>2. FailureDone(r) => FailureDone(r)'
  BY DEF FailureDone
<1> HIDE DEF Released, FailureDone
<1> QED BY <1>1, <1>2 DEF Standing

\* A step of the worker at one run is nothing to the others.
LEMMA OthersStand ==
  ASSUME RunsInv, NEW r \in Runs, worker' = <<>> \/ \E w : worker' = <<r, w>>,
         \A q \in Runs \ {r} :
            /\ passed'[q] = passed[q] /\ cleaned'[q] = cleaned[q]
            /\ q \in failed' <=> q \in failed
            /\ q \in marked' <=> q \in marked
            /\ q \in aged' <=> q \in aged
  PROVE  \A q \in Runs \ {r} : Standing(q)'
<1> SUFFICES ASSUME NEW q \in Runs \ {r} PROVE Standing(q)'
  OBVIOUS
<1>1. \A w : ~At(q, w)'
  BY DEF At
<1> QED BY <1>1, StandingKept DEF RunsInv

\* The worker leaves a run, or goes on with it, and records nothing.
LEMMA NothingRecorded ==
  ASSUME RunsInv, NEW r \in Runs, UNCHANGED <<created, status, aged, objects>>,
         worker' = <<>> \/ \E w \in Stages : worker' = <<r, w>>,
         r \in created, queue' \subseteq queue \cup {r}, timer' \subseteq failed,
         ~At(r, "poll")', ~At(r, "wait")', At(r, "clean")' => Released(r)
  PROVE  RunsTyped' /\ \A q \in Runs : Standing(q)'
<1>1. RunsTyped'
  BY DEF RunsInv, TypeOK, Valued, RunsTyped, status
<1>2. Standing(r) /\ (Released(r)' <=> Released(r)) /\ (FailureDone(r)' <=> FailureDone(r))
  BY DEF RunsInv, Released, FailureDone, AllPassed, status
<1>3. Standing(r)'
  BY <1>2 DEF Standing, status
<1>4. \A q \in Runs \ {r} : Standing(q)'
  BY OthersStand DEF status
<1> QED BY <1>1, <1>3, <1>4

\* The run the worker is at exists.
LEMMA WorkerAtCreated ==
  ASSUME RunsInv, NEW r \in Runs, NEW w, At(r, w)
  PROVE  r \in created /\ w \in Stages /\ worker = <<r, w>>
BY DEF RunsInv, Valued, At

\* Every step of the worker keeps the types and leaves the run in order.
LEMMA WorkerStands ==
  ASSUME RunsInv, NEW r \in Runs, Worker(r)
  PROVE  RunsTyped' /\ \A q \in Runs : Standing(q)'
<1>1. Standing(r) /\ TypeOK /\ Valued
  BY DEF RunsInv
<1>2. PICK w : At(r, w)
  BY DEF Worker, BreakOff, CreateObject, RecordPassed, RecordFailed, WaitUntilStale,
         LeaveFailed, StartCleanup, MarkFailed, FinishCleanup, DeleteObject,
         RecordCleaned, AtCase, AtChoice, AtCleanup
<1>3. r \in created /\ worker = <<r, w>>
  BY <1>2, WorkerAtCreated
<1>4. /\ passed[r] \in 0..K /\ cleaned[r] \in 0..K /\ K \in Nat
  BY KeysOfRun
<1>5. ASSUME worker' = <<>> \/ worker' = <<r, "run">>,
             queue' = queue \cup {r} \/ queue' = queue, timer' = timer,
             UNCHANGED <<created, status, aged, objects>>
      PROVE  RunsTyped' /\ \A q \in Runs : Standing(q)'
  <2>1. ~At(r, "poll")' /\ ~At(r, "wait")' /\ ~At(r, "clean")'
    BY <1>5 DEF At
  <2>2. timer' \subseteq failed
    BY <1>1, <1>5 DEF TypeOK
  <2> QED BY <1>3, <1>5, <2>1, <2>2, NothingRecorded DEF Stages
<1>6. CASE BreakOff(r) \/ LeaveFailed(r) \/ FinishCleanup(r)
  BY <1>5, <1>6 DEF BreakOff, LeaveFailed, FinishCleanup, RetryLater, Finish
<1>7. CASE WaitUntilStale(r)
  <2>1. ~At(r, "poll")' /\ ~At(r, "wait")' /\ ~At(r, "clean")'
    BY <1>7 DEF At, WaitUntilStale
  <2>2. timer' \subseteq failed
    BY <1>1, <1>7 DEF TypeOK, WaitUntilStale
  <2> QED BY <1>3, <1>7, <2>1, <2>2, NothingRecorded DEF WaitUntilStale
<1>8. CASE StartCleanup(r)
  <2>1. ~At(r, "poll")' /\ ~At(r, "wait")'
    BY <1>8 DEF At, StartCleanup
  <2>2. Released(r)
    BY <1>8 DEF StartCleanup, AtChoice, Released
  <2>3. timer' \subseteq failed
    BY <1>1, <1>8 DEF TypeOK, StartCleanup
  <2> QED BY <1>3, <1>8, <2>1, <2>2, <2>3, NothingRecorded DEF StartCleanup, Stages
<1>9. CASE CreateObject(r)
  <2>1. /\ passed[r] < K /\ r \notin failed /\ NextKey(r) \in Keys
        /\ worker' = <<r, "poll">> /\ UNCHANGED <<created, status, aged, queue, timer>>
    BY <1>1, <1>4, <1>9, KeysOfRun DEF CreateObject, AtCase, AllPassed
  <2>2. /\ DOMAIN objects' = DOMAIN objects \cup {NextKey(r)}
        /\ objects' \in [DOMAIN objects' -> [by : Runs, going : BOOLEAN]]
    BY <1>1, <1>9 DEF CreateObject, Valued, Present
  <2>3. RunsTyped'
    BY <1>1, <1>3, <2>1, <2>2 DEF TypeOK, Valued, RunsTyped, status, Stages
  <2>4. ~At(r, "clean")' /\ ~At(r, "wait")'
    BY <2>1 DEF At
  <2>5. (Released(r)' <=> Released(r)) /\ (FailureDone(r)' <=> FailureDone(r))
    BY <2>1 DEF Released, FailureDone, AllPassed, status
  <2>6. Standing(r)'
    BY <1>1, <2>1, <2>4, <2>5 DEF Standing, status
  <2>7. \A q \in Runs \ {r} : Standing(q)'
    BY <2>1, OthersStand DEF status
  <2> QED BY <2>3, <2>6, <2>7
<1>10. CASE RecordPassed(r)
  <2>1. /\ r \notin failed /\ passed[r] < K /\ worker' = <<r, "run">>
        /\ passed' = [passed EXCEPT ![r] = passed[r] + 1]
        /\ UNCHANGED <<created, failed, marked, cleaned, aged, objects, queue, timer>>
    BY <1>1, <1>10 DEF RecordPassed, Standing
  <2>2. passed[r] + 1 \in 0..K
    BY <1>4, <2>1
  <2>3. passed' \in [Runs -> 0..K] /\ passed'[r] = passed[r] + 1
        /\ \A q \in Runs \ {r} : passed'[q] = passed[q]
    BY <1>1, <2>1, <2>2 DEF Valued
  <2>4. RunsTyped'
    BY <1>1, <1>3, <2>1, <2>3 DEF TypeOK, Valued, RunsTyped, Stages
  <2>5. ~(cleaned[r] > 0)
    BY <1>1, <1>4, <2>1 DEF Standing, Released, AllPassed
  <2>6. cleaned[r] = 0
    BY <1>4, <2>5
  <2>7. r \notin failed' /\ r \notin marked' /\ cleaned'[r] = 0
        /\ ~At(r, "poll")' /\ ~At(r, "clean")' /\ ~At(r, "wait")'
    BY <1>1, <2>1, <2>6 DEF At, TypeOK
  <2>8. Standing(r)'
    BY <1>4, <2>3, <2>7 DEF Standing
  <2>9. \A q \in Runs \ {r} : Standing(q)'
    BY <2>1, <2>3, OthersStand
  <2> QED BY <2>4, <2>8, <2>9
<1>11. CASE RecordFailed(r)
  <2>1. passed[r] < K /\ r \notin failed
    BY <1>1, <1>4, <1>11 DEF RecordFailed, AtCase, AllPassed, Standing
  <2>2. /\ worker' = <<>> /\ failed' = failed \cup {r} /\ queue' = queue \cup {r}
        /\ UNCHANGED <<created, passed, marked, cleaned, aged, objects, timer>>
    BY <1>11 DEF RecordFailed, RetryLater
  <2>3. RunsTyped'
    BY <1>1, <1>3, <2>2 DEF TypeOK, Valued, RunsTyped
  <2>4. cleaned[r] = 0
    <3>1. ~(cleaned[r] > 0)
      BY <1>1, <1>4, <2>1 DEF Standing, Released, AllPassed
    <3> QED BY <1>4, <3>1
  <2>5. r \notin marked' /\ cleaned'[r] = 0 /\ passed'[r] = passed[r]
        /\ ~At(r, "poll")' /\ ~At(r, "clean")' /\ ~At(r, "wait")'
    BY <1>1, <2>1, <2>2, <2>4 DEF At, TypeOK
  <2>6. Standing(r)'
    BY <1>4, <2>1, <2>5 DEF Standing
  <2>7. \A q \in Runs \ {r} : Standing(q)'
    BY <2>2, OthersStand
  <2> QED BY <2>3, <2>6, <2>7
<1>12. CASE MarkFailed(r)
  <2>1. /\ r \in failed /\ r \notin marked /\ marked' = marked \cup {r} /\ At(r, "clean")
        /\ UNCHANGED <<created, passed, failed, cleaned, aged, objects, queue, timer, worker>>
    BY <1>12 DEF MarkFailed
  <2>2. Released(r) /\ r \in aged
    BY <1>1, <2>1 DEF Standing, Released
  <2>3. RunsTyped'
    BY <1>1, <2>1 DEF TypeOK, Valued, RunsTyped
  <2>4. /\ cleaned[r] <= passed[r] /\ passed[r] < K /\ cleaned'[r] = cleaned[r]
        /\ passed'[r] = passed[r] /\ r \in marked' /\ r \in aged' /\ r \in failed'
        /\ ~At(r, "poll")' /\ ~At(r, "wait")'
    BY <1>1, <2>1, <2>2 DEF Standing, At
  <2>5. Standing(r)'
    BY <2>4 DEF Standing, Released, FailureDone
  <2>6. \A q \in Runs \ {r} : Standing(q)'
    BY <1>3, <2>1, OthersStand
  <2> QED BY <2>3, <2>5, <2>6
<1>13. CASE DeleteObject(r)
  <2>1. /\ AtCleanup(r) /\ cleaned[r] < passed[r] /\ LastKey(r) \in DOMAIN objects
        /\ objects' = [objects EXCEPT ![LastKey(r)].going = TRUE]
        /\ worker' = <<r, "wait">> /\ UNCHANGED <<created, status, aged, queue, timer>>
    BY <1>13 DEF DeleteObject, Present
  <2>2. /\ DOMAIN objects' = DOMAIN objects
        /\ objects' \in [DOMAIN objects' -> [by : Runs, going : BOOLEAN]]
    BY <1>1, <2>1 DEF Valued
  <2>3. RunsTyped'
    BY <1>1, <1>3, <2>1, <2>2 DEF TypeOK, Valued, RunsTyped, status, Stages
  <2>4. Released(r) /\ FailureDone(r) /\ (Released(r)' <=> Released(r))
        /\ (FailureDone(r)' <=> FailureDone(r))
    BY <1>1, <2>1 DEF AtCleanup, Standing, Released, FailureDone, AllPassed, status
  <2>5. ~At(r, "poll")' /\ ~At(r, "clean")'
    BY <2>1 DEF At
  <2>6. Standing(r)'
    BY <1>1, <2>1, <2>4, <2>5 DEF Standing, status
  <2>7. \A q \in Runs \ {r} : Standing(q)'
    BY <2>1, OthersStand DEF status
  <2> QED BY <2>3, <2>6, <2>7
<1>14. CASE RecordCleaned(r)
  <2>1. /\ cleaned' = [cleaned EXCEPT ![r] = cleaned[r] + 1] /\ worker' = <<r, "clean">>
        /\ UNCHANGED <<created, passed, failed, marked, aged, objects, queue, timer>>
    BY <1>14 DEF RecordCleaned
  <2>2. Released(r) /\ FailureDone(r) /\ cleaned[r] < passed[r]
    BY <1>1, <1>14 DEF RecordCleaned, AtCleanup, Standing, FailureDone
  <2>3. cleaned[r] + 1 \in 0..K /\ cleaned[r] + 1 <= passed[r]
    BY <1>4, <2>2
  <2>4. cleaned' \in [Runs -> 0..K] /\ cleaned'[r] = cleaned[r] + 1
        /\ \A q \in Runs \ {r} : cleaned'[q] = cleaned[q]
    BY <1>1, <2>1, <2>3 DEF Valued
  <2>5. RunsTyped'
    BY <1>1, <1>3, <2>1, <2>4 DEF TypeOK, Valued, RunsTyped, Stages
  <2>6. Released(r)' /\ FailureDone(r)'
    BY <2>1, <2>2 DEF Released, FailureDone, AllPassed
  <2>7. ~At(r, "poll")' /\ ~At(r, "wait")'
    BY <2>1 DEF At
  <2>8. Standing(r)'
    BY <1>1, <2>1, <2>3, <2>4, <2>6, <2>7 DEF Standing
  <2>9. \A q \in Runs \ {r} : Standing(q)'
    BY <2>1, <2>4, OthersStand
  <2> QED BY <2>5, <2>8, <2>9
<1> QED BY <1>6, <1>7, <1>8, <1>9, <1>10, <1>11, <1>12, <1>13, <1>14 DEF Worker

\* So does everything around the worker.
LEMMA RunsStep == RunsInv /\ [Next]_vars => RunsTyped' /\ \A q \in Runs : Standing(q)'
<1> SUFFICES ASSUME RunsInv, [Next]_vars
             PROVE  RunsTyped' /\ \A q \in Runs : Standing(q)'
  OBVIOUS
<1>1. TypeOK /\ Valued /\ \A q \in Runs : Standing(q)
  BY DEF RunsInv
<1>2. ASSUME UNCHANGED <<created, status, aged>>, worker' = worker \/ worker' = <<>>,
             queue' \subseteq created, timer' \subseteq failed,
             DOMAIN objects' \subseteq Keys,
             objects' \in [DOMAIN objects' -> [by : Runs, going : BOOLEAN]]
      PROVE  RunsTyped' /\ \A q \in Runs : Standing(q)'
  <2>1. RunsTyped'
    BY <1>1, <1>2 DEF TypeOK, Valued, RunsTyped, status
  <2>2. \A q, w : At(q, w)' => At(q, w)
    BY <1>2 DEF At
  <2>3. \A q \in Runs : Standing(q)'
    BY <1>1, <1>2, <2>2, StandingKept DEF status
  <2> QED BY <2>1, <2>3
<1>3. CASE InitPod \/ InitPodDies \/ ProcessPod \/ Accesses
  <2>1. UNCHANGED <<created, status, aged, objects, queue, timer, worker>>
    BY <1>3 DEF InitPod, InitPodDies, ProcessPod, Accesses, Unaffected, Rest
  <2> QED BY <1>1, <1>2, <2>1 DEF TypeOK, Valued
<1>4. CASE ComeUp \/ GoDown
  <2>1. /\ UNCHANGED <<created, status, aged, objects>> /\ queue' \subseteq created
        /\ timer' \subseteq timer
        /\ worker' = worker \/ worker' = <<>>
    BY <1>4 DEF ComeUp, GoDown, Rest
  <2> QED BY <1>1, <1>2, <2>1 DEF TypeOK, Valued
<1>5. ASSUME NEW r \in Runs, Take(r)
      PROVE  RunsTyped' /\ \A q \in Runs : Standing(q)'
  <2>1. /\ r \in created /\ worker' = <<r, "run">> /\ timer' \subseteq failed
        /\ queue' \subseteq queue \cup {r} /\ UNCHANGED <<created, status, aged, objects>>
    BY <1>1, <1>5 DEF Take, TypeOK
  <2>2. ~At(r, "poll")' /\ ~At(r, "wait")' /\ ~At(r, "clean")'
    BY <2>1 DEF At
  <2> QED BY <2>1, <2>2, NothingRecorded DEF Stages
<1>6. ASSUME NEW r \in Runs, Worker(r)
      PROVE  RunsTyped' /\ \A q \in Runs : Standing(q)'
  BY <1>6, WorkerStands
<1>7. ASSUME NEW r \in Runs, ReconcileFails(r)
      PROVE  RunsTyped' /\ \A q \in Runs : Standing(q)'
  <2>1. r \in created
    BY <1>1, <1>7 DEF ReconcileFails, Valued
  <2>2. /\ worker' = <<>> /\ queue' = queue \cup {r} /\ timer' = timer
        /\ UNCHANGED <<created, status, aged, objects>>
    BY <1>7 DEF ReconcileFails, RetryLater, status
  <2> QED BY <1>1, <1>2, <2>1, <2>2 DEF TypeOK, Valued
<1>8. ASSUME NEW r \in Runs, CreateRun(r)
      PROVE  RunsTyped' /\ \A q \in Runs : Standing(q)'
  <2>1. /\ created' = created \cup {r} /\ queue' \subseteq queue \cup {r}
        /\ UNCHANGED <<status, aged, objects, timer, worker>>
    BY <1>8 DEF CreateRun
  <2>2. RunsTyped'
    BY <1>1, <2>1 DEF TypeOK, Valued, RunsTyped, status
  <2>3. \A q, w : At(q, w)' => At(q, w)
    BY <2>1 DEF At
  <2>4. \A q \in Runs : Standing(q)'
    BY <1>1, <2>1, <2>3, StandingKept DEF status
  <2> QED BY <2>2, <2>4
<1>9. ASSUME NEW r \in Runs, Age(r)
      PROVE  RunsTyped' /\ \A q \in Runs : Standing(q)'
  <2>1. /\ aged' = aged \cup {r} /\ r \in failed
        /\ queue' = queue \cup (timer \cap {r}) /\ timer' = timer \ {r}
        /\ UNCHANGED <<created, status, objects, worker>>
    BY <1>9 DEF Age
  <2>2. RunsTyped'
    BY <1>1, <2>1 DEF TypeOK, Valued, RunsTyped, status
  <2>3. \A q, w : At(q, w)' => At(q, w)
    BY <2>1 DEF At
  <2>4. \A q \in Runs : Standing(q)'
    BY <1>1, <2>1, <2>3, StandingKept DEF status
  <2> QED BY <2>2, <2>4
<1>10. ASSUME NEW key \in DOMAIN objects, Vanish(key)
       PROVE  RunsTyped' /\ \A q \in Runs : Standing(q)'
  <2>1. /\ objects' = [k \in DOMAIN objects \ {key} |-> objects[k]]
        /\ UNCHANGED <<created, status, aged, queue, timer, worker>>
    BY <1>10 DEF Vanish
  <2>2. DOMAIN objects' \subseteq Keys
        /\ objects' \in [DOMAIN objects' -> [by : Runs, going : BOOLEAN]]
    BY <1>1, <2>1 DEF TypeOK, Valued
  <2> QED BY <1>1, <1>2, <2>1, <2>2 DEF TypeOK
<1>11. CASE UNCHANGED vars
  BY <1>1, <1>2, <1>11 DEF vars, TypeOK, Valued
<1> QED BY <1>3, <1>4, <1>5, <1>6, <1>7, <1>8, <1>9, <1>10, <1>11 DEF Next

\* The types are those of the pods and those of the runs.
LEMMA TypesTogether ==
  (RunsTyped /\ PodsTyped /\ \A r \in Runs : Standing(r)) <=> RunsInv
<1>1. ASSUME RunsTyped, PodsTyped, \A r \in Runs : Standing(r) PROVE RunsInv
  <2>1. \A r \in Runs : passed[r] \in 0..K /\ cleaned[r] \in 0..passed[r]
    <3> SUFFICES ASSUME NEW r \in Runs PROVE passed[r] \in 0..K /\ cleaned[r] \in 0..passed[r]
      OBVIOUS
    <3>1. passed[r] \in 0..K /\ cleaned[r] \in 0..K /\ cleaned[r] <= passed[r] /\ K \in Nat
      BY <1>1, RunsAssumption DEF RunsTyped, Valued, Standing
    <3> QED BY <3>1
  <2>2. worker = <<>> \/ (worker[1] \in created /\ worker[2] \in Stages)
    BY <1>1 DEF RunsTyped, Valued
  <2>3. TypeOK
    BY <1>1, <2>1, <2>2 DEF RunsTyped, PodsTyped, TypeOK, Stages
  <2> QED BY <1>1, <2>3 DEF RunsInv, RunsTyped
<1>2. ASSUME RunsInv PROVE RunsTyped /\ PodsTyped /\ \A r \in Runs : Standing(r)
  BY <1>2 DEF RunsInv, TypeOK, RunsTyped, PodsTyped
<1> QED BY <1>1, <1>2

\* When the program is deployed there is no run.
LEMMA RunsInit == Init => RunsInv
<1> SUFFICES ASSUME Init PROVE RunsInv
  OBVIOUS
<1>1. PodsTyped
  BY FourSteps, StartupAssumption DEF Init, StartupInit, PodsTyped
<1>2. RunsTyped
  BY RunsAssumption DEF Init, RunsTyped, Valued
<1>3. ASSUME NEW r \in Runs PROVE Standing(r)
  BY RunsAssumption DEF Init, Standing, At
<1> QED BY <1>1, <1>2, <1>3, TypesTogether

\* At all times the types are right and each run stands.
LEMMA RunsInvariant == Spec => []RunsInv
<1>1. RunsInv /\ [Next]_vars => RunsInv'
  <2>1. RunsInv => PodsTyped
    BY TypesTogether
  <2>2. RunsInv /\ [Next]_vars => (RunsTyped /\ PodsTyped /\ \A r \in Runs : Standing(r))'
    BY <2>1, PodsStep, RunsStep
  <2>3. (RunsTyped /\ PodsTyped /\ \A r \in Runs : Standing(r))' => RunsInv'
    BY TypesTogether, PTL
  <2> QED BY <2>2, <2>3
<1> QED BY <1>1, RunsInit, PTL DEF Spec

(***************************************************************************)
(* Both pods, the worker and every run keep their types, no run is counted *)
(* past its test cases, and nothing is recorded as cleaned up that did not *)
(* pass, for every set of runs and any number of failures.                 *)
(***************************************************************************)
THEOREM ProgramTypeCorrect == Spec => []TypeOK
<1>1. RunsInv => TypeOK
  BY DEF RunsInv
<1> QED BY <1>1, RunsInvariant, PTL

-----------------------------------------------------------------------------
(* Whose objects are deleted *)

\* Only three actions touch the onboarding cluster.
LEMMA ObjectsTouched ==
  [Next]_vars => \/ UNCHANGED objects
                 \/ \E r \in Runs : CreateObject(r) \/ DeleteObject(r)
                 \/ \E key \in DOMAIN objects : Vanish(key)
<1> SUFFICES ASSUME [Next]_vars,
                    ~\E r \in Runs : CreateObject(r) \/ DeleteObject(r),
                    ~\E key \in DOMAIN objects : Vanish(key)
             PROVE  UNCHANGED objects
  OBVIOUS
<1>1. ASSUME NEW r \in Runs, Worker(r) PROVE UNCHANGED objects
  BY <1>1 DEF Worker, BreakOff, RecordPassed, RecordFailed, WaitUntilStale, LeaveFailed,
              StartCleanup, MarkFailed, FinishCleanup, RecordCleaned
<1>2. ASSUME NEW r \in Runs, Take(r) \/ ReconcileFails(r) \/ CreateRun(r) \/ Age(r)
      PROVE  UNCHANGED objects
  BY <1>2 DEF Take, ReconcileFails, CreateRun, Age
<1>3. CASE InitPod \/ InitPodDies \/ ProcessPod \/ Accesses \/ ComeUp \/ GoDown
  BY <1>3 DEF InitPod, InitPodDies, ProcessPod, Accesses, ComeUp, GoDown, Unaffected, Rest
<1>4. CASE UNCHANGED vars
  BY <1>4 DEF vars
<1> QED BY <1>1, <1>2, <1>3, <1>4 DEF Next

\* What carries a name keeps the creator it has, and what a step creates is the run's own.
LEMMA OwnedStep ==
  ASSUME RunsInv, Owned, [Next]_vars
  PROVE  Owned'
<1> SUFFICES ASSUME NEW q \in Runs, NEW i \in 1..K, Key(q, i) \in DOMAIN objects'
             PROVE  objects'[Key(q, i)].by = q
  BY DEF Owned, Present, Key
<1>1. Key(q, i) \in DOMAIN objects => objects[Key(q, i)].by = q
  BY DEF Owned, Present
<1>2. objects \in [DOMAIN objects -> [by : Runs, going : BOOLEAN]]
  BY DEF RunsInv, Valued
<1>3. CASE UNCHANGED objects
  BY <1>1, <1>3
<1>4. ASSUME NEW r \in Runs, CreateObject(r) PROVE objects'[Key(q, i)].by = q
  <2>1. objects' = [key \in DOMAIN objects \cup {NextKey(r)} |->
                      IF Present(key) THEN objects[key] ELSE [by |-> r, going |-> FALSE]]
    BY <1>4 DEF CreateObject
  <2>2. CASE Key(q, i) \in DOMAIN objects
    BY <1>1, <2>1, <2>2 DEF Present
  <2>3. CASE Key(q, i) \notin DOMAIN objects
    <3>1. Key(q, i) = NextKey(r)
      BY <2>1, <2>3
    <3>2. q = r
      BY <3>1 DEF Key, NextKey
    <3> QED BY <2>1, <2>3, <3>2 DEF Present
  <2> QED BY <2>2, <2>3
<1>5. ASSUME NEW r \in Runs, DeleteObject(r) PROVE objects'[Key(q, i)].by = q
  <2>1. objects' = [objects EXCEPT ![LastKey(r)].going = TRUE]
    BY <1>5 DEF DeleteObject
  <2>2. Key(q, i) \in DOMAIN objects /\ objects'[Key(q, i)].by = objects[Key(q, i)].by
    BY <1>2, <2>1
  <2> QED BY <1>1, <2>2
<1>6. ASSUME NEW key \in DOMAIN objects, Vanish(key) PROVE objects'[Key(q, i)].by = q
  BY <1>1, <1>6 DEF Vanish
<1> QED BY <1>3, <1>4, <1>5, <1>6, ObjectsTouched

\* An object whose deletion begins is the last one of the run the worker is at.
LEMMA DeletionsAreOwn ==
  ASSUME RunsInv, Owned, [Next]_vars, NEW key \in DOMAIN objects,
         ~objects[key].going, key \in DOMAIN objects', objects'[key].going
  PROVE  objects[key].by = worker[1]
<1>1. objects \in [DOMAIN objects -> [by : Runs, going : BOOLEAN]]
  BY DEF RunsInv, Valued
<1>2. CASE UNCHANGED objects
  BY <1>2
<1>3. ASSUME NEW r \in Runs, CreateObject(r) PROVE FALSE
  BY <1>3 DEF CreateObject, Present
<1>4. ASSUME NEW r \in Runs, DeleteObject(r) PROVE objects[key].by = worker[1]
  <2>1. objects' = [objects EXCEPT ![LastKey(r)].going = TRUE] /\ cleaned[r] < passed[r]
        /\ At(r, "clean")
    BY <1>4 DEF DeleteObject, AtCleanup
  <2>2. key = LastKey(r)
    BY <1>1, <2>1
  <2>3. passed[r] - cleaned[r] \in 1..K
    BY <2>1, KeysOfRun
  <2>4. objects[key].by = r
    BY <2>2, <2>3 DEF Owned, Present, LastKey
  <2> QED BY <2>1, <2>4 DEF At
<1>5. ASSUME NEW k \in DOMAIN objects, Vanish(k) PROVE FALSE
  BY <1>5 DEF Vanish
<1> QED BY <1>2, <1>3, <1>4, <1>5, ObjectsTouched

(***************************************************************************)
(* No cleanup deletes what another run has created, for every set of runs  *)
(* and any number of failures: the objects of a run carry its name.        *)
(***************************************************************************)
THEOREM OnlyOwnObjectsDeleted == Spec => CleanupDeletesOwn
<1>1. Init => Owned
  BY DEF Init, Owned, Present
<1>2. RunsInv /\ Owned /\ [Next]_vars => Owned'
  BY OwnedStep
<1>3. RunsInv /\ Owned /\ [Next]_vars =>
        [\A key \in DOMAIN objects :
           (~objects[key].going /\ key \in DOMAIN objects' /\ objects'[key].going)
           => objects[key].by = worker[1]]_vars
  BY DeletionsAreOwn
<1> QED BY <1>1, <1>2, <1>3, RunsInvariant, PTL DEF Spec, CleanupDeletesOwn

-----------------------------------------------------------------------------
(* What a step is, seen from one run *)

Last(r) == passed[r] - cleaned[r]

OnlyObject(r, i) == \A j \in 1..K : j # i => Seen(r, j)' = Seen(r, j)
SameObjects(r)   == \A j \in 1..K : Seen(r, j)' = Seen(r, j)
SameVerdicts(r)  == passed'[r] = passed[r] /\ (r \in failed' <=> r \in failed)
SameCleanups(r)  == cleaned'[r] = cleaned[r] /\ (r \in marked' <=> r \in marked)
SameAge(r)       == r \in aged' <=> r \in aged
SameStatus(r)    == SameVerdicts(r) /\ SameCleanups(r) /\ SameAge(r)

Unseen(r) == SameStatus(r) /\ SameObjects(r)
Ages(r)   == SameVerdicts(r) /\ SameCleanups(r) /\ SameObjects(r) /\ r \in aged'
Builds(r, i) ==
    /\ r \notin failed /\ passed[r] < K /\ i = passed[r] + 1
    /\ Seen(r, i) = "absent" /\ Seen(r, i)' = "up"
    /\ OnlyObject(r, i) /\ SameStatus(r)
Passes(r) ==
    /\ r \notin failed /\ passed[r] < K /\ Seen(r, passed[r] + 1) = "up"
    /\ passed'[r] = passed[r] + 1 /\ r \notin failed'
    /\ SameCleanups(r) /\ SameAge(r) /\ SameObjects(r)
Fails(r) ==
    /\ r \notin failed /\ passed[r] < K
    /\ passed'[r] = passed[r] /\ r \in failed'
    /\ SameCleanups(r) /\ SameAge(r) /\ SameObjects(r)
Marks(r) ==
    /\ r \in failed /\ r \in aged /\ r \notin marked
    /\ cleaned'[r] = cleaned[r] /\ r \in marked'
    /\ SameVerdicts(r) /\ SameAge(r) /\ SameObjects(r)
TakesDown(r, i) ==
    /\ Released(r) /\ FailureDone(r) /\ cleaned[r] < passed[r] /\ i = Last(r)
    /\ Seen(r, i) = "up" /\ Seen(r, i)' = "going"
    /\ OnlyObject(r, i) /\ SameStatus(r)
Loses(r, i) ==
    /\ Seen(r, i) = "going" /\ Seen(r, i)' = "absent"
    /\ OnlyObject(r, i) /\ SameStatus(r)
Cleans(r) ==
    /\ Released(r) /\ FailureDone(r) /\ cleaned[r] < passed[r]
    /\ Seen(r, Last(r)) = "absent"
    /\ cleaned'[r] = cleaned[r] + 1 /\ (r \in marked' <=> r \in marked)
    /\ SameVerdicts(r) /\ SameAge(r) /\ SameObjects(r)

Effect(r) ==
    \/ Unseen(r) \/ Ages(r) \/ Passes(r) \/ Fails(r) \/ Marks(r) \/ Cleans(r)
    \/ \E i \in 1..K : Builds(r, i) \/ TakesDown(r, i) \/ Loses(r, i)

\* An object is absent, up or going.
LEMMA SeenValues ==
  ASSUME NEW r, NEW i
  PROVE  /\ Seen(r, i) = "absent" <=> ~Present(Key(r, i))
         /\ Seen(r, i) = "up" <=> Present(Key(r, i)) /\ ~objects[Key(r, i)].going
         /\ Seen(r, i) = "going" <=> Present(Key(r, i)) /\ objects[Key(r, i)].going
<1>1. CASE ~Present(Key(r, i))
  <2>1. Seen(r, i) = "absent"
    BY <1>1 DEF Seen
  <2> QED BY <1>1, <2>1
<1>2. CASE Present(Key(r, i)) /\ objects[Key(r, i)].going
  <2>1. Seen(r, i) = "going"
    BY <1>2 DEF Seen
  <2> QED BY <1>2, <2>1
<1>3. CASE Present(Key(r, i)) /\ ~objects[Key(r, i)].going
  <2>1. Seen(r, i) = "up"
    BY <1>3 DEF Seen
  <2> QED BY <1>3, <2>1
<1> QED BY <1>1, <1>2, <1>3

\* How an object is seen after a step.
LEMMA SeenNext ==
  ASSUME NEW r, NEW i
  PROVE  /\ Key(r, i) \notin DOMAIN objects' => Seen(r, i)' = "absent"
         /\ Key(r, i) \in DOMAIN objects' /\ objects'[Key(r, i)].going =>
               Seen(r, i)' = "going"
         /\ Key(r, i) \in DOMAIN objects' /\ ~objects'[Key(r, i)].going =>
               Seen(r, i)' = "up"
<1>1. CASE Key(r, i) \notin DOMAIN objects'
  BY <1>1 DEF Seen, Present, Key
<1>2. CASE Key(r, i) \in DOMAIN objects' /\ objects'[Key(r, i)].going
  BY <1>2 DEF Seen, Present, Key
<1>3. CASE Key(r, i) \in DOMAIN objects' /\ ~objects'[Key(r, i)].going
  BY <1>3 DEF Seen, Present, Key
<1> QED BY <1>1, <1>2, <1>3

\* What is there and has not changed is seen as before.
LEMMA SeenSame ==
  ASSUME NEW r, NEW i,
         Key(r, i) \in DOMAIN objects' <=> Key(r, i) \in DOMAIN objects,
         Key(r, i) \in DOMAIN objects => objects'[Key(r, i)] = objects[Key(r, i)]
  PROVE  Seen(r, i)' = Seen(r, i)
<1>1. CASE Seen(r, i) = "absent"
  BY <1>1, SeenValues, SeenNext DEF Present
<1>2. CASE Seen(r, i) = "going"
  BY <1>2, SeenValues, SeenNext DEF Present
<1>3. CASE Seen(r, i) = "up"
  BY <1>3, SeenValues, SeenNext DEF Present
<1> QED BY <1>1, <1>2, <1>3, SeenValues

\* The keys of a run's objects differ, and from those of other runs.
LEMMA KeysApart ==
  ASSUME NEW r, NEW q, NEW i, NEW j, Key(r, i) = Key(q, j)
  PROVE  r = q /\ i = j
BY DEF Key

\* A step that changes one object at most changes nothing that other runs see.
LEMMA OthersUnseen ==
  ASSUME NEW r \in Runs, NEW i \in 1..K,
         \A key : key # Key(r, i) =>
            /\ key \in DOMAIN objects' <=> key \in DOMAIN objects
            /\ key \in DOMAIN objects => objects'[key] = objects[key]
  PROVE  OnlyObject(r, i) /\ \A q \in Runs \ {r} : SameObjects(q)
<1>1. OnlyObject(r, i)
  <2> SUFFICES ASSUME NEW j \in 1..K, j # i PROVE Seen(r, j)' = Seen(r, j)
    BY DEF OnlyObject
  <2>1. Key(r, j) # Key(r, i)
    BY KeysApart
  <2> QED BY <2>1, SeenSame
<1>2. ASSUME NEW q \in Runs \ {r} PROVE SameObjects(q)
  <2> SUFFICES ASSUME NEW j \in 1..K PROVE Seen(q, j)' = Seen(q, j)
    BY DEF SameObjects
  <2>1. Key(q, j) # Key(r, i)
    BY KeysApart
  <2> QED BY <2>1, SeenSame
<1> QED BY <1>1, <1>2

\* Without a change of the objects, all runs see theirs as before.
LEMMA AllSeenSame ==
  ASSUME UNCHANGED objects
  PROVE  \A q \in Runs : SameObjects(q)
BY SeenSame DEF SameObjects

\* A step that changes no status of a run, and at most its age.
LEMMA AtMostAge ==
  ASSUME UNCHANGED <<status, objects>>, NEW q \in Runs, q \in aged => q \in aged'
  PROVE  Effect(q)
<1>1. SameVerdicts(q) /\ SameCleanups(q) /\ SameObjects(q)
  BY AllSeenSame DEF SameVerdicts, SameCleanups, status
<1>2. SameAge(q) \/ q \in aged'
  BY DEF SameAge
<1> QED BY <1>1, <1>2 DEF Effect, Unseen, Ages, SameStatus

\* Each step of the worker at a run has one effect on it, and none on the others.
LEMMA WorkerSeen ==
  ASSUME RunsInv, NEW r \in Runs, Shape(r), Worker(r)
  PROVE  \A q \in Runs : Effect(q)
<1>1. Standing(r) /\ TypeOK /\ Valued
  BY DEF RunsInv
<1>2. /\ passed[r] \in 0..K /\ cleaned[r] \in 0..K /\ K \in Nat
      /\ passed[r] < K => passed[r] + 1 \in 1..K
      /\ cleaned[r] < passed[r] => Last(r) \in 1..K
  BY KeysOfRun DEF Last
<1>3. ASSUME \A q \in Runs \ {r} : SameStatus(q), \A q \in Runs \ {r} : SameObjects(q),
             Effect(r)
      PROVE  \A q \in Runs : Effect(q)
  BY <1>3 DEF Effect, Unseen
<1>4. CASE \/ BreakOff(r) \/ LeaveFailed(r) \/ FinishCleanup(r)
           \/ WaitUntilStale(r) \/ StartCleanup(r)
  <2>1. UNCHANGED <<status, objects, aged>>
    BY <1>4 DEF BreakOff, LeaveFailed, FinishCleanup, WaitUntilStale, StartCleanup
  <2> QED BY <2>1, AtMostAge
<1>5. CASE CreateObject(r)
  <2>1. passed[r] < K /\ r \notin failed /\ UNCHANGED <<status, aged>>
    BY <1>2, <1>5 DEF CreateObject, AtCase, AllPassed
  <2>2. PICK n \in 1..K : n = passed[r] + 1
    BY <1>2, <2>1
  <2>3. objects' = [key \in DOMAIN objects \cup {Key(r, n)} |->
                      IF key \in DOMAIN objects THEN objects[key]
                      ELSE [by |-> r, going |-> FALSE]]
    BY <1>5, <2>2 DEF CreateObject, NextKey, Present
  <2>4. OnlyObject(r, n) /\ \A q \in Runs \ {r} : SameObjects(q)
    BY <2>3, OthersUnseen
  <2>5. \A q \in Runs : SameStatus(q)
    BY <2>1 DEF SameStatus, SameVerdicts, SameCleanups, SameAge, status
  <2>6. CASE Key(r, n) \in DOMAIN objects
    <3>1. Seen(r, n)' = Seen(r, n)
      BY <2>3, <2>6, SeenSame
    <3>2. Unseen(r)
      BY <2>4, <2>5, <3>1 DEF Unseen, OnlyObject, SameObjects
    <3> QED BY <1>3, <2>4, <2>5, <3>2 DEF Effect
  <2>7. CASE Key(r, n) \notin DOMAIN objects
    <3>1. Seen(r, n) = "absent" /\ Seen(r, n)' = "up"
      BY <2>3, <2>7, SeenValues, SeenNext DEF Present
    <3>2. Builds(r, n)
      BY <2>1, <2>2, <2>4, <2>5, <3>1 DEF Builds
    <3> QED BY <1>3, <2>4, <2>5, <3>2 DEF Effect
  <2> QED BY <2>6, <2>7
<1>6. ASSUME UNCHANGED <<objects, aged>>,
             \A q \in Runs \ {r} : SameVerdicts(q) /\ SameCleanups(q),
             SameObjects(r) /\ SameAge(r) => Effect(r)
      PROVE  \A q \in Runs : Effect(q)
  <2>1. \A q \in Runs : SameObjects(q) /\ SameAge(q)
    BY <1>6, AllSeenSame DEF SameAge
  <2> QED BY <1>3, <1>6, <2>1 DEF SameStatus
<1>7. CASE RecordFailed(r)
  <2>1. passed[r] < K /\ r \notin failed
    BY <1>1, <1>2, <1>7 DEF RecordFailed, AtCase, AllPassed, Standing
  <2>2. failed' = failed \cup {r} /\ UNCHANGED <<passed, marked, cleaned, aged, objects>>
    BY <1>7 DEF RecordFailed
  <2>3. \A q \in Runs \ {r} : SameVerdicts(q) /\ SameCleanups(q)
    BY <2>2 DEF SameVerdicts, SameCleanups
  <2>4. SameObjects(r) /\ SameAge(r) => Fails(r)
    BY <2>1, <2>2 DEF Fails, SameCleanups
  <2> QED BY <1>6, <2>2, <2>3, <2>4 DEF Effect
<1>8. CASE MarkFailed(r)
  <2>1. /\ r \in failed /\ r \notin marked /\ marked' = marked \cup {r} /\ At(r, "clean")
        /\ UNCHANGED <<passed, failed, cleaned, aged, objects>>
    BY <1>8 DEF MarkFailed
  <2>2. r \in aged
    BY <1>1, <2>1 DEF Standing, Released
  <2>3. \A q \in Runs \ {r} : SameVerdicts(q) /\ SameCleanups(q)
    BY <2>1 DEF SameVerdicts, SameCleanups
  <2>4. SameObjects(r) /\ SameAge(r) => Marks(r)
    BY <2>1, <2>2 DEF Marks, SameVerdicts
  <2> QED BY <1>6, <2>1, <2>3, <2>4 DEF Effect
<1>9. CASE DeleteObject(r)
  <2>1. cleaned[r] < passed[r] /\ AtCleanup(r) /\ UNCHANGED <<status, aged>>
    BY <1>9 DEF DeleteObject
  <2>2. PICK n \in 1..K : n = Last(r)
    BY <1>2, <2>1
  <2>3. /\ Key(r, n) \in DOMAIN objects
        /\ objects' = [objects EXCEPT ![Key(r, n)].going = TRUE]
    BY <1>9, <2>2 DEF DeleteObject, LastKey, Last, Present
  <2>4. Released(r) /\ FailureDone(r)
    BY <1>1, <2>1 DEF AtCleanup, Standing, FailureDone
  <2>5. OnlyObject(r, n) /\ \A q \in Runs \ {r} : SameObjects(q)
    BY <2>3, OthersUnseen
  <2>6. \A q \in Runs : SameStatus(q)
    BY <2>1 DEF SameStatus, SameVerdicts, SameCleanups, SameAge, status
  <2>7. objects \in [DOMAIN objects -> [by : Runs, going : BOOLEAN]]
    BY <1>1 DEF Valued
  <2>8. Key(r, n) \in DOMAIN objects' /\ objects'[Key(r, n)].going
    BY <2>3, <2>7
  <2>9. Seen(r, n)' = "going"
    BY <2>8, SeenNext
  <2>10. CASE objects[Key(r, n)].going
    <3>1. Seen(r, n) = "going"
      BY <2>3, <2>10, SeenValues DEF Present
    <3>2. Unseen(r)
      BY <2>5, <2>6, <2>9, <3>1 DEF Unseen, OnlyObject, SameObjects
    <3> QED BY <1>3, <2>5, <2>6, <3>2 DEF Effect
  <2>11. CASE ~objects[Key(r, n)].going
    <3>1. Seen(r, n) = "up"
      BY <2>3, <2>11, SeenValues DEF Present
    <3>2. TakesDown(r, n)
      BY <2>1, <2>2, <2>4, <2>5, <2>6, <2>9, <3>1 DEF TakesDown
    <3> QED BY <1>3, <2>5, <2>6, <3>2 DEF Effect
  <2> QED BY <2>10, <2>11
<1>10. CASE RecordCleaned(r)
  <2>1. /\ cleaned' = [cleaned EXCEPT ![r] = cleaned[r] + 1]
        /\ ~Present(LastKey(r)) /\ UNCHANGED <<passed, failed, marked, aged, objects>>
    BY <1>10 DEF RecordCleaned
  <2>2. Released(r) /\ FailureDone(r) /\ cleaned[r] < passed[r]
    BY <1>1, <1>10 DEF RecordCleaned, AtCleanup, Standing, FailureDone
  <2>3. cleaned'[r] = cleaned[r] + 1 /\ \A q \in Runs \ {r} : cleaned'[q] = cleaned[q]
    BY <1>1, <2>1 DEF Valued
  <2>4. \A q \in Runs \ {r} : SameVerdicts(q) /\ SameCleanups(q)
    BY <2>1, <2>3 DEF SameVerdicts, SameCleanups
  <2>5. Seen(r, Last(r)) = "absent"
    BY <2>1, SeenValues DEF LastKey, Last
  <2>6. SameObjects(r) /\ SameAge(r) => Cleans(r)
    BY <2>1, <2>2, <2>3, <2>5 DEF Cleans, SameVerdicts
  <2> QED BY <1>6, <2>1, <2>4, <2>6 DEF Effect
<1>11. CASE RecordPassed(r)
  <2>1. /\ r \notin failed /\ passed[r] < K /\ Present(NextKey(r))
        /\ passed' = [passed EXCEPT ![r] = passed[r] + 1]
        /\ UNCHANGED <<failed, marked, cleaned, aged, objects>>
    BY <1>1, <1>11 DEF RecordPassed, Standing
  <2>2. passed'[r] = passed[r] + 1 /\ \A q \in Runs \ {r} : passed'[q] = passed[q]
    BY <1>1, <2>1 DEF Valued
  <2>3. \A q \in Runs \ {r} : SameVerdicts(q) /\ SameCleanups(q)
    BY <2>1, <2>2 DEF SameVerdicts, SameCleanups
  <2>4. Seen(r, passed[r] + 1) # "absent"
    BY <2>1, SeenValues DEF NextKey
  <2>5. Seen(r, passed[r] + 1) # "going"
    BY <1>2, <2>1 DEF Shape
  <2>6. Seen(r, passed[r] + 1) = "up"
    BY <2>4, <2>5, SeenValues
  <2>7. SameObjects(r) /\ SameAge(r) => Passes(r)
    BY <2>1, <2>2, <2>6 DEF Passes, SameCleanups
  <2> QED BY <1>6, <2>1, <2>3, <2>7 DEF Effect
<1> QED BY <1>4, <1>5, <1>7, <1>8, <1>9, <1>10, <1>11 DEF Worker

\* So has each step around the worker.
LEMMA StepSeen ==
  ASSUME RunsInv, \A q \in Runs : Shape(q), [Next]_vars
  PROVE  \A q \in Runs : Effect(q)
<1>1. ASSUME UNCHANGED <<status, objects, aged>> PROVE \A q \in Runs : Effect(q)
  BY <1>1, AtMostAge
<1>2. CASE InitPod \/ InitPodDies \/ ProcessPod \/ Accesses \/ ComeUp \/ GoDown
  <2>1. UNCHANGED <<status, objects, aged>>
    BY <1>2 DEF InitPod, InitPodDies, ProcessPod, Accesses, ComeUp, GoDown, Unaffected, Rest
  <2> QED BY <1>1, <2>1
<1>3. ASSUME NEW r \in Runs, Take(r) \/ ReconcileFails(r) \/ CreateRun(r)
      PROVE  \A q \in Runs : Effect(q)
  <2>1. UNCHANGED <<status, objects, aged>>
    BY <1>3 DEF Take, ReconcileFails, CreateRun, status
  <2> QED BY <1>1, <2>1
<1>4. ASSUME NEW r \in Runs, Worker(r) PROVE \A q \in Runs : Effect(q)
  BY <1>4, WorkerSeen
<1>5. ASSUME NEW r \in Runs, Age(r) PROVE \A q \in Runs : Effect(q)
  <2>1. UNCHANGED <<status, objects>> /\ aged' = aged \cup {r}
    BY <1>5 DEF Age
  <2> QED BY <2>1, AtMostAge
<1>6. ASSUME NEW key \in DOMAIN objects, Vanish(key) PROVE \A q \in Runs : Effect(q)
  <2>1. /\ objects' = [k \in DOMAIN objects \ {key} |-> objects[k]]
        /\ objects[key].going /\ UNCHANGED <<status, aged>>
    BY <1>6 DEF Vanish
  <2>2. key \in Keys
    BY DEF RunsInv, TypeOK
  <2>3. PICK r \in Runs, n \in 1..K : key = Key(r, n)
    BY <2>2 DEF Keys
  <2>4. OnlyObject(r, n) /\ \A q \in Runs \ {r} : SameObjects(q)
    BY <2>1, <2>3, OthersUnseen
  <2>5. Seen(r, n) = "going"
    BY <2>1, <2>3, SeenValues DEF Present
  <2>6. Key(r, n) \notin DOMAIN objects'
    BY <2>1, <2>3
  <2>7. Seen(r, n)' = "absent"
    BY <2>6, SeenNext
  <2>8. \A q \in Runs : SameStatus(q)
    BY <2>1 DEF SameStatus, SameVerdicts, SameCleanups, SameAge, status
  <2>9. Loses(r, n)
    BY <2>4, <2>5, <2>7, <2>8 DEF Loses
  <2> QED BY <2>4, <2>8, <2>9 DEF Effect, Unseen
<1>7. CASE UNCHANGED vars
  BY <1>1, <1>7 DEF vars
<1> QED BY <1>2, <1>3, <1>4, <1>5, <1>6, <1>7 DEF Next

(***************************************************************************)
(* Every effect leaves the objects of a run in the shape that its verdicts *)
(* and its cleanup give them.                                              *)
(***************************************************************************)
LEMMA ShapeKept ==
  ASSUME RunsInv, NEW r \in Runs, Shape(r), Effect(r)
  PROVE  Shape(r)'
<1> DEFINE p == passed[r]
           c == cleaned[r]
<1>1. p \in 0..K /\ c \in 0..K /\ c <= p /\ K \in Nat /\ Standing(r)
  BY KeysOfRun DEF RunsInv, Standing
<1>2. /\ SameVerdicts(r) => passed'[r] = p /\ (r \in failed' <=> r \in failed)
      /\ SameVerdicts(r) /\ SameAge(r) => (Released(r)' <=> Released(r))
      /\ SameCleanups(r) => cleaned'[r] = c
  BY DEF SameVerdicts, SameCleanups, SameAge, Released, AllPassed
<1>3. CASE Unseen(r)
  BY <1>2, <1>3 DEF Unseen, SameStatus, SameObjects, Shape
<1>4. CASE Ages(r)
  <2>1. Released(r) => Released(r)'
    BY <1>4 DEF Ages, SameVerdicts, Released, AllPassed
  <2> QED BY <1>2, <1>4, <2>1 DEF Ages, SameObjects, Shape
<1>5. CASE Passes(r)
  <2>1. c = 0
    <3>1. ~(c > 0)
      BY <1>1, <1>5 DEF Passes, Standing, Released, AllPassed
    <3> QED BY <1>1, <3>1
  <2>2. passed'[r] = p + 1 /\ cleaned'[r] = 0
    BY <1>2, <1>5, <2>1 DEF Passes
  <2>3. ASSUME NEW i \in 1..K
        PROVE  /\ i <= p => Seen(r, i) = "up"
               /\ i = p + 1 => Seen(r, i) = "up"
               /\ i > p + 1 => Seen(r, i) = "absent"
    <3>1. ~Released(r)
      BY <1>1, <1>5 DEF Passes, Released, AllPassed
    <3>2. p - c = p
      BY <1>1, <2>1
    <3>3. i <= p => Seen(r, i) = "up"
      BY <3>1, <3>2 DEF Shape
    <3>4. i = p + 1 => Seen(r, i) = "up"
      BY <1>5 DEF Passes
    <3> QED BY <3>3, <3>4 DEF Shape
  <2>4. \A i \in 1..K : Seen(r, i)' = Seen(r, i)
    BY <1>5 DEF Passes, SameObjects
  <2> HIDE DEF p, c
  <2>5. SUFFICES ASSUME NEW i \in 1..K
                 PROVE  /\ i <= (p + 1) - 0 => Seen(r, i)' = "up"
                        /\ ~((p + 1) - 0 < i /\ i <= p + 1)
                        /\ i > p + 1 => Seen(r, i)' = "absent"
    BY <1>1, <2>2 DEF Shape
  <2>6. i <= p \/ i = p + 1 \/ i > p + 1
    BY <1>1
  <2>7. (i <= p + 1 => i <= p \/ i = p + 1) /\ (p + 1) - 0 = p + 1
        /\ ~(p + 1 < i /\ i <= p + 1)
    BY <1>1
  <2> QED BY <2>3, <2>4, <2>7
<1>6. CASE Fails(r)
  <2>1. passed'[r] = p /\ cleaned'[r] = c
    BY <1>2, <1>6 DEF Fails
  <2>2. ~Released(r)
    BY <1>1, <1>6 DEF Fails, Released, AllPassed
  <2> QED BY <1>6, <2>1, <2>2 DEF Fails, SameObjects, Shape
<1>7. CASE Marks(r)
  BY <1>2, <1>7 DEF Marks, SameObjects, Shape
<1>8. CASE Cleans(r)
  <2>1. /\ passed'[r] = p /\ cleaned'[r] = c + 1 /\ Released(r) /\ Released(r)'
        /\ c < p /\ Seen(r, p - c) = "absent"
    BY <1>2, <1>8 DEF Cleans, Last
  <2>2. \A i \in 1..K : Seen(r, i)' = Seen(r, i)
    BY <1>8 DEF Cleans, SameObjects
  <2>3. ASSUME NEW i \in 1..K
        PROVE  /\ i <= p - c => Seen(r, i) = "up" \/ i = p - c
               /\ p - c < i /\ i <= p => Seen(r, i) = "absent"
               /\ i = p + 1 => Seen(r, i) # "going"
               /\ i > p + 1 => Seen(r, i) = "absent"
    BY DEF Shape
  <2> HIDE DEF p, c
  <2>4. SUFFICES ASSUME NEW i \in 1..K
                 PROVE  /\ i <= p - (c + 1) => Seen(r, i)' = "up"
                        /\ p - (c + 1) < i /\ i <= p => Seen(r, i)' = "absent"
                        /\ i = p + 1 => Seen(r, i)' # "going"
                        /\ i > p + 1 => Seen(r, i)' = "absent"
    BY <2>1 DEF Shape
  <2>5. /\ i <= p - (c + 1) => i <= p - c /\ i # p - c
        /\ p - (c + 1) < i => i = p - c \/ p - c < i
    BY <1>1
  <2> QED BY <2>1, <2>2, <2>3, <2>5
<1>9. ASSUME NEW n \in 1..K, Builds(r, n) PROVE Shape(r)'
  <2>1. /\ passed'[r] = p /\ cleaned'[r] = c /\ (Released(r)' <=> Released(r))
        /\ n = p + 1 /\ Seen(r, n)' = "up"
        /\ \A i \in 1..K : i # n => Seen(r, i)' = Seen(r, i)
    BY <1>2, <1>9 DEF Builds, SameStatus, OnlyObject
  <2>2. ~(n <= p) /\ ~(n > p + 1) /\ ~(n <= p - c)
    BY <1>1, <2>1
  <2> QED BY <2>1, <2>2 DEF Shape
<1>10. ASSUME NEW n \in 1..K, TakesDown(r, n) PROVE Shape(r)'
  <2>1. /\ passed'[r] = p /\ cleaned'[r] = c /\ Released(r)' /\ Released(r)
        /\ n = p - c /\ Seen(r, n)' = "going"
        /\ \A i \in 1..K : i # n => Seen(r, i)' = Seen(r, i)
    BY <1>2, <1>10 DEF TakesDown, SameStatus, OnlyObject, Last
  <2>2. n # p + 1 /\ ~(n > p + 1) /\ ~(p - c < n)
    BY <1>1, <2>1
  <2> QED BY <2>1, <2>2 DEF Shape
<1>11. ASSUME NEW n \in 1..K, Loses(r, n) PROVE Shape(r)'
  <2>1. /\ passed'[r] = p /\ cleaned'[r] = c /\ (Released(r)' <=> Released(r))
        /\ Seen(r, n) = "going" /\ Seen(r, n)' = "absent"
        /\ \A i \in 1..K : i # n => Seen(r, i)' = Seen(r, i)
    BY <1>2, <1>11 DEF Loses, SameStatus, OnlyObject
  <2>2. n <= p - c => n = p - c /\ Released(r)
    BY <2>1 DEF Shape
  <2> QED BY <2>1, <2>2 DEF Shape
<1> QED BY <1>3, <1>4, <1>5, <1>6, <1>7, <1>8, <1>9, <1>10, <1>11 DEF Effect

\* No object is there at the start.
LEMMA ShapeInit == Init => \A r \in Runs : Shape(r)
<1> SUFFICES ASSUME Init, NEW r \in Runs, NEW i \in 1..K
             PROVE  Seen(r, i) = "absent" /\ ~(i <= passed[r] - cleaned[r])
  BY DEF Shape
<1>1. ~Present(Key(r, i))
  BY DEF Init, Present
<1>2. passed[r] = 0 /\ cleaned[r] = 0
  BY DEF Init
<1> QED BY <1>1, <1>2, SeenValues

-----------------------------------------------------------------------------
(* The promise to every run *)

\* the variables of the promise, as TestRunner maps them
Verdicts(r) == [i \in 1..(passed[r] + (IF r \in failed THEN 1 ELSE 0)) |->
                    IF i <= passed[r] THEN "passed" ELSE "failed"]
Done(r)     == {i \in 1..K : passed[r] - cleaned[r] < i /\ i <= passed[r]}
               \cup (IF r \in marked THEN {passed[r] + 1} ELSE {})
Shown(r)    == [i \in 1..K |-> Seen(r, i)]

\* What the promise says of the mapped variables, in terms of the run.
LEMMA PromiseFacts ==
  ASSUME RunsInv, NEW r \in Runs
  PROVE  /\ Verdicts(r) \in Seq({"passed", "failed"})
         /\ Len(Verdicts(r)) = passed[r] + (IF r \in failed THEN 1 ELSE 0)
         /\ DOMAIN Verdicts(r) = 1..Len(Verdicts(r))
         /\ \A i : Promise(r)!Passed(i) <=> i \in 1..passed[r]
         /\ Promise(r)!Open <=> passed[r] < K /\ r \notin failed
         /\ Promise(r)!Released <=> Released(r)
<1> DEFINE p == passed[r]
           f == IF r \in failed THEN 1 ELSE 0
           n == p + f
<1>1. p \in 0..K /\ K \in Nat /\ (r \in failed => p < K)
  BY KeysOfRun DEF RunsInv, Standing
<1>2. n \in Nat /\ Verdicts(r) = [i \in 1..n |-> IF i <= p THEN "passed" ELSE "failed"]
  BY <1>1 DEF Verdicts
<1>3. /\ Verdicts(r) \in Seq({"passed", "failed"}) /\ Len(Verdicts(r)) = n
      /\ DOMAIN Verdicts(r) = 1..n
  BY <1>2
<1>4. \A i : Promise(r)!Passed(i) <=> i \in DOMAIN Verdicts(r) /\ Verdicts(r)[i] = "passed"
  BY DEF Promise!Passed, Verdicts
<1>5. \A i : Promise(r)!Passed(i) <=> i \in 1..p
  <2>1. \A i \in 1..n : Verdicts(r)[i] = "passed" <=> i <= p
    BY <1>2
  <2>2. \A i : i \in 1..p <=> i \in 1..n /\ i <= p
    BY <1>1
  <2> HIDE DEF p, n
  <2> QED BY <1>3, <1>4, <2>1, <2>2
<1>6. Promise(r)!Failed <=> r \in failed
  <2>1. Promise(r)!Failed <=> \E i \in DOMAIN Verdicts(r) : Verdicts(r)[i] = "failed"
    BY DEF Promise!Failed, Verdicts
  <2>2. CASE r \in failed
    <3>1. p + 1 \in 1..n /\ ~(p + 1 <= p)
      BY <1>1, <2>2
    <3>2. Verdicts(r)[p + 1] = "failed"
      BY <1>2, <3>1
    <3> QED BY <1>3, <2>1, <2>2, <3>1, <3>2
  <2>3. CASE r \notin failed
    <3>1. \A i \in 1..n : i <= p
      BY <1>1, <2>3
    <3> QED BY <1>2, <1>3, <2>1, <2>3, <3>1
  <2> QED BY <2>2, <2>3
<1>7. Promise(r)!Open <=> Len(Verdicts(r)) < K /\ r \notin failed
  BY <1>6 DEF Promise!Open, Verdicts
<1>8. Promise(r)!Released <=> \/ Len(Verdicts(r)) = K /\ r \notin failed
                              \/ r \in failed /\ r \in aged
  BY <1>6 DEF Promise!Released, Verdicts
<1>9. r \notin failed => n = p
  BY <1>1
<1> QED BY <1>3, <1>5, <1>7, <1>8, <1>9 DEF Released, AllPassed

\* The mapped variables follow from the status, the objects and the age.
LEMMA MappedAlike ==
  ASSUME RunsInv, NEW r \in Runs
  PROVE  /\ SameVerdicts(r) => Verdicts(r)' = Verdicts(r)
         /\ SameVerdicts(r) /\ SameCleanups(r) => Done(r)' = Done(r)
         /\ SameObjects(r) => Shown(r)' = Shown(r)
         /\ SameAge(r) => (r \in aged') = (r \in aged)
         /\ \A i \in 1..K : OnlyObject(r, i) =>
               Shown(r)' = [Shown(r) EXCEPT ![i] = Seen(r, i)']
<1>1. SameVerdicts(r) => Verdicts(r)' = Verdicts(r)
  BY DEF SameVerdicts, Verdicts
<1>2. SameVerdicts(r) /\ SameCleanups(r) => Done(r)' = Done(r)
  BY DEF SameVerdicts, SameCleanups, Done
<1>3. SameObjects(r) => Shown(r)' = Shown(r)
  BY DEF SameObjects, Shown
<1>4. SameAge(r) => (r \in aged') = (r \in aged)
  BY DEF SameAge
<1>5. ASSUME NEW i \in 1..K, OnlyObject(r, i)
      PROVE  Shown(r)' = [Shown(r) EXCEPT ![i] = Seen(r, i)']
  <2>1. \A j \in 1..K : Seen(r, j)' = IF j = i THEN Seen(r, i)' ELSE Seen(r, j)
    BY <1>5 DEF OnlyObject
  <2> QED BY <2>1 DEF Shown
<1> QED BY <1>1, <1>2, <1>3, <1>4, <1>5

\* A verdict is appended to those before it.
LEMMA VerdictAppended ==
  ASSUME RunsInv, NEW r \in Runs, r \notin failed
  PROVE  /\ passed'[r] = passed[r] + 1 /\ r \notin failed'
               => Verdicts(r)' = Append(Verdicts(r), "passed")
         /\ passed'[r] = passed[r] /\ r \in failed'
               => Verdicts(r)' = Append(Verdicts(r), "failed")
<1> DEFINE p == passed[r]
<1>1. p \in Nat
  BY KeysOfRun
<1>2. Verdicts(r) = [i \in 1..p |-> "passed"]
  BY <1>1 DEF Verdicts
<1>3. Verdicts(r) \in Seq({"passed", "failed"}) /\ Len(Verdicts(r)) = p
  BY <1>1, <1>2
<1>4. ASSUME NEW v \in {"passed", "failed"}
      PROVE  Append(Verdicts(r), v) = [i \in 1..(p + 1) |-> IF i <= p THEN "passed" ELSE v]
  <2>1. Append(Verdicts(r), v) =
          [i \in 1..(p + 1) |-> IF i = p + 1 THEN v ELSE Verdicts(r)[i]]
    <3> DEFINE t == Verdicts(r)
               a == Append(t, v)
    <3>1. /\ a \in Seq({"passed", "failed"}) /\ Len(a) = p + 1
          /\ \A i \in 1..(p + 1) : a[i] = IF i = p + 1 THEN v ELSE t[i]
      <4> HIDE DEF t, p
      <4> QED BY <1>1, <1>3, <1>4 DEF t
    <3>2. a = [i \in 1..(p + 1) |-> a[i]]
      <4> HIDE DEF a
      <4> QED BY <3>1
    <3> QED BY <3>1, <3>2
  <2>2. \A i \in 1..(p + 1) : /\ i = p + 1 <=> ~(i <= p)
                              /\ i <= p => Verdicts(r)[i] = "passed"
    BY <1>1, <1>2
  <2> QED BY <2>1, <2>2
<1>5. ASSUME passed'[r] = p + 1, r \notin failed'
      PROVE  Verdicts(r)' = Append(Verdicts(r), "passed")
  <2>1. Verdicts(r)' = [i \in 1..(p + 1) |-> "passed"]
    BY <1>1, <1>5 DEF Verdicts
  <2> QED BY <1>4, <2>1
<1>6. ASSUME passed'[r] = p, r \in failed'
      PROVE  Verdicts(r)' = Append(Verdicts(r), "failed")
  <2>1. Verdicts(r)' = [i \in 1..(p + 1) |-> IF i <= p THEN "passed" ELSE "failed"]
    BY <1>1, <1>6 DEF Verdicts
  <2> QED BY <1>4, <2>1
<1> QED BY <1>5, <1>6

\* Every effect on a run is a step of its promise, or none.
LEMMA EffectIsPromised ==
  ASSUME RunsInv, NEW r \in Runs, Shape(r), Effect(r)
  PROVE  [Promise(r)!Next]_(Promise(r)!promised)
<1> DEFINE p == passed[r]
           c == cleaned[r]
<1>1. p \in 0..K /\ c \in 0..K /\ c <= p /\ K \in Nat /\ Standing(r)
  BY KeysOfRun DEF RunsInv, Standing
<1>2. Len(Verdicts(r)) = p + (IF r \in failed THEN 1 ELSE 0)
  BY PromiseFacts
<1>3. CASE Unseen(r)
  BY <1>3, MappedAlike
     DEF Unseen, SameStatus, Promise!promised, Verdicts, Done, Shown
<1>4. CASE Ages(r)
  <2>1. /\ Verdicts(r)' = Verdicts(r) /\ Done(r)' = Done(r) /\ Shown(r)' = Shown(r)
        /\ (r \in aged') = TRUE
    BY <1>4, MappedAlike DEF Ages
  <2>2. Promise(r)!GrowOld
    BY <2>1 DEF Promise!GrowOld, Verdicts, Done, Shown
  <2> QED BY <2>2 DEF Promise!Next
<1>5. CASE Passes(r) \/ Fails(r)
  <2>1. /\ SameCleanups(r) /\ Shown(r)' = Shown(r) /\ (r \in aged') = (r \in aged)
        /\ p < K /\ r \notin failed
    BY <1>5, MappedAlike DEF Passes, Fails
  <2>2. ~(c > 0) /\ r \notin marked
    BY <1>1, <2>1 DEF Standing, Released, AllPassed
  <2>3. c = 0 /\ Len(Verdicts(r)) = p
    BY <1>1, <1>2, <2>1, <2>2
  <2>4. Done(r)' = Done(r)
    <3>1. cleaned'[r] = 0 /\ r \notin marked' /\ c = 0
      BY <2>1, <2>2, <2>3 DEF SameCleanups
    <3>2. \A i \in 1..K : ~(p - 0 < i /\ i <= p)
      BY <1>1
    <3>3. passed'[r] \in Nat
      BY <1>1, <1>5 DEF Passes, Fails
    <3>4. \A i \in 1..K : ~(passed'[r] - 0 < i /\ i <= passed'[r])
      BY <3>3
    <3> QED BY <2>2, <3>1, <3>2, <3>4 DEF Done
  <2>5. ASSUME NEW v \in {"passed", "failed"}, Verdicts(r)' = Append(Verdicts(r), v),
               v = "passed" => Shown(r)[Len(Verdicts(r)) + 1] = "up"
        PROVE  Promise(r)!Next
    <3>1. Promise(r)!Open
      BY <2>1, PromiseFacts
    <3>2. Promise(r)!Record(v)
      BY <2>1, <2>4, <2>5, <3>1 DEF Promise!Record, Verdicts, Done, Shown
    <3> QED BY <3>2 DEF Promise!Next
  <2>6. CASE Passes(r)
    <3>1. Verdicts(r)' = Append(Verdicts(r), "passed")
      BY <2>1, <2>6, VerdictAppended DEF Passes
    <3>2. p + 1 \in 1..K
      BY <1>1, <2>1
    <3>3. Shown(r)[Len(Verdicts(r)) + 1] = "up"
      BY <2>3, <2>6, <3>2 DEF Passes, Shown
    <3> QED BY <2>5, <3>1, <3>3
  <2>7. CASE Fails(r)
    <3>1. Verdicts(r)' = Append(Verdicts(r), "failed")
      BY <2>1, <2>7, VerdictAppended DEF Fails
    <3> QED BY <2>5, <3>1
  <2> QED BY <1>5, <2>6, <2>7
<1>6. CASE Marks(r)
  <2>1. /\ Verdicts(r)' = Verdicts(r) /\ Shown(r)' = Shown(r) /\ (r \in aged') = (r \in aged)
        /\ r \in failed /\ r \in aged /\ r \notin marked /\ r \in marked'
        /\ passed'[r] = p /\ cleaned'[r] = c
    BY <1>6, MappedAlike DEF Marks, SameVerdicts
  <2>2. Done(r)' = Done(r) \cup {p + 1}
    BY <2>1 DEF Done
  <2>3. Len(Verdicts(r)) = p + 1 /\ DOMAIN Verdicts(r) = 1..(p + 1)
    BY <1>2, <2>1, PromiseFacts
  <2>4. Promise(r)!Released /\ ~Promise(r)!Passed(p + 1)
    <3>1. p + 1 \notin 1..p
      BY <1>1
    <3> QED BY <2>1, <3>1, PromiseFacts DEF Released
  <2>5. p + 1 \in DOMAIN Verdicts(r) \ Done(r)
    <3>1. p + 1 \notin Done(r)
      BY <1>1, <2>1 DEF Done
    <3> QED BY <1>1, <2>3, <3>1
  <2>6. \A j \in DOMAIN Verdicts(r) : j > p + 1 => j \in Done(r)
    BY <1>1, <2>3
  <2>7. PICK i \in 1..K : i = p + 1
    BY <1>1, <2>1 DEF Standing
  <2> HIDE DEF p
  <2>8. Promise(r)!RecordClean(i)
    BY <2>1, <2>2, <2>4, <2>5, <2>6, <2>7 DEF Promise!RecordClean, Verdicts, Done, Shown
  <2> QED BY <2>8 DEF Promise!Next
<1>7. CASE Cleans(r)
  <2>1. /\ Verdicts(r)' = Verdicts(r) /\ Shown(r)' = Shown(r) /\ (r \in aged') = (r \in aged)
        /\ Released(r) /\ FailureDone(r) /\ c < p /\ cleaned'[r] = c + 1
        /\ passed'[r] = p /\ (r \in marked' <=> r \in marked)
        /\ Seen(r, Last(r)) = "absent"
    BY <1>7, MappedAlike DEF Cleans, SameVerdicts
  <2>2. PICK i \in 1..K : i = p - c
    BY <1>1, <2>1
  <2>3. Done(r)' = Done(r) \cup {i}
    <3>1. \A j \in 1..K : (p - (c + 1) < j /\ j <= p) <=> (p - c < j /\ j <= p) \/ j = i
      BY <1>1, <2>1, <2>2
    <3>2. /\ {j \in 1..K : p - (c + 1) < j /\ j <= p}
               = {j \in 1..K : p - c < j /\ j <= p} \cup {i}
      BY <3>1
    <3> QED BY <2>1, <3>2 DEF Done
  <2>4. /\ DOMAIN Verdicts(r) = 1..Len(Verdicts(r)) /\ Promise(r)!Released
        /\ \A j : Promise(r)!Passed(j) <=> j \in 1..p
    BY <2>1, PromiseFacts
  <2>5. i \in DOMAIN Verdicts(r) \ Done(r)
    <3>1. i \in 1..Len(Verdicts(r)) /\ ~(p - c < i) /\ i # p + 1
      BY <1>1, <1>2, <2>1, <2>2
    <3> QED BY <2>4, <3>1 DEF Done
  <2>6. \A j \in DOMAIN Verdicts(r) : j > i => j \in Done(r)
    <3> SUFFICES ASSUME NEW j \in 1..Len(Verdicts(r)), j > i PROVE j \in Done(r)
      BY <2>4
    <3>1. CASE j <= p
      <4>1. j \in 1..K /\ p - c < j
        BY <1>1, <1>2, <2>2, <3>1
      <4> QED BY <3>1, <4>1 DEF Done
    <3>2. CASE ~(j <= p)
      <4>1. r \in failed /\ j = p + 1
        BY <1>1, <1>2, <3>2
      <4> QED BY <2>1, <4>1 DEF Done, FailureDone
    <3> QED BY <3>1, <3>2
  <2>7. Shown(r)[i] = "absent"
    BY <2>1, <2>2 DEF Shown, Last
  <2> HIDE DEF p, c
  <2>8. Promise(r)!RecordClean(i)
    BY <2>1, <2>3, <2>4, <2>5, <2>6, <2>7 DEF Promise!RecordClean, Verdicts, Done, Shown
  <2> QED BY <2>8 DEF Promise!Next
<1>8. ASSUME NEW i \in 1..K, Builds(r, i) PROVE Promise(r)!Next
  <2>1. /\ Verdicts(r)' = Verdicts(r) /\ Done(r)' = Done(r) /\ (r \in aged') = (r \in aged)
        /\ Shown(r)' = [Shown(r) EXCEPT ![i] = "up"] /\ Shown(r)[i] = "absent"
        /\ r \notin failed /\ p < K /\ i = p + 1
    BY <1>8, MappedAlike DEF Builds, SameStatus, Shown
  <2>2. Promise(r)!Open /\ i = Len(Verdicts(r)) + 1
    BY <1>1, <1>2, <2>1, PromiseFacts
  <2>3. Promise(r)!Build(i)
    BY <2>1, <2>2 DEF Promise!Build, Verdicts, Done, Shown
  <2> QED BY <2>3 DEF Promise!Next
<1>9. ASSUME NEW i \in 1..K, TakesDown(r, i) PROVE Promise(r)!Next
  <2>1. /\ Verdicts(r)' = Verdicts(r) /\ Done(r)' = Done(r) /\ (r \in aged') = (r \in aged)
        /\ Shown(r)' = [Shown(r) EXCEPT ![i] = "going"] /\ Shown(r)[i] = "up"
        /\ Released(r) /\ c < p /\ i = p - c
    BY <1>9, MappedAlike DEF TakesDown, SameStatus, Shown, Last
  <2>2. Promise(r)!Released /\ Promise(r)!Passed(i)
    <3>1. i \in 1..p
      BY <1>1, <2>1
    <3> QED BY <2>1, <3>1, PromiseFacts
  <2>3. \A j \in (i + 1)..K : Promise(r)!Passed(j) => Shown(r)[j] = "absent"
    <3> SUFFICES ASSUME NEW j \in (i + 1)..K, j \in 1..p PROVE Shown(r)[j] = "absent"
      BY PromiseFacts
    <3>1. j \in 1..K /\ p - c < j /\ j <= p
      BY <1>1, <2>1
    <3> QED BY <3>1 DEF Shape, Shown
  <2>4. Promise(r)!TakeDown(i)
    BY <2>1, <2>2, <2>3 DEF Promise!TakeDown, Verdicts, Done, Shown
  <2> QED BY <2>4 DEF Promise!Next
<1>10. ASSUME NEW i \in 1..K, Loses(r, i) PROVE Promise(r)!Next
  <2>1. /\ Verdicts(r)' = Verdicts(r) /\ Done(r)' = Done(r) /\ (r \in aged') = (r \in aged)
        /\ Shown(r)' = [Shown(r) EXCEPT ![i] = "absent"] /\ Shown(r)[i] = "going"
    BY <1>10, MappedAlike DEF Loses, SameStatus, Shown
  <2>2. Promise(r)!Vanish(i)
    BY <2>1 DEF Promise!Vanish, Verdicts, Done, Shown
  <2> QED BY <2>2 DEF Promise!Next
<1> QED BY <1>3, <1>4, <1>5, <1>6, <1>7, <1>8, <1>9, <1>10 DEF Effect

(***************************************************************************)
(* Each run gets what an E2ETestRun promises, although all share one       *)
(* worker, one queue and one onboarding cluster, and both pods may start   *)
(* anew at any time: for every set of runs, every number of test cases and *)
(* any number of failures.                                                 *)
(***************************************************************************)
THEOREM PromisedToEach == Spec => EachRunIsPromised
<1>1. Init => \A r \in Runs : Promise(r)!Init
  <2> SUFFICES ASSUME Init, NEW r \in Runs PROVE Promise(r)!Init
    OBVIOUS
  <2>1. /\ passed[r] = 0 /\ cleaned[r] = 0 /\ r \notin failed /\ r \notin marked
        /\ (r \in aged) = FALSE
    BY DEF Init
  <2>2. Verdicts(r) = <<>>
    BY <2>1 DEF Verdicts
  <2>3. Done(r) = {}
    BY <2>1, RunsAssumption DEF Done
  <2>4. \A i \in 1..K : Seen(r, i) = "absent"
    BY SeenValues DEF Init, Present
  <2>5. Shown(r) = [i \in 1..K |-> "absent"]
    BY <2>4 DEF Shown
  <2> QED BY <2>1, <2>2, <2>3, <2>5 DEF Promise!Init, Verdicts, Done, Shown
<1>2. RunsInv /\ (\A r \in Runs : Shape(r)) /\ [Next]_vars => (\A r \in Runs : Shape(r))'
  BY StepSeen, ShapeKept
<1>3. RunsInv /\ (\A r \in Runs : Shape(r)) /\ [Next]_vars =>
        [\A r \in Runs : [Promise(r)!Next]_(Promise(r)!promised)]_vars
  BY StepSeen, EffectIsPromised
<1> QED BY <1>1, <1>2, <1>3, ShapeInit, RunsInvariant, PTL DEF Spec, EachRunIsPromised
=============================================================================
