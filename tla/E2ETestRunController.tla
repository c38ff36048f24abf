----------------------- MODULE E2ETestRunController -----------------------
(***************************************************************************)
(* The E2ETestRun reconciler and one E2ETestRun object.  The worker of     *)
(* every replica executes Reconcile one API call at a time; between two    *)
(* calls the other replicas, the operators of the onboarding cluster, the  *)
(* clock, a user and a crash may act.                                      *)
(*                                                                         *)
(* run      the E2ETestRun on the platform cluster: whether it exists, its *)
(*          resourceVersion and its status                                 *)
(* res      per status name, the object its test case creates on the       *)
(*          onboarding cluster                                             *)
(* pc..     the local state of Reconcile in each replica                   *)
(* queue    whether the run is in the replica's work queue                 *)
(* timer    whether a RequeueAfter is pending in the replica               *)
(* aged     whether the run is older than staleAfter                       *)
(* faults   injected API errors, lost answers, timeouts of cleanup, crashes*)
(***************************************************************************)
EXTENDS TestCaseKinds, FiniteSets

CONSTANTS SpecTestCases, \* run.Spec.TestCases
          Replicas,      \* running instances of the binary
          StaleEnabled,  \* staleAfter > 0
          Deletable,     \* whether a user may delete the run
          MaxFaults,     \* bound on injected faults
          MaxEntries     \* entries of a status the API server still accepts

ASSUME ReplicasAssumption == Replicas # {} /\ IsFiniteSet(Replicas)
ASSUME FlagsAssumption == StaleEnabled \in BOOLEAN /\ Deletable \in BOOLEAN
ASSUME BoundsAssumption == MaxFaults \in Nat /\ MaxEntries \in Nat
ASSUME TestCasesAssumption ==
    SpecTestCases \in Seq([name   : STRING,
                           config : {"valid", "invalid", "malformed"},
                           kind   : STRING])

N == Len(SpecTestCases)

\* the name an entry is recorded under: readConfig fails before StatusName is asked
RecordName(tc) == IF tc.config = "malformed" THEN <<tc.name>> ELSE StatusName(tc)
Names == {RecordName(SpecTestCases[i]) : i \in 1..N}

VARIABLES run, res, pc, idx, snap, stale, result, queue, timer, aged, faults

local == <<pc, idx, snap, stale, result>>
vars  == <<run, res, pc, idx, snap, stale, result, queue, timer, aged, faults>>

Locations == {"idle", "run", "poll", "recordRun", "decide",
              "clean", "waitGone", "recordCleanup"}
Objects   == {"absent", "pending", "ready", "terminating"}
NoSnap    == [rv |-> 0, status |-> <<>>]

\* where the two loops over the test cases may stand
InLoop(r) ==
    /\ pc[r] = "run" => idx[r] \in 1..(N + 1)
    /\ pc[r] \in {"decide", "clean"} => idx[r] \in 0..N
    /\ pc[r] \in {"poll", "recordRun", "waitGone", "recordCleanup"} => idx[r] \in 1..N

\* Every variable holds a value of its kind, and each loop stays in its bounds.
TypeOK ==
    /\ run \in [exists : BOOLEAN, rv : Nat, status : Seq(Entry(Names))]
    /\ res \in [Names -> Objects]
    /\ pc \in [Replicas -> Locations]
    /\ idx \in [Replicas -> Nat]
    /\ \A r \in Replicas : InLoop(r)
    /\ snap \in [Replicas -> [rv : Nat, status : Seq(Entry(Names))]]
    /\ stale \in [Replicas -> BOOLEAN]
    /\ result \in [Replicas -> BOOLEAN]
    /\ queue \in [Replicas -> BOOLEAN]
    /\ timer \in [Replicas -> BOOLEAN]
    /\ aged \in BOOLEAN
    /\ faults \in 0..MaxFaults

\* the run was just created; the watch of every replica has delivered it
Init ==
    /\ run = [exists |-> TRUE, rv |-> 1, status |-> <<>>]
    /\ res = [n \in Names |-> "absent"]
    /\ pc = [r \in Replicas |-> "idle"]
    /\ idx = [r \in Replicas |-> 0]
    /\ snap = [r \in Replicas |-> NoSnap]
    /\ stale = [r \in Replicas |-> FALSE]
    /\ result = [r \in Replicas |-> FALSE]
    /\ queue = [r \in Replicas |-> TRUE]
    /\ timer = [r \in Replicas |-> FALSE]
    /\ aged = FALSE
    /\ faults = 0

-----------------------------------------------------------------------------
(* Steps of Reconcile that several actions share *)

Fault == faults < MaxFaults /\ faults' = faults + 1

\* Reconcile returns; its local variables are gone
Leave(r) ==
    /\ pc' = [pc EXCEPT ![r] = "idle"]
    /\ idx' = [idx EXCEPT ![r] = 0]
    /\ snap' = [snap EXCEPT ![r] = NoSnap]
    /\ stale' = [stale EXCEPT ![r] = FALSE]
    /\ result' = [result EXCEPT ![r] = FALSE]

\* return ctrl.Result{}, nil
ReturnDone(r) == Leave(r) /\ UNCHANGED <<queue, timer>>
\* variant of ReturnError: the error is swallowed
ReturnErrorForgets(r) == ReturnDone(r)
\* return ctrl.Result{}, err: the work queue takes the run back
ReturnError(r) == Leave(r) /\ queue' = [queue EXCEPT ![r] = TRUE] /\ UNCHANGED timer
\* variant of ReturnLater: no RequeueAfter
ReturnLaterDropsTimer(r) == ReturnDone(r)
\* return ctrl.Result{RequeueAfter: timeUntilStale}, nil
ReturnLater(r) == Leave(r) /\ timer' = [timer EXCEPT ![r] = TRUE] /\ UNCHANGED queue

GoTo(r, l, i) ==
    /\ pc' = [pc EXCEPT ![r] = l]
    /\ idx' = [idx EXCEPT ![r] = i]

\* the outcome of the test case's Run or Cleanup, about to be recorded
Conclude(r, l, ok) ==
    /\ pc' = [pc EXCEPT ![r] = l]
    /\ result' = [result EXCEPT ![r] = ok]

Here(r) == SpecTestCases[idx[r]]
HereName(r) == RecordName(Here(r))
HereEntry(r) == snap[r].status[GetStatus(StatusName(Here(r)), snap[r].status)]
HereFound(r) == Found(StatusName(Here(r)), snap[r].status)

\* variant of Accepts: updates without a resourceVersion
AcceptsAnyVersion(r) == run.exists
\* the API server takes a status update made from the current version only
Accepts(r) == run.exists /\ run.rv = snap[r].rv
Fits(s) == Len(s) <= MaxEntries
Write(s) ==
    /\ run' = [exists |-> run.exists, rv |-> run.rv + 1, status |-> s]
    /\ queue' = [q \in Replicas |-> TRUE]

-----------------------------------------------------------------------------
(* Reconcile: the object is fetched *)

FetchFound(r) ==
    /\ pc[r] = "idle" /\ queue[r] /\ run.exists
    /\ GoTo(r, "run", 1)
    /\ snap' = [snap EXCEPT ![r] = [rv |-> run.rv, status |-> run.status]]
    /\ queue' = [queue EXCEPT ![r] = FALSE]
    /\ UNCHANGED <<run, res, stale, result, timer, aged, faults>>

FetchNotFound(r) ==
    /\ pc[r] = "idle" /\ queue[r] /\ ~run.exists
    /\ queue' = [queue EXCEPT ![r] = FALSE]
    /\ UNCHANGED <<run, res, local, timer, aged, faults>>

FetchFails(r) ==
    /\ pc[r] = "idle" /\ queue[r]
    /\ Fault
    /\ UNCHANGED <<run, res, local, queue, timer, aged>>

-----------------------------------------------------------------------------
(* runTestCases *)

\* at a test case that is in the registry and whose config can be read
AtReadable(r) ==
    /\ pc[r] = "run" /\ idx[r] <= N
    /\ Registered(Here(r)) /\ Readable(Here(r))

RunAllDone(r) ==
    /\ pc[r] = "run" /\ idx[r] > N
    /\ GoTo(r, "decide", N)
    /\ UNCHANGED <<run, res, snap, stale, result, queue, timer, aged, faults>>

\* the test case is not in the registry: an error, and nothing is recorded
RunBreaksOff(r) ==
    /\ pc[r] = "run" /\ idx[r] <= N
    /\ ~Registered(Here(r))
    /\ ReturnError(r)
    /\ UNCHANGED <<run, res, aged, faults>>

\* the failure is recorded without a look at the entries already there
RunMalformed(r) ==
    /\ pc[r] = "run" /\ idx[r] <= N
    /\ Registered(Here(r)) /\ Here(r).config = "malformed"
    /\ Conclude(r, "recordRun", FALSE)
    /\ UNCHANGED <<run, res, idx, snap, stale, queue, timer, aged, faults>>

\* variant of RunSkipsPassed: any recorded test case is skipped
RunSkipsRecorded(r) ==
    /\ AtReadable(r) /\ HereFound(r)
    /\ GoTo(r, "run", idx[r] + 1)
    /\ UNCHANGED <<run, res, snap, stale, result, queue, timer, aged, faults>>

RunSkipsPassed(r) ==
    /\ AtReadable(r) /\ HereFound(r) /\ isTestCasePassed(HereEntry(r))
    /\ GoTo(r, "run", idx[r] + 1)
    /\ UNCHANGED <<run, res, snap, stale, result, queue, timer, aged, faults>>

RunStopsAtFailed(r) ==
    /\ AtReadable(r) /\ HereFound(r) /\ isTestCaseFailed(HereEntry(r))
    /\ GoTo(r, "decide", N)
    /\ UNCHANGED <<run, res, snap, stale, result, queue, timer, aged, faults>>

\* testCase.Run is called
AtRunCall(r) == AtReadable(r) /\ ~HereFound(r)

\* ... and reaches its Create call
AtCreate(r) == AtRunCall(r) /\ RunReachesCreate(Here(r), snap[r].status)

\* Create succeeds, or fails with AlreadyExists, which Run tolerates
CreateObject(r) ==
    /\ AtCreate(r)
    /\ pc' = [pc EXCEPT ![r] = "poll"]
    /\ res' = [res EXCEPT ![HereName(r)] = IF @ = "absent" THEN "pending" ELSE @]
    /\ UNCHANGED <<run, idx, snap, stale, result, queue, timer, aged, faults>>

\* Run returns an error before its Create call, Create fails, or it took effect
\* and its answer is lost
RunFails(r) ==
    /\ AtRunCall(r)
    /\ \/ UNCHANGED res
       \/ /\ AtCreate(r) /\ res[HereName(r)] = "absent"
          /\ res' = [res EXCEPT ![HereName(r)] = "pending"]
    /\ Conclude(r, "recordRun", FALSE)
    /\ UNCHANGED <<run, idx, snap, stale, queue, timer, aged, faults>>

\* WaitForReadyAndGet: an object being deleted still shows its ready status
PollReady(r) ==
    /\ pc[r] = "poll" /\ res[HereName(r)] \in {"ready", "terminating"}
    /\ Conclude(r, "recordRun", TRUE)
    /\ UNCHANGED <<run, res, idx, snap, stale, queue, timer, aged, faults>>

\* pollTimeout, the context's timeout or any error of Get
PollFails(r) ==
    /\ pc[r] = "poll"
    /\ Conclude(r, "recordRun", FALSE)
    /\ UNCHANGED <<run, res, idx, snap, stale, queue, timer, aged, faults>>

\* variant of AfterRun: the list is assigned, not appended to
AfterRunOverwrites(r) == <<NewEntry(HereName(r), result[r])>>
\* updateStatusAfterRun
AfterRun(r) == Append(snap[r].status, NewEntry(HereName(r), result[r]))

RecordPassed(r) ==
    /\ pc[r] = "recordRun" /\ result[r] /\ Accepts(r) /\ Fits(AfterRun(r))
    /\ Write(AfterRun(r))
    /\ snap' = [snap EXCEPT ![r] = [rv |-> run.rv + 1, status |-> AfterRun(r)]]
    /\ GoTo(r, "run", idx[r] + 1)
    /\ result' = [result EXCEPT ![r] = FALSE]
    /\ UNCHANGED <<res, stale, timer, aged, faults>>

\* the failure is recorded and its error returned
RecordFailed(r) ==
    /\ pc[r] = "recordRun" /\ ~result[r] /\ Accepts(r) /\ Fits(AfterRun(r))
    /\ Write(AfterRun(r))
    /\ Leave(r)
    /\ UNCHANGED <<res, timer, aged, faults>>

-----------------------------------------------------------------------------
(* Reconcile: the choice of a cleanup *)

Stale(r) == StaleEnabled /\ isRunFailedAndNotCleaned(snap[r].status)

DecideWait(r) ==
    /\ pc[r] = "decide" /\ Stale(r) /\ ~aged
    /\ ReturnLater(r)
    /\ UNCHANGED <<run, res, aged, faults>>

\* variant of DecideStaleCleanup: the age of the run is not looked at
DecideStaleCleanupEarly(r) ==
    /\ pc[r] = "decide" /\ Stale(r)
    /\ GoTo(r, "clean", N)
    /\ stale' = [stale EXCEPT ![r] = TRUE]
    /\ UNCHANGED <<run, res, snap, result, queue, timer, aged, faults>>

DecideStaleCleanup(r) ==
    /\ pc[r] = "decide" /\ Stale(r) /\ aged
    /\ GoTo(r, "clean", N)
    /\ stale' = [stale EXCEPT ![r] = TRUE]
    /\ UNCHANGED <<run, res, snap, result, queue, timer, aged, faults>>

\* variant of DecideCleanup: the loop starts at len(...)
DecideCleanupOffByOne(r) ==
    /\ pc[r] = "decide" /\ ~Stale(r)
    /\ GoTo(r, "clean", N + 1)
    /\ UNCHANGED <<run, res, snap, stale, result, queue, timer, aged, faults>>

DecideCleanup(r) ==
    /\ pc[r] = "decide" /\ ~Stale(r)
    /\ GoTo(r, "clean", N)
    /\ UNCHANGED <<run, res, snap, stale, result, queue, timer, aged, faults>>

-----------------------------------------------------------------------------
(* cleanupTestCases and cleanupStaleTestCases, which stale[r] tells apart *)

AtReadableCleanup(r) ==
    /\ pc[r] = "clean" /\ idx[r] > 0
    /\ Registered(Here(r)) /\ Readable(Here(r))

CleanupAllDone(r) ==
    /\ pc[r] = "clean" /\ idx[r] = 0
    /\ ReturnDone(r)
    /\ UNCHANGED <<run, res, aged, faults>>

CleanupSkipsUnregistered(r) ==
    /\ pc[r] = "clean" /\ idx[r] > 0 /\ ~Registered(Here(r))
    /\ GoTo(r, "clean", idx[r] - 1)
    /\ UNCHANGED <<run, res, snap, stale, result, queue, timer, aged, faults>>

\* the config cannot be read: the loop returns the error
CleanupUnreadable(r) ==
    /\ pc[r] = "clean" /\ idx[r] > 0
    /\ Registered(Here(r)) /\ ~Readable(Here(r))
    /\ ReturnError(r)
    /\ UNCHANGED <<run, res, aged, faults>>

\* variant of Cleanable: the normal path does not look at the verdict
CleansWhatIsRecorded(r) == HereFound(r)

\* the normal path needs a passed entry, the stale path only an entry
Cleanable(r) == HereFound(r) /\ (stale[r] \/ isTestCasePassed(HereEntry(r)))

\* the normal path breaks where the stale path goes on to the next test case
CleanupBreaks(r) ==
    /\ AtReadableCleanup(r) /\ ~stale[r] /\ ~Cleanable(r)
    /\ ReturnDone(r)
    /\ UNCHANGED <<run, res, aged, faults>>

CleanupSkips(r) ==
    /\ AtReadableCleanup(r)
    /\ \/ stale[r] /\ ~Cleanable(r)
       \/ Cleanable(r) /\ isTestCaseCleanupSucceeded(HereEntry(r))
    /\ GoTo(r, "clean", idx[r] - 1)
    /\ UNCHANGED <<run, res, snap, stale, result, queue, timer, aged, faults>>

AtCleanup(r) ==
    /\ AtReadableCleanup(r) /\ Cleanable(r)
    /\ ~isTestCaseCleanupSucceeded(HereEntry(r))

\* Cleanup without exports: "nothing to clean up"
CleanupNothing(r) ==
    /\ AtCleanup(r) /\ ~HereEntry(r).exports
    /\ Conclude(r, "recordCleanup", TRUE)
    /\ UNCHANGED <<run, res, idx, snap, stale, queue, timer, aged, faults>>

\* Delete answers NotFound: already gone
DeleteNotFound(r) ==
    /\ AtCleanup(r) /\ HereEntry(r).exports /\ res[HereName(r)] = "absent"
    /\ Conclude(r, "recordCleanup", TRUE)
    /\ UNCHANGED <<run, res, idx, snap, stale, queue, timer, aged, faults>>

\* variant of DeleteObject: Cleanup does not wait for the deletion
DeleteObjectWithoutWait(r) ==
    /\ AtCleanup(r) /\ HereEntry(r).exports /\ res[HereName(r)] # "absent"
    /\ res' = [res EXCEPT ![HereName(r)] = "terminating"]
    /\ Conclude(r, "recordCleanup", TRUE)
    /\ UNCHANGED <<run, idx, snap, stale, queue, timer, aged, faults>>

DeleteObject(r) ==
    /\ AtCleanup(r) /\ HereEntry(r).exports /\ res[HereName(r)] # "absent"
    /\ pc' = [pc EXCEPT ![r] = "waitGone"]
    /\ res' = [res EXCEPT ![HereName(r)] = "terminating"]
    /\ UNCHANGED <<run, idx, snap, stale, result, queue, timer, aged, faults>>

\* Delete fails, or it took effect and its answer is lost
DeleteFails(r) ==
    /\ AtCleanup(r) /\ HereEntry(r).exports
    /\ Fault
    /\ \/ UNCHANGED res
       \/ res[HereName(r)] # "absent" /\ res' = [res EXCEPT ![HereName(r)] = "terminating"]
    /\ Conclude(r, "recordCleanup", FALSE)
    /\ UNCHANGED <<run, idx, snap, stale, queue, timer, aged>>

\* WaitForDeletion
WaitGone(r) ==
    /\ pc[r] = "waitGone" /\ res[HereName(r)] = "absent"
    /\ Conclude(r, "recordCleanup", TRUE)
    /\ UNCHANGED <<run, res, idx, snap, stale, queue, timer, aged, faults>>

WaitGoneFails(r) ==
    /\ pc[r] = "waitGone"
    /\ Fault
    /\ Conclude(r, "recordCleanup", FALSE)
    /\ UNCHANGED <<run, res, idx, snap, stale, queue, timer, aged>>

\* updateStatusAfterCleanup
AfterCleanup(r) == SetCleanup(HereName(r), result[r], snap[r].status)

RecordCleaned(r) ==
    /\ pc[r] = "recordCleanup" /\ result[r] /\ Accepts(r)
    /\ Write(AfterCleanup(r))
    /\ snap' = [snap EXCEPT ![r] = [rv |-> run.rv + 1, status |-> AfterCleanup(r)]]
    /\ GoTo(r, "clean", idx[r] - 1)
    /\ result' = [result EXCEPT ![r] = FALSE]
    /\ UNCHANGED <<res, stale, timer, aged, faults>>

\* variant of RecordCleanupError: the loop goes on after an error
RecordCleanupErrorGoesOn(r) ==
    /\ pc[r] = "recordCleanup" /\ ~result[r] /\ Accepts(r)
    /\ Write(AfterCleanup(r))
    /\ snap' = [snap EXCEPT ![r] = [rv |-> run.rv + 1, status |-> AfterCleanup(r)]]
    /\ GoTo(r, "clean", idx[r] - 1)
    /\ UNCHANGED <<res, stale, result, timer, aged, faults>>

\* the cleanup's error is recorded and returned
RecordCleanupError(r) ==
    /\ pc[r] = "recordCleanup" /\ ~result[r] /\ Accepts(r)
    /\ Write(AfterCleanup(r))
    /\ Leave(r)
    /\ UNCHANGED <<res, timer, aged, faults>>

-----------------------------------------------------------------------------
(* Status().Update, of either record, does not answer with success *)

Updated(r) == IF pc[r] = "recordRun" THEN AfterRun(r) ELSE AfterCleanup(r)
AtUpdate(r) == pc[r] \in {"recordRun", "recordCleanup"}

\* NotFound, Conflict, or an object too large to store
UpdateRejected(r) ==
    /\ AtUpdate(r) /\ ~(Accepts(r) /\ Fits(Updated(r)))
    /\ ReturnError(r)
    /\ UNCHANGED <<run, res, aged, faults>>

UpdateFails(r) ==
    /\ AtUpdate(r)
    /\ Fault
    /\ ReturnError(r)
    /\ UNCHANGED <<run, res, aged>>

\* stored, but the answer is lost
UpdateLost(r) ==
    /\ AtUpdate(r) /\ Accepts(r) /\ Fits(Updated(r))
    /\ Fault
    /\ Write(Updated(r))
    /\ Leave(r)
    /\ UNCHANGED <<res, timer, aged>>

-----------------------------------------------------------------------------
(* What happens around the reconciler *)

\* the process dies; on its restart the initial list enqueues the run
Crash(r) ==
    /\ Fault
    /\ Leave(r)
    /\ queue' = [queue EXCEPT ![r] = TRUE]
    /\ timer' = [timer EXCEPT ![r] = FALSE]
    /\ UNCHANGED <<run, res, aged>>

\* the cache's periodic resync
Resync(r) ==
    /\ ~queue[r]
    /\ queue' = [queue EXCEPT ![r] = TRUE]
    /\ UNCHANGED <<run, res, local, timer, aged, faults>>

\* RequeueAfter elapses; it was computed to last until the run is stale
TimerFires(r) ==
    /\ timer[r] /\ aged
    /\ timer' = [timer EXCEPT ![r] = FALSE]
    /\ queue' = [queue EXCEPT ![r] = TRUE]
    /\ UNCHANGED <<run, res, local, aged, faults>>

Age ==
    /\ ~aged
    /\ aged' = TRUE
    /\ UNCHANGED <<run, res, local, queue, timer, faults>>

\* the onboarding cluster's operators
BecomeReady(n) ==
    /\ res[n] = "pending"
    /\ res' = [res EXCEPT ![n] = "ready"]
    /\ UNCHANGED <<run, local, queue, timer, aged, faults>>

FinishDeletion(n) ==
    /\ res[n] = "terminating"
    /\ res' = [res EXCEPT ![n] = "absent"]
    /\ UNCHANGED <<run, local, queue, timer, aged, faults>>

\* kubectl delete; the run has no finalizer
UserDeletes ==
    /\ Deletable /\ run.exists
    /\ run' = [run EXCEPT !.exists = FALSE]
    /\ queue' = [q \in Replicas |-> TRUE]
    /\ UNCHANGED <<res, local, timer, aged, faults>>

-----------------------------------------------------------------------------
RunStep(r) ==
    \/ RunAllDone(r) \/ RunBreaksOff(r) \/ RunMalformed(r)
    \/ RunSkipsPassed(r) \/ RunStopsAtFailed(r) \/ RunFails(r)
    \/ CreateObject(r) \/ PollReady(r) \/ PollFails(r)
    \/ RecordPassed(r) \/ RecordFailed(r)

CleanupStep(r) ==
    \/ DecideWait(r) \/ DecideStaleCleanup(r) \/ DecideCleanup(r)
    \/ CleanupAllDone(r) \/ CleanupSkipsUnregistered(r) \/ CleanupUnreadable(r)
    \/ CleanupBreaks(r) \/ CleanupSkips(r) \/ CleanupNothing(r)
    \/ DeleteNotFound(r) \/ DeleteObject(r) \/ WaitGone(r)
    \/ RecordCleaned(r) \/ RecordCleanupError(r)

FaultStep(r) ==
    \/ FetchFails(r) \/ DeleteFails(r) \/ WaitGoneFails(r)
    \/ UpdateFails(r) \/ UpdateLost(r) \/ Crash(r)

\* what the worker of a replica does on its own
Worker(r) ==
    \/ FetchFound(r) \/ FetchNotFound(r)
    \/ RunStep(r) \/ CleanupStep(r) \/ UpdateRejected(r)

Environment ==
    \/ \E r \in Replicas : Resync(r) \/ TimerFires(r)
    \/ \E n \in Names : BecomeReady(n) \/ FinishDeletion(n)
    \/ Age \/ UserDeletes

Next ==
    \/ \E r \in Replicas : Worker(r) \/ FaultStep(r)
    \/ Environment

Spec == Init /\ [][Next]_vars

(***************************************************************************)
(* A worker that can go on goes on, timers fire, time passes, and the      *)
(* onboarding operators finish what is being deleted.  Nothing is assumed  *)
(* of readiness, of resyncs, of users and of faults.                       *)
(***************************************************************************)
Fairness ==
    /\ \A r \in Replicas : WF_vars(Worker(r)) /\ WF_vars(TimerFires(r))
    /\ \A n \in Names : WF_vars(FinishDeletion(n))
    /\ WF_vars(Age)

FairSpec == Spec /\ Fairness
-----------------------------------------------------------------------------
(* What the reconciler promises *)

AllPassed(stati)  == Len(stati) = N /\ \A i \in 1..N : isTestCasePassed(stati[i])
HasFailed(stati)  == \E i \in DOMAIN stati : isTestCaseFailed(stati[i])
AllCleaned(stati) == \A i \in DOMAIN stati : isTestCaseCleanupSucceeded(stati[i])

(***************************************************************************)
(* The status is a journal: whatever the replicas, crashes and lost        *)
(* answers do, an entry stays at its place, its verdict is never rewritten *)
(* and a cleanup once recorded as successful stays so.                     *)
(***************************************************************************)
Journal(old, new) ==
    /\ Len(old) <= Len(new)
    /\ \A i \in DOMAIN old :
        /\ new[i].name = old[i].name /\ new[i].run = old[i].run
        /\ new[i].exports = old[i].exports
        /\ isTestCaseCleanupSucceeded(old[i]) => isTestCaseCleanupSucceeded(new[i])
StatusIsJournal == [][Journal(run.status, run.status')]_vars

(***************************************************************************)
(* The test cases ran in the order of the spec, each at most once, and     *)
(* nothing was recorded after a failure: the entries are those of a prefix *)
(* of the spec, and all but the last passed.  For specs whose test cases   *)
(* can be read and have different status names.                            *)
(***************************************************************************)
PrefixOfSpec(stati) ==
    /\ Len(stati) <= N
    /\ \A i \in DOMAIN stati : stati[i].name = RecordName(SpecTestCases[i])
    /\ \A i \in DOMAIN stati : i < Len(stati) => isTestCasePassed(stati[i])
StatusIsPrefix == PrefixOfSpec(run.status)

(***************************************************************************)
(* No object of the run starts to be deleted unless the recorded status    *)
(* says that all test cases passed, or that one failed and the run is      *)
(* stale: what a failed run built stays up for inspection until then.      *)
(***************************************************************************)
MayDelete == \/ AllPassed(run.status)
             \/ StaleEnabled /\ aged /\ HasFailed(run.status)
DeletedOnlyAfterVerdict ==
    [][\A n \in Names : res[n] # "terminating" /\ res'[n] = "terminating" => MayDelete]_vars

(***************************************************************************)
(* One replica: once the cleanup of a passed test case is recorded as      *)
(* successful, its object is gone, and no retry ever creates it again.     *)
(***************************************************************************)
CleanedMeansGone ==
    \A i \in DOMAIN run.status :
        /\ isTestCasePassed(run.status[i])
        /\ isTestCaseCleanupSucceeded(run.status[i])
        => res[run.status[i].name] = "absent"

(***************************************************************************)
(* One replica: the objects of passed test cases go in reverse order; one  *)
(* is touched only when those created after it are gone, across errors,    *)
(* crashes and restarted cleanups.                                         *)
(***************************************************************************)
Going(e) == res[e.name] \in {"terminating", "absent"}
ReverseOrder ==
    \A i, j \in DOMAIN run.status :
        i < j /\ isTestCasePassed(run.status[i]) /\ isTestCasePassed(run.status[j])
              /\ Going(run.status[i])
        => res[run.status[j].name] = "absent"

(***************************************************************************)
(* A run with work left is never forgotten: it is in a work queue, waits   *)
(* for a timer, or a worker is at it.                                      *)
(***************************************************************************)
WorkDone(stati) ==
    IF HasFailed(stati)
    THEN ~StaleEnabled \/ ~isRunFailedAndNotCleaned(stati)
    ELSE AllPassed(stati) /\ AllCleaned(stati)
NeverForgotten ==
    run.exists /\ ~WorkDone(run.status) =>
        \E r \in Replicas : queue[r] \/ timer[r] \/ pc[r] # "idle"

(***************************************************************************)
(* Liveness, under FairSpec, for one replica and finitely many faults.     *)
(***************************************************************************)
\* Every run gets its verdict: all test cases passed, or one failed.
VerdictReached == <>(~run.exists \/ AllPassed(run.status) \/ HasFailed(run.status))

\* Everything a passed run created is deleted in the end, and stays deleted.
PassedRunIsCleaned ==
    AllPassed(run.status) ~> (~run.exists \/ [](\A n \in Names : res[n] = "absent"))

\* The objects of the passed test cases of a failed run are deleted in the end,
\* once the run is stale, whatever faults precede the cleanup or its first record,
\* unless the cleanup ends after the failed test case was recorded as cleaned up
\* (stale_interrupted): crashes before that lose neither the timer nor the cleanup.
PassedObjectsGone ==
    \A i \in DOMAIN run.status :
        isTestCasePassed(run.status[i]) => res[run.status[i].name] = "absent"
Interrupted ==
    /\ HasFailed(run.status) /\ ~isRunFailedAndNotCleaned(run.status)
    /\ \A r \in Replicas : ~stale[r]
StaleRunIsCleanedUnlessInterrupted ==
    StaleEnabled /\ HasFailed(run.status) ~>
        (~run.exists \/ PassedObjectsGone \/ Interrupted)

-----------------------------------------------------------------------------
(***************************************************************************)
(* What the repository says and the code does not do                       *)
(***************************************************************************)
\* "Cleanup reverses the test case actions": what is recorded as cleaned up
\* has no object left on the onboarding cluster.
CleanupReversesRun ==
    \A i \in DOMAIN run.status :
        isTestCaseCleanupSucceeded(run.status[i]) => res[run.status[i].name] = "absent"

\* "bypass normal cleanup and attempt cleanup of all test cases regardless of
\* pass/fail status": the objects of the passed test cases of a stale run are
\* deleted in the end, if need be by a retry.
StaleRunIsCleaned ==
    StaleEnabled /\ HasFailed(run.status) ~> (~run.exists \/ PassedObjectsGone)

\* "the name used to identify this test case's status entry": a name
\* identifies one entry.
NameIdentifiesEntry ==
    \A i, j \in DOMAIN run.status : run.status[i].name = run.status[j].name => i = j
=============================================================================
