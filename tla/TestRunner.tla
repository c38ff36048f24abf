----------------------------- MODULE TestRunner -----------------------------
(***************************************************************************)
(* The whole program: the two commands, and the run reconciler with its    *)
(* one worker and one work queue for all runs, on one onboarding cluster.  *)
(* The detail of one reconcile is in E2ETestRunController; here a step     *)
(* that touches the onboarding cluster and the status update that records  *)
(* its outcome are told apart only where another run or a crash can see it.*)
(*                                                                         *)
(* created  the runs that exist                                            *)
(* passed   per run, how many of its test cases passed                     *)
(* failed   the runs one of whose test cases failed                        *)
(* marked   those whose failed test case is recorded as cleaned up         *)
(* cleaned  per run, how many passed test cases, the last ones first, are  *)
(*          recorded as cleaned up                                         *)
(* aged     the runs older than staleAfter, among the failed ones          *)
(* objects  the objects on the onboarding cluster by their key: which run  *)
(*          created each, and whether it is being deleted                  *)
(* queue    the runs in the work queue                                     *)
(* timer    the runs with a pending RequeueAfter                           *)
(* worker   <<>>, or the run the worker is at and where in Reconcile it is *)
(***************************************************************************)
EXTENDS Startup

CONSTANTS Runs,   \* the E2ETestRuns that may be created, by name: they are in no namespace
          K,      \* the number of test cases of each
          Broken  \* the runs whose last test case is not in the registry

ASSUME RunsAssumption ==
    K \in Nat \ {0} /\ Broken \subseteq Runs

VARIABLES created, passed, failed, marked, cleaned, aged, objects, queue, timer, worker

status == <<passed, failed, marked, cleaned>>
vars   == <<startup, created, status, aged, objects, queue, timer, worker>>

\* variant of Key: the run is left out of the name
KeyWithoutRun(r, i) == <<"run", i>>
\* Names derive from the run's name, and the namespaces from those names.
Key(r, i) == <<r, i>>

Init ==
    /\ StartupInit
    /\ created = {}
    /\ passed = [r \in Runs |-> 0] /\ failed = {} /\ marked = {}
    /\ cleaned = [r \in Runs |-> 0]
    /\ aged = {}
    /\ objects = <<>>
    /\ queue = {} /\ timer = {}
    /\ worker = <<>>

-----------------------------------------------------------------------------
(* One reconcile *)

At(r, where) == worker = <<r, where>>

\* no test case of the run is left to be run
AllPassed(r) == passed[r] = K
\* the objects of the next test case to run, and of the next one to clean up
NextKey(r) == Key(r, passed[r] + 1)
LastKey(r) == Key(r, passed[r] - cleaned[r])

Present(key) == key \in DOMAIN objects

\* Reconcile returns; on an error the work queue takes the run back
Finish  == worker' = <<>> /\ UNCHANGED <<queue, timer>>
\* variant of RetryLater: the worker tries again itself
RetryAtOnce(r) == worker' = <<r, "run">> /\ UNCHANGED <<queue, timer>>
\* variant of RetryLater: the error is swallowed
RetryNever(r) == Finish
RetryLater(r) == worker' = <<>> /\ queue' = queue \cup {r} /\ UNCHANGED timer

Take(r) ==
    /\ Up /\ worker = <<>> /\ r \in queue
    /\ worker' = <<r, "run">>
    /\ queue' = queue \ {r}
    /\ UNCHANGED <<startup, created, status, aged, objects, timer>>

\* runTestCases at the first test case that has not passed
AtCase(r) == At(r, "run") /\ r \notin failed /\ ~AllPassed(r)
Registered(r) == ~(r \in Broken /\ passed[r] + 1 = K)

BreakOff(r) ==
    /\ AtCase(r) /\ ~Registered(r)
    /\ RetryLater(r)
    /\ UNCHANGED <<startup, created, status, aged, objects>>

\* Create, which tolerates an object that exists, whoever created it
CreateObject(r) ==
    /\ AtCase(r) /\ Registered(r)
    /\ objects' = [key \in DOMAIN objects \cup {NextKey(r)} |->
                      IF Present(key) THEN objects[key] ELSE [by |-> r, going |-> FALSE]]
    /\ worker' = <<r, "poll">>
    /\ UNCHANGED <<startup, created, status, aged, queue, timer>>

RecordPassed(r) ==
    /\ At(r, "poll") /\ Present(NextKey(r))
    /\ passed' = [passed EXCEPT ![r] = @ + 1]
    /\ worker' = <<r, "run">>
    /\ UNCHANGED <<startup, created, failed, marked, cleaned, aged, objects, queue, timer>>

\* Run fails, before or after its Create; its failure is recorded
RecordFailed(r) ==
    /\ At(r, "poll") \/ (AtCase(r) /\ Registered(r))
    /\ failed' = failed \cup {r}
    /\ RetryLater(r)
    /\ UNCHANGED <<startup, created, passed, marked, cleaned, aged, objects>>

\* the choice after the run loop has ended at a failed or after the last test case
AtChoice(r) == At(r, "run") /\ (r \in failed \/ AllPassed(r))

WaitUntilStale(r) ==
    /\ AtChoice(r) /\ r \in failed \ (marked \cup aged)
    /\ worker' = <<>> /\ timer' = timer \cup {r}
    /\ UNCHANGED <<startup, created, status, aged, objects, queue>>

\* the normal cleanup meets the failed test case first, and ends there
LeaveFailed(r) ==
    /\ AtChoice(r) /\ r \in failed \cap marked
    /\ Finish
    /\ UNCHANGED <<startup, created, status, aged, objects>>

\* variant of StartCleanup: a failed run is cleaned up at once
StartCleanupEarly(r) ==
    /\ AtChoice(r) /\ r \notin marked
    /\ worker' = <<r, "clean">>
    /\ UNCHANGED <<startup, created, status, aged, objects, queue, timer>>

\* of a run that passed, or is failed, stale and not yet marked
StartCleanup(r) ==
    /\ AtChoice(r) /\ (r \in failed => r \in aged \ marked)
    /\ worker' = <<r, "clean">>
    /\ UNCHANGED <<startup, created, status, aged, objects, queue, timer>>

\* the failed test case has no exports: its cleanup does nothing, and is recorded
MarkFailed(r) ==
    /\ At(r, "clean") /\ r \in failed \ marked
    /\ marked' = marked \cup {r}
    /\ UNCHANGED <<startup, created, passed, failed, cleaned, aged, objects, queue, timer, worker>>

AtCleanup(r) == At(r, "clean") /\ (r \in failed => r \in marked)

FinishCleanup(r) ==
    /\ AtCleanup(r) /\ cleaned[r] = passed[r]
    /\ Finish
    /\ UNCHANGED <<startup, created, status, aged, objects>>

DeleteObject(r) ==
    /\ AtCleanup(r) /\ cleaned[r] < passed[r] /\ Present(LastKey(r))
    /\ objects' = [objects EXCEPT ![LastKey(r)].going = TRUE]
    /\ worker' = <<r, "wait">>
    /\ UNCHANGED <<startup, created, status, aged, queue, timer>>

\* variant of RecordCleaned: the deletion is not waited for
RecordCleanedEarly(r) ==
    /\ At(r, "wait") \/ (AtCleanup(r) /\ cleaned[r] < passed[r] /\ ~Present(LastKey(r)))
    /\ cleaned' = [cleaned EXCEPT ![r] = @ + 1]
    /\ worker' = <<r, "clean">>
    /\ UNCHANGED <<startup, created, passed, failed, marked, aged, objects, queue, timer>>

\* variant of RecordCleaned: the loop does not end at the first test case
RecordCleanedPastEnd(r) ==
    /\ At(r, "wait") \/ AtCleanup(r)
    /\ ~Present(LastKey(r))
    /\ cleaned' = [cleaned EXCEPT ![r] = @ + 1]
    /\ worker' = <<r, "clean">>
    /\ UNCHANGED <<startup, created, passed, failed, marked, aged, objects, queue, timer>>

\* the object is gone, before its deletion or by it
RecordCleaned(r) ==
    /\ At(r, "wait") \/ (AtCleanup(r) /\ cleaned[r] < passed[r])
    /\ ~Present(LastKey(r))
    /\ cleaned' = [cleaned EXCEPT ![r] = @ + 1]
    /\ worker' = <<r, "clean">>
    /\ UNCHANGED <<startup, created, passed, failed, marked, aged, objects, queue, timer>>

\* any other error of Reconcile
ReconcileFails(r) ==
    /\ worker # <<>> /\ worker[1] = r
    /\ Fault
    /\ RetryLater(r)
    /\ UNCHANGED <<flags, access, crds, init, process, created, status, aged, objects>>

Worker(r) ==
    \/ BreakOff(r) \/ CreateObject(r) \/ RecordPassed(r) \/ RecordFailed(r)
    \/ WaitUntilStale(r) \/ LeaveFailed(r) \/ StartCleanup(r) \/ MarkFailed(r)
    \/ FinishCleanup(r) \/ DeleteObject(r) \/ RecordCleaned(r)

-----------------------------------------------------------------------------
(* What happens around it *)

\* a user, or the reconciler of a specification; needs the CRD
CreateRun(r) ==
    /\ r \notin created /\ "local" \in crds
    /\ created' = created \cup {r}
    /\ queue' = IF Up THEN queue \cup {r} ELSE queue
    /\ UNCHANGED <<startup, status, aged, objects, timer, worker>>

\* a failed run becomes stale; a RequeueAfter that waits for it fires
Age(r) ==
    /\ r \in failed \ aged
    /\ aged' = aged \cup {r}
    /\ queue' = queue \cup (timer \cap {r})
    /\ timer' = timer \ {r}
    /\ UNCHANGED <<startup, created, status, objects, worker>>

\* the onboarding cluster's operators
Vanish(key) ==
    /\ Present(key) /\ objects[key].going
    /\ objects' = [k \in DOMAIN objects \ {key} |-> objects[k]]
    /\ UNCHANGED <<startup, created, status, aged, queue, timer, worker>>

Rest       == <<created, status, aged, objects>>
Unaffected == UNCHANGED <<Rest, queue, timer, worker>>

InitPod     == InitStep /\ Unaffected
InitPodDies == InitFails /\ Unaffected
ProcessPod  == (ProcessStep \/ CachesTimeOut) /\ Unaffected
Accesses    == AccessStep /\ Unaffected
\* the caches are filled, and the initial list puts every run into the queue
ComeUp      == CachesSync /\ queue' = created /\ UNCHANGED <<Rest, timer, worker>>
GoDown      == ProcessDies /\ queue' = {} /\ timer' = {} /\ worker' = <<>> /\ UNCHANGED Rest

Next ==
    \/ InitPod \/ InitPodDies \/ ProcessPod \/ Accesses \/ ComeUp \/ GoDown
    \/ \E r \in Runs :
        \/ Take(r) \/ Worker(r) \/ ReconcileFails(r)
        \/ CreateRun(r) \/ Age(r)
    \/ \E key \in DOMAIN objects : Vanish(key)

Spec == Init /\ [][Next]_vars

(***************************************************************************)
(* The pods are started until they have done their work, the operators of  *)
(* both clusters do theirs, time passes, the worker goes on, and the work  *)
(* queue passes over no run for ever.  Nothing is assumed of the creation  *)
(* of runs, of the outcome of a test case and of faults.                   *)
(***************************************************************************)
Keys == {Key(r, i) : r \in Runs, i \in 1..K}
Fairness ==
    /\ WF_vars(InitPod) /\ WF_vars(ProcessPod) /\ WF_vars(Accesses) /\ WF_vars(ComeUp)
    /\ WF_vars(\E r \in Runs : Worker(r))
    /\ \A r \in Runs : SF_vars(Take(r)) /\ WF_vars(Age(r))
    /\ \A key \in Keys : WF_vars(Vanish(key))

FairSpec == Spec /\ Fairness
-----------------------------------------------------------------------------
\* Every variable holds a value of its kind, and nothing is recorded as cleaned up
\* that did not pass.
TypeOK ==
    /\ flags \in Flags /\ crds \subseteq CRDSets /\ faults \in 0..MaxFaults
    /\ access \in [{"onboarding-init", "onboarding-run"} -> {"none", "requested", "granted"}]
    /\ init \in 0..Len(InitSteps) /\ process \in 0..Len(RunSteps)
    /\ created \subseteq Runs /\ failed \subseteq created /\ marked \subseteq failed
    /\ aged \subseteq failed /\ queue \subseteq created /\ timer \subseteq failed
    /\ \A r \in Runs : passed[r] \in 0..K /\ cleaned[r] \in 0..passed[r]
    /\ DOMAIN objects \subseteq Keys
    /\ worker = <<>> \/ (worker[1] \in created /\ worker[2] \in {"run", "poll", "clean", "wait"})

(***************************************************************************)
(* A test case is only run when all three sets of CRDs that the init job   *)
(* applies are in place: it applies those of the runs last, and without    *)
(* them no reconciler runs, whichever pod is faster and however often      *)
(* either of them starts anew.  (The CRD of a createService manifest comes *)
(* from elsewhere.)                                                        *)
(***************************************************************************)
TestsFindTheirCRDs == worker # <<>> => crds = CRDSets

(***************************************************************************)
(* The cleanup of a run deletes nothing that another run created.          *)
(***************************************************************************)
CleanupDeletesOwn ==
    [][\A key \in DOMAIN objects :
        (~objects[key].going /\ key \in DOMAIN objects' /\ objects'[key].going)
        => objects[key].by = worker[1]]_vars

(***************************************************************************)
(* Seen from outside, each run gets what an E2ETestRun promises, although  *)
(* all of them share one worker, one queue and one onboarding cluster.     *)
(***************************************************************************)
Seen(r, i) ==
    CASE ~Present(Key(r, i)) -> "absent"
      [] Present(Key(r, i)) /\ objects[Key(r, i)].going -> "going"
      [] Present(Key(r, i)) /\ ~objects[Key(r, i)].going -> "up"
Promise(r) == INSTANCE TestRunPromise WITH
    N <- K, StaleEnabled <- TRUE,
    exists   <- TRUE,
    aged     <- r \in aged,
    verdicts <- [i \in 1..(passed[r] + (IF r \in failed THEN 1 ELSE 0)) |->
                    IF i <= passed[r] THEN "passed" ELSE "failed"],
    cleaned  <- {i \in 1..K : passed[r] - cleaned[r] < i /\ i <= passed[r]}
                \cup (IF r \in marked THEN {passed[r] + 1} ELSE {}),
    objects  <- [i \in 1..K |-> Seen(r, i)]
EachRunIsPromised ==
    /\ \A r \in Runs : Promise(r)!Init
    /\ [][\A r \in Runs : [Promise(r)!Next]_(Promise(r)!promised)]_vars

(***************************************************************************)
(* Liveness, under FairSpec and finitely many faults.                      *)
(***************************************************************************)
\* Both pods, started in any order and started anew after any failure, get the
\* program up, and it stays up.
ProgramComesUp == <>[](flags = "complete" => Up)

\* A run whose test cases are all registered gets its verdict, although others may
\* be retried for ever or wait for days with the same worker.
EveryRunGetsVerdict ==
    \A r \in Runs \ Broken : r \in created ~> AllPassed(r) \/ r \in failed

\* Nothing that a passed run created is left in the end.
PassedRunsLeaveNothing ==
    \A r \in Runs : AllPassed(r) ~> [](\A i \in 1..K : ~Present(Key(r, i)))
=============================================================================
