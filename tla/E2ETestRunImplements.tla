------------------------ MODULE E2ETestRunImplements ------------------------
(***************************************************************************)
(* The reconciler of E2ETestRunController implements TestRunPromise.       *)
(***************************************************************************)
EXTENDS E2ETestRunController

\* how the object of a test case looks from outside
Seen(object) == CASE object = "absent"               -> "absent"
                  [] object \in {"pending", "ready"} -> "up"
                  [] object = "terminating"          -> "going"

Promise == INSTANCE TestRunPromise WITH
    exists   <- run.exists,
    verdicts <- [i \in DOMAIN run.status |-> run.status[i].run],
    cleaned  <- {i \in DOMAIN run.status : isTestCaseCleanupSucceeded(run.status[i])},
    objects  <- [i \in 1..N |-> Seen(res[RecordName(SpecTestCases[i])])]

(***************************************************************************)
(* One replica, readable configs, different status names: whatever crashes,*)
(* retries, lost answers and restarted cleanups do inside the reconciler,  *)
(* from outside each of its steps is a step of the promise or none.        *)
(***************************************************************************)
ImplementsPromise == Promise!Spec
=============================================================================
