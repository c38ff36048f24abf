-------------------------- MODULE TwoEnvironments --------------------------
(***************************************************************************)
(* Two environments that watch one onboarding cluster: two processes, each *)
(* with its own platform cluster, work queue and E2ETestRun.  The runs have*)
(* one name and the same test cases.  No name of an object contains the    *)
(* environment, so both runs' test cases are about the same objects.       *)
(*                                                                         *)
(* run1, ...  the variables of the first environment's reconciler          *)
(* run2, ...  those of the second one's                                    *)
(* res        the objects on the onboarding cluster, which they share      *)
(* by         the environment whose Create made each object                *)
(***************************************************************************)
EXTENDS Naturals

CONSTANTS SpecTestCases, \* run.Spec.TestCases of both runs
          MaxFaults, MaxEntries

VARIABLES run1, pc1, idx1, snap1, stale1, result1, queue1, timer1, aged1, faults1,
          run2, pc2, idx2, snap2, stale2, result2, queue2, timer2, aged2, faults2,
          res, by

own1 == <<run1, pc1, idx1, snap1, stale1, result1, queue1, timer1, aged1, faults1>>
own2 == <<run2, pc2, idx2, snap2, stale2, result2, queue2, timer2, aged2, faults2>>
vars == <<own1, own2, res, by>>

Environment1 == INSTANCE E2ETestRunController WITH
    Replicas <- {1}, StaleEnabled <- TRUE, Deletable <- FALSE,
    run <- run1, pc <- pc1, idx <- idx1, snap <- snap1, stale <- stale1, result <- result1,
    queue <- queue1, timer <- timer1, aged <- aged1, faults <- faults1

Environment2 == INSTANCE E2ETestRunController WITH
    Replicas <- {2}, StaleEnabled <- TRUE, Deletable <- FALSE,
    run <- run2, pc <- pc2, idx <- idx2, snap <- snap2, stale <- stale2, result <- result2,
    queue <- queue2, timer <- timer2, aged <- aged2, faults <- faults2

Objects == DOMAIN res

Init ==
    /\ Environment1!Init /\ Environment2!Init
    /\ by = [n \in Objects |-> 0]

\* what environment e created in this step is its own
Credit(e) ==
    by' = [n \in Objects |-> IF res[n] = "absent" /\ res'[n] # "absent" THEN e ELSE by[n]]

Next ==
    \/ Environment1!Next /\ UNCHANGED own2 /\ Credit(1)
    \/ Environment2!Next /\ UNCHANGED own1 /\ Credit(2)

Spec == Init /\ [][Next]_vars
-----------------------------------------------------------------------------
(***************************************************************************)
(* "Cleanup deletes the project created in the Run method": an object that *)
(* starts to be deleted was created by the environment whose reconciler    *)
(* took the step, not by the other one.                                    *)
(***************************************************************************)
CleanupDeletesOwn ==
    [][\A n \in Objects : res[n] # "terminating" /\ res'[n] = "terminating"
                          => by[n] = (IF own1' # own1 THEN 1 ELSE 2)]_vars
=============================================================================
