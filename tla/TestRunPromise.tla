--------------------------- MODULE TestRunPromise ---------------------------
(***************************************************************************)
(* What an E2ETestRun promises to whoever created it.  There is no         *)
(* reconciler here, no snapshot, no retry and no API call: only what can   *)
(* be seen from outside.                                                   *)
(*                                                                         *)
(* exists    whether the run is still there                                *)
(* aged      whether it is older than staleAfter                           *)
(* verdicts  the recorded outcomes, of the first test cases of the spec    *)
(* cleaned   the test cases whose cleanup is recorded as successful        *)
(* objects   the object of each test case on the onboarding cluster        *)
(***************************************************************************)
EXTENDS Naturals, Sequences

CONSTANTS N,            \* the number of test cases
          StaleEnabled  \* whether failed runs are cleaned up once stale

VARIABLES exists, aged, verdicts, cleaned, objects

promised == <<exists, aged, verdicts, cleaned, objects>>

Passed(i) == i \in DOMAIN verdicts /\ verdicts[i] = "passed"
Failed    == \E i \in DOMAIN verdicts : verdicts[i] = "failed"
Open      == Len(verdicts) < N /\ ~Failed
\* the verdict that lets the objects go
Released  == \/ Len(verdicts) = N /\ ~Failed
             \/ Failed /\ aged /\ StaleEnabled

Init ==
    /\ exists = TRUE
    /\ aged = FALSE
    /\ verdicts = <<>>
    /\ cleaned = {}
    /\ objects = [i \in 1..N |-> "absent"]

\* the object of the next test case is created, and of no other
Build(i) ==
    /\ Open /\ i = Len(verdicts) + 1
    /\ objects[i] = "absent"
    /\ objects' = [objects EXCEPT ![i] = "up"]
    /\ UNCHANGED <<exists, aged, verdicts, cleaned>>

\* test cases get their verdicts in turn, none after a failure, and none passes
\* without its object
Record(verdict) ==
    /\ exists /\ Open
    /\ verdict = "passed" => objects[Len(verdicts) + 1] = "up"
    /\ verdicts' = Append(verdicts, verdict)
    /\ UNCHANGED <<exists, aged, cleaned, objects>>

\* objects are taken down after the verdict of the run, the last one first
TakeDown(i) ==
    /\ Released /\ Passed(i)
    /\ objects[i] = "up"
    /\ \A j \in (i + 1)..N : Passed(j) => objects[j] = "absent"
    /\ objects' = [objects EXCEPT ![i] = "going"]
    /\ UNCHANGED <<exists, aged, verdicts, cleaned>>

Vanish(i) ==
    /\ objects[i] = "going"
    /\ objects' = [objects EXCEPT ![i] = "absent"]
    /\ UNCHANGED <<exists, aged, verdicts, cleaned>>

\* a cleanup is recorded once, after all later ones, and of a passed test case
\* only when its object is gone
RecordClean(i) ==
    /\ exists /\ Released
    /\ i \in DOMAIN verdicts \ cleaned
    /\ \A j \in DOMAIN verdicts : j > i => j \in cleaned
    /\ Passed(i) => objects[i] = "absent"
    /\ cleaned' = cleaned \cup {i}
    /\ UNCHANGED <<exists, aged, verdicts, objects>>

GrowOld ==
    /\ aged' = TRUE
    /\ UNCHANGED <<exists, verdicts, cleaned, objects>>

\* whoever created the run deletes it
Withdraw ==
    /\ exists' = FALSE
    /\ UNCHANGED <<aged, verdicts, cleaned, objects>>

Next ==
    \/ \E i \in 1..N : Build(i) \/ TakeDown(i) \/ Vanish(i) \/ RecordClean(i)
    \/ \E verdict \in {"passed", "failed"} : Record(verdict)
    \/ GrowOld \/ Withdraw

Spec == Init /\ [][Next]_promised
=============================================================================
