--------------------------- MODULE TestRunStatus ---------------------------
(***************************************************************************)
(* The status of an E2ETestRun: a list of entries, one per executed test   *)
(* case, and the predicates the reconciler reads it with.  An entry keeps  *)
(*   name     the status name of the test case                             *)
(*   run      the RunCompleted condition: True ("passed"), False ("failed")*)
(*   cleanup  the CleanupCompleted condition: absent ("none"), False       *)
(*            ("failed") or True ("succeeded")                             *)
(*   exports  whether exports were recorded                                *)
(* Messages, reasons, debug info and transition times are abstracted.      *)
(***************************************************************************)
EXTENDS Naturals, Sequences

Entry(Names) == [name    : Names,
                 run     : {"passed", "failed"},
                 cleanup : {"none", "failed", "succeeded"},
                 exports : BOOLEAN]

\* toAPITestCaseStatus: exports are nil unless Run succeeded
NewEntry(name, ok) == [name    |-> name,
                       run     |-> IF ok THEN "passed" ELSE "failed",
                       cleanup |-> "none",
                       exports |-> ok]

Matches(name, stati) == {i \in DOMAIN stati : stati[i].name = name}

\* runner.GetStatus: the position of the first entry of that name
Found(name, stati) == Matches(name, stati) # {}
GetStatus(name, stati) ==
    CHOOSE i \in Matches(name, stati) : \A j \in Matches(name, stati) : i <= j

isTestCasePassed(e)           == e.run = "passed"
isTestCaseFailed(e)           == e.run = "failed"
isTestCaseCleanupSucceeded(e) == e.cleanup = "succeeded"

isRunFailedAndNotCleaned(stati) ==
    \E i \in DOMAIN stati : /\ isTestCaseFailed(stati[i])
                            /\ ~isTestCaseCleanupSucceeded(stati[i])

\* variant of SetCleanup: an error is recorded as a success
SetCleanupAlways(name, ok, stati) ==
    [stati EXCEPT ![GetStatus(name, stati)].cleanup = "succeeded"]

\* updateStatusAfterCleanup, on the list it is about to write
SetCleanup(name, ok, stati) ==
    [stati EXCEPT ![GetStatus(name, stati)].cleanup =
        IF ok THEN "succeeded" ELSE "failed"]

\* json.Unmarshal of the exports of the entry, as the test cases read them
HasExports(name, stati) ==
    Found(name, stati) /\ stati[GetStatus(name, stati)].exports
=============================================================================
