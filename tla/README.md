# A TLA+ model of platform-service-test-runner

This directory verifies platform-service-test-runner. An init job prepares the
clusters; the run process then works with two reconcilers: one creates an
`E2ETestRun` whenever the cron schedule of an `E2ETestSpecification` is due, the
other executes the test cases of an `E2ETestRun` against the onboarding cluster,
records each outcome in the run's status and deletes what the test cases
created. The directory holds TLA+ modules, TLC configurations, and TLAPS proofs
of the properties that matter most.

## 1. Inventory

| Part | Source | State | Operations | Correct if |
| --- | --- | --- | --- | --- |
| E2ETestRun reconciler | `internal/controller/e2etestrun` | none of its own; everything is in the status of the run (platform cluster), the work queue and one timer | `Reconcile` = fetch, `runTestCases`, choice of a cleanup, `cleanupTestCases` or `cleanupStaleTestCases`, one status update per test case | each test case runs once and in order; the run gets a verdict; nothing is deleted before it; everything a passed run created goes, in reverse order |
| Run status | `api/v1alpha1/e2etestrun_types.go`, predicates in the reconciler | the list of entries with the conditions `RunCompleted` and `CleanupCompleted` and the exports | append an entry, set the cleanup condition | a verdict is never rewritten, an entry never lost |
| Test cases | `internal/runner/create*.go`, `testcase.go`, `TestRegistry.go` | the object of each test case on the onboarding cluster | `Run`: check the exports of the case it builds on, create, poll until ready; `Cleanup`: read the own exports, delete, poll until gone; `StatusName` | `Run` tolerates an object that exists, `Cleanup` one that is gone; Cleanup reverses Run |
| E2ETestSpecification reconciler | `internal/controller/e2etestspec` | none; the pending requeue is in the work queue | `Reconcile` = fetch, validate, decide whether a tick is due, create a run, requeue at the next tick | one run for each tick, no run off schedule, always a next call |
| Durations of a test case | `internal/runner/testcase.go`, `create*.go` | the deadlines of an operation's context and of its poll, the poll's ticker | `GetContextTimeoutOrDefault`, `GetPollIntervalOrDefault`, `GetPollTimeoutOrDefault`, `PollUntilContextTimeout` | an operation returns within its context, notices an object that is ready in time, and asks no more often than its interval |
| `init` command | `cmd/.../app/init.go` | none; an access request and the CRDs in the clusters | get access to the onboarding cluster, apply the openMCP CRDs, those of project-workspace, then its own | it may be started anew after any step; its own CRDs come last |
| `run` command | `cmd/.../app/run.go` | flags (`--leader-elect`, `--stale-run-cleanup-after`), an access request, the registry, the manager | get access, find out the own identity, register the test cases, start the manager | it comes up in the end, whichever pod is faster, and no test case meets a missing CRD |
| Several runs | both reconcilers and controller-runtime | one work queue, one worker, one onboarding cluster | - | each run gets what it would get alone |
| Several environments | `--environment` in `app.go` | a process, a platform cluster and a work queue each, one onboarding cluster together | - | no environment touches the other one's objects |
| Flags, printing, version | `app.go`, `print.go`, `internal/version` | none | `Complete` and the dry run decide whether a command does anything | only that decision is modelled |
| API registration, CRDs | `api/` | none | declarations, generated code | not modelled |

**Interaction.** The two commands run in pods of their own and only meet through
the clusters: the caches of the run process cannot be filled before the init job
has applied the CRDs of the runs. The two reconcilers only meet through objects
on the platform cluster: one creates runs, the watch of the other puts them into
its work queue. A status update makes the watch enqueue the run again. The test
cases talk to the onboarding cluster, whose operators make objects ready and finish deletions. Test
cases depend on each other through the exports in the status: a workspace lives
in the project's namespace, a control plane in the workspace's, a service beside
the control plane.

**What is hard.** A `Reconcile` lasts for up to an hour per test case and works
on one snapshot of the run all the while. Updates may be refused (the snapshot
is not current), be lost, or be stored without the reconciler learning it; the
process may die between any two calls; a second replica may work on the same run
(leader election is off by default); all runs share one worker; operators, users
and the clock go on. The reconciler recovers from all of this only by being called again and reading the
status. `PROJECT.json` lists the hazards at their lines.

## 2. Modules

| Module | Models |
| --- | --- |
| `TestRunStatus` | the list of entries and the predicates on it |
| `TestCaseKinds` | the four registered test cases: status names, what their `Run` needs before it creates anything |
| `E2ETestRunController` | the run reconciler, one action per API call, in any number of replicas, with the API servers' answers, faults, and what happens around it; all properties of a run |
| `TestRunPromise` | what a run promises, without any reconciler: the abstract specification |
| `E2ETestRunImplements` | the refinement mapping from `E2ETestRunController` to `TestRunPromise` |
| `MC_E2ETestRun` | lists of test cases for TLC |
| `Polling` | the time one `Run` or `Cleanup` of a test case takes: defaults, context, poll loop with its ticker, slow calls |
| `MC_Polling` | configured durations for TLC |
| `Startup` | the two commands as steps of two pods that are started anew after a failure |
| `TestRunner` | the whole program: `Startup`, and several runs with one queue, one worker and one onboarding cluster; each run is shown to keep `TestRunPromise` |
| `TwoEnvironments` | two environments on one onboarding cluster: two instances of `E2ETestRunController` that share its objects |
| `MC_TwoEnvironments` | their test cases for TLC |
| `E2ETestSpecController` | the specification reconciler with a discrete clock |
| `MC_E2ETestSpec` | schedules for TLC |
| `E2ETestRunProofs` | type correctness |
| `E2ETestRunJournalProofs` | the status is a journal |
| `E2ETestRunOrderProofs` | order of the test cases, deletion only after the verdict |
| `E2ETestRunCleanupProofs` | what the cleanup loops leave; a run is never forgotten |
| `E2ETestRunObjectProofs` | one replica: the objects follow the status, the promise is kept |
| `PollingProofs` | types, budget and spacing of an operation of a test case, what a poll may miss |
| `E2ETestSpecProofs` | types, runs on schedule, no tick lost |
| `TestRunnerProofs` | no test case without its CRDs, own objects only, each run is promised |

**`E2ETestRunController`.** `run` is the stored object (existence, a counter for
its `resourceVersion`, its status), `res` the object of each test case (`absent`,
`pending`, `ready`, `terminating`), and `pc`, `idx`, `snap`, `stale`, `result`
are the local variables of `Reconcile` in each replica: where it stands, the
index of the loop, the snapshot it works on, which cleanup loop it is in, and the
outcome about to be recorded. `queue` and `timer` are the replica's work queue
and pending `RequeueAfter`, `aged` says whether the run is older than
`staleAfter`, `faults` counts injected faults. The steps follow the code:

* `FetchFound`, `FetchNotFound`, `FetchFails`: `Get` at the start;
* `Run...`, `Create...`, `Poll...`, `Record...`: the body of the loop of
  `runTestCases`, with `testCase.Run` as its creation and its poll. A creation
  and a poll may fail at any time and are not counted as faults: each makes a
  recorded failure, after which the run loop stops. `RunFails` also stands for
  a `Run` that misses the exports it builds on. `RunBreaksOff` is the error of an
  unregistered test case;
* `Decide...`: the choice between waiting, stale and normal cleanup;
* `Cleanup...`, `Delete...`, `WaitGone...`, `RecordCleaned`,
  `RecordCleanupError`: both cleanup loops, which `stale[r]` tells apart where
  the code differs (the stale loop skips where the normal one breaks, and needs
  no passed entry);
* `UpdateRejected`, `UpdateFails`, `UpdateLost`: the answers of `Status().Update`
  other than success;
* `Crash`, `Resync`, `TimerFires`, `Age`, `BecomeReady`, `FinishDeletion`,
  `UserDeletes`: the surroundings.

Data is abstracted to what the properties tell apart: a config is `valid`,
`invalid` (a service whose manifest or assertions are rejected) or `malformed`
(not a JSON object; a JSON `null` is dropped by the API server); exports are
present or not; within one run an object is identified by the status name of its test case, as object names derive from
the run's name and the exports before it. `Reconcile` reads through the
client of the cluster, not through the informer cache, so a fetch sees the
stored object.

**`TestRunPromise` and `E2ETestRunImplements`.** Seen from outside, a run has
verdicts, a set of test cases recorded as cleaned up, and objects that are up,
going or absent. `Build`, `Record`, `TakeDown`, `Vanish` and `RecordClean` say
when each may change: the object of the next test case only; no verdict after a
failure and no pass without its object; nothing goes before the run is released
(all passed, or failed and stale), and then the last one first; a cleanup is
recorded once, in reverse, and only of what is gone. The mapping forgets the
replica, its snapshot, loop index and queue, the conditions' details and whether
an object is ready. It is stated for one replica, readable configs and different
status names, which is what `run_crash` instantiates.

**`Polling`.** `call` holds a test case, `Run` or `Cleanup`, and the three
configured durations, each present or not (a missing key, a value that is no
string and one that does not parse all give the default). `ContextTimeout` says
which operation reads its `contextTimeout`: all `Run`s but createWorkspace's,
and createService's `Cleanup`. `phase` follows the code: the `Create` or
`Delete` (`BeginPoll`, `AlreadyGone`, `RequestFails`), then the loop of
`wait.PollUntilContextTimeout` with `immediate` set, external to the repository
and modelled as the code calls it: a `Get` under that context, sent only while the
context lasts (`SendGet`, `Evaluate`, `ConditionHolds`, `ConditionFails`, `GetFails`,
`GetExpires`), a wait for the ticker (`TakeTick`) or the deadline
(`LoopExpires`). The ticker of Go keeps one tick and drops the others, and an
interval that is not positive is always due.

**`Startup` and `TestRunner`.** A pod is a number of steps done, out of
`InitSteps` and `RunSteps`; an error is a panic, and the pod begins again at the
top, with whatever it had already put into the clusters. `access` is the access
request of each. The process stays at its last step, `caches`, until the CRDs
exist (`CachesSync`) or it gives up and starts anew (`CachesTimeOut`). In
`TestRunner` a run is the number of its test cases that passed, whether one
failed (and whether that is marked as cleaned up), and the number that are
cleaned; the worker is at one run or at none. A step on the onboarding cluster and
the status update that records its outcome are separate steps; what happens
between other API calls is left to `E2ETestRunController`. An error puts the run
back into the queue (`RetryLater`); `ReconcileFails` is any error that is not
recorded, with the effect of the call before it stored. Objects are identified by
`Key`: the name of the run and the position of the test case, as the code derives
them. An `E2ETestRun` is cluster-scoped, so in one process a name is one run. Updates of a status
put the run into the queue again in the code; such a reconcile changes nothing
that the ones in the model do not, and is left out.

**`TwoEnvironments`.** Several environments may watch one onboarding cluster
(`app.go:58`), each with a process, a platform cluster and a work queue of its
own. Each is an instance of `E2ETestRunController` with variables of its own; only
`res`, the objects, is shared, because the name of an object contains the name of
the run and not the environment. The two runs have one name and the same test
cases; a step is a step of one environment, and `by` remembers whose `Create` made
each object.

**`E2ETestSpecController`.** Time is a natural number, `Minute` units to the
minute. The three readings of the clock are separate steps: `EvaluateDue` or
`EvaluateNotDue` (`now`), `PlanNext` (the second `Next`), `RequeueLater` or
`RequeueNever` (`time.Until`). A requeue that is not positive is no requeue.
`Earlier` is the delaying queue of client-go, which keeps one deadline per item,
the earliest. A rate-limited retry takes less than a unit of time. With `Prompt`
the clock waits for a reconciler that has work; without it the clock may pass
between any two steps.

## 3. Runs

| Run | Instance | Shows |
| --- | --- | --- |
| `run_crash` | 1 replica, 4 kinds, 2 faults, deletable run, fair | `ImplementsPromise`, `CleanedMeansGone`, `ReverseOrder`, `NeverForgotten`; `VerdictReached`, `PassedRunIsCleaned`, `StaleRunIsCleanedUnlessInterrupted` |
| `run_replicas` | 2 replicas, 2 test cases, 1 fault, deletable run | `StatusIsPrefix`, `StatusIsJournal`, `DeletedOnlyAfterVerdict` |
| `run_keep` | 2 replicas, an unregistered last case, stale cleanup off | `DeletedOnlyAfterVerdict` where nothing may ever go, `NeverForgotten` |
| `run_unreadable` | a malformed config, then an unregistered case | `NeverForgotten`, `StatusIsJournal` while entries pile up |
| `polling` | 3 test cases, `Run` and `Cleanup`, 80 mixes of durations | `ReturnsInBudget`, `ReadyIsNoticed`, `GetsAreSpaced` |
| `runner` | 3 runs of 2 test cases, one broken for good, 1 fault, fair | `TestsFindTheirCRDs`, `ProgramComesUp`, `EachRunIsPromised`, `CleanupDeletesOwn`, `EveryRunGetsVerdict`, `PassedRunsLeaveNothing` |
| `spec_edits` | 7 specifications, 3 faults, restarts or edits, 4 minutes and more | `EveryTickGetsRun`, `RunsOnSchedule`, `SpecNeverForgotten` |

The runs named in section 5 are expected to fail. Every property of a passing
run is also broken by a mutant of the code (the operators called "variant of"),
so none of them holds whatever the code does.

**Bounds.** Two test cases suffice for "before" and "after", three for a middle
one; `run_crash` has all four kinds because each has its own prerequisite. Two
replicas give every overlap of a stale snapshot and a current one. Two faults
allow a fault in the recovery from a fault. `MaxEntries` (4; in reality the
size of a stored object) is reached only by `run_unreadable`, whose entries pile
up; it is also what keeps that run finite. `StaleRunIsCleanedUnlessInterrupted`
excuses no fault but the one of `stale_interrupted`: a stale cleanup that ends after
its first record. Crashes that lose the timer and failures before that record must
be made up for. `resourceVersion` is bounded because
every update either adds an entry, adds a cleanup condition or consumes a fault
(two replicas cannot both win). The clock of `spec_edits` starts at 5 and stops
at 14, four and a half minutes in which a schedule of every minute ticks five
times and a sparser one twice: enough for the tick before, in and after any edit
or restart.

The durations of `polling` keep the order of the defaults in the code (interval
2, poll timeout 5, context timeout 7). Configured ones are missing, zero, shorter
and longer than every default, in every mix: so a poll's deadline lies before and
after its context's, an interval exceeds a timeout, and Gets of up to `MaxGet` = 2
units are slower and faster than an interval. Negative durations behave as zero
ones do. No operation lasts longer than the longest context timeout, 9, so `MaxGets` = 10 cuts
the count of Gets only where an interval of zero polls without pause.

`runner` has two runs that can succeed and compete for the worker, and a third
that is retried for ever, in two test cases each (first and last). `MaxFaults` = 1
is one failed call or crash of either pod, at any step; `run_crash` has more.
Deadlock is checked in all runs of the run reconciler; the others stop when the
clock stops, the operation returns, or the flags leave nothing to do.

**Fairness** (`FairSpec`). A replica's worker that can take a step takes one:
controller-runtime runs the worker in a loop, and every API call and poll is
bounded by a context. Its timer fires once due, time passes, and the onboarding
operators finish a deletion that was requested. In `TestRunner` the pods are also
started again until they have done their work (a Job and a Deployment), and the
platform grants access that is requested. Each run has strong fairness for
`Take`: the worker is often busy with others, and the work queue hands out
items in order of arrival or priority, never passing over one for ever. Nothing
is assumed of readiness (a poll may fail at any time), resyncs, users and
faults, which are finitely many.

## 4. Proofs

The runs check the properties on small instances. TLAPS proves every invariant and
every step property of a passing run for all values of the constants. A proof
assumes the named assumptions on the constants, and what its theorem names:

| Hypothesis | Says | Why |
| --- | --- | --- |
| `Distinct` | no config that is not a JSON object, no status name twice; test cases may be unregistered | the code finds an entry of the status by its name, so otherwise an entry is not its test case's (section 6) |
| `SomeUnreadable` | the config of some registered test case is no JSON object | the alternative to `Distinct` for `RunNeverForgotten`, as in `run_unreadable` |
| `OneReplica` | one replica | with two, an old snapshot creates an object again; nothing in the code keeps it from that |
| `Prompt` | the clock waits for a reconciler that has work | without it the next tick may pass between the two readings of the clock (section 5) |
| `Spaced` | the ticks of one schedule are a minute or more apart | true of every five-field cron expression; `@every 10s`, which `ParseStandard` accepts too, is outside |

`run_crash`, `run_unreadable`, `runner` and `spec_edits` are instances that meet them. Every
strengthened invariant below was checked by TLC on such an instance before it was
proved.

**The run reconciler**, for every list of test cases, every finite set of
replicas and every number of faults:

* `TypeCorrect`: `[]TypeOK`, inductive as it stands.
* `StatusIsAJournal`: `StatusIsJournal`. The step property needs to know
  that an accepted update was computed from the stored status (`SnapCurrent`: a
  snapshot with the current version has the current status) and that a cleanup
  in progress is about an entry that is not clean yet (`CleanupPending`).
  `JournalInv`, their conjunction, is inductive with `TypeOK`.
* `StatusMirrorsSpec`: `[]StatusIsPrefix`, and
  `NothingDeletedBeforeVerdict`: `DeletedOnlyAfterVerdict`, both if `Distinct`. The invariant `OrderInv` has one part per phase of
  `Reconcile`: every snapshot is good (a prefix of the spec, all but the last
  passed, all registered) and a journal prefix of the stored status; at index i
  the run loop has seen i - 1 passed cases; a cleanup has a verdict in its
  snapshot; the normal cleanup of a failed run has not yet got below the last
  entry, which is the failed one, and there it breaks. A snapshot's verdict is
  still the run's verdict because the status is a journal (`VerdictStable`).
* `RunNeverForgotten`: `[]NeverForgotten` if `Distinct` or `SomeUnreadable`. A
  worker falls asleep without a timer only when its cleanup ends, so the invariant
  says what it leaves then. `LoopInv`, if `Distinct`: the entries the loop has passed
  are cleaned up in its snapshot (`LaterCleaned`), the normal loop works on a passed
  run or one that is not stale (`NotStale`), and a worker whose snapshot is out of
  date is queued again (`Notified`). `BlockedInv`, if some config of a registered test
  case cannot be read, whatever the other names are: neither loop gets past that test
  case, so a verdict is always a failure, and only the normal cleanup of a failed run
  that is not stale ends well. In both cases the stored run has no work left, or
  someone is awake. What is left out are specs without such a config that repeat a status
  name.
* `WhatIsCleanedIsGone`: `[]CleanedMeansGone`, and `ObjectsGoInReverse`:
  `[]ReverseOrder`, if `Distinct` and `OneReplica`. Both are about two clusters,
  so the invariant `OneInv` relates them: which states each object may be in, given
  the recorded status (`ObjectsInv`: objects up to the verdict are ready, only the
  next test case may be ahead of its entry, the last one goes first), and what the
  worker relies on between its calls (`HoldsUp`: its snapshot is the stored status,
  an object it is about to report as passed is ready, one it is about to report as
  cleaned up is gone). `StepSeen` sums every step up as one of eight effects on
  status and objects, and the invariant is kept by each effect.
* `PromiseKept`: `ImplementsPromise` if `Distinct` and `OneReplica`. From
  `OneInv`, each of the same effects is a step of `TestRunPromise` under the
  mapping, or none.

**The specification reconciler**, for every set of schedules and every number of
restarts, failures, events and edits:

* `SpecTypeCorrect`: `[]TypeOK`.
* `ScheduleNeverForgotten`: `[]SpecNeverForgotten`, and `RunsKeepTheSchedule`:
  `[]RunsOnSchedule`, if `Prompt`. `ScheduleInv` follows `Reconcile` between the
  three readings of the clock: a run about to be created is due now (`Decided`),
  the requeue to be asked for is that of the next tick (`Planned`), an edit under
  way leaves the specification in the queue (`Outdated`), and every tick to come
  is seen to by the queue, by `Reconcile` or by the timer (`Armed`). That cron's
  `Next` is the first later tick is `NextTickIsFirst`.
* `NoTickIsLost`: `[]EveryTickGetsRun`, if `Prompt` and `Spaced`. `TickInv` adds
  that a tick that is now and has no run yet is being attended to. It needs
  `Spaced`: `Reconcile` looks for the first tick of the last minute, so of two
  ticks in one minute it sees the older one only.

Two assumptions on the constants of this module come with the proofs. The clock
starts before its bound. A schedule that fires at all has a tick after the bound
(`OngoingAssumption`): a cron expression names no year. `@every`, whose ticks
count from the call and not from the hour, is not described by `Ticks`.

**The durations**, for every call, every configured duration (zero and negative
ones too), every default and any slowness of the API server:

* `PollingTyped`, `OperationsEndInTime` (`[]ReturnsInBudget`): the budget is
  inductive because time only passes before the
  deadline of what is under way, and each deadline is the earlier one of two.
* `GetsKeepTheirDistance` (`[]GetsAreSpaced`):
  `SpacingInv` counts in intervals: ticks are multiples of the interval, and the
  one that the loop waits for lies at least as many intervals after the begin as
  Gets were sent; that a later multiple is later by a whole interval is
  `MultiplesApart`.
* `PollsMissNothing` (`[]ReadyIsNoticed`): `NoticeInv` says how old the last
  answer is. An object that is ready now was not so at the last answered Get; that
  one was sent at `since`, or, when another is under way, at most one `Gap` (the
  longer of an interval and a slow Get) before.

**The whole program**, for every set of runs, every number of test cases and any
number of failures of either pod:

* `NoTestWithoutCRDs`: `[]TestsFindTheirCRDs`, for the three sets that the init job
  applies (the CRD of a `createService` manifest comes from elsewhere). What an earlier start of
  the init job applied stays, so the sets are always there in the order of the
  steps (`CRDInv`); only a process that has found the last one has a worker.
* `ProgramTypeCorrect`: `[]TypeOK`. It is not inductive: that a counter stays in
  range depends on where the worker is (`Standing`). `RunsInv` has both.
* `OnlyOwnObjectsDeleted`: `CleanupDeletesOwn`. `Owned`: what carries
  the name of a run was created by it.
* `PromisedToEach`: `EachRunIsPromised`. `Shape` says which objects
  of a run are up, given its counters; a step of one run leaves the objects of the
  others alone because their keys differ, so it stutters in all promises but one.

**Only model-checked.** The liveness properties (`VerdictReached`,
`PassedRunIsCleaned`, `StaleRunIsCleanedUnlessInterrupted`, `ProgramComesUp`,
`EveryRunGetsVerdict`, `PassedRunsLeaveNothing`): fairness and ENABLED are out of
the prover's reach. The counterexamples of section 5 are TLC's.

## 5. Where the code does not do what it says

Each is a run that is expected to violate its property; `PROJECT.json` quotes
the line.

* `leak_failed_case`: a test case that fails after creating its object has no
  exports; its cleanup finds "nothing to clean up" and is recorded as successful
  although the object exists.
* `stale_interrupted`: the stale cleanup marks the failed test case first. If it
  is interrupted after that, the run no longer counts as failed and not cleaned,
  and the remaining objects are never deleted.
* `unreadable_entries`: an unreadable config appends an entry per retry, and
  the stale cleanup is never reached.
* `spec_twice`: a restart or an event within a minute of a tick creates a second
  run for it.
* `two_environments`: the environment is to distinguish those that watch one
  onboarding cluster, but no name of an object contains it. Of two runs of one name
  in two environments, the cleanup of one deletes what the other one created, even
  where that one failed and keeps it for inspection. Within one environment this
  cannot happen (`OnlyOwnObjectsDeleted`).

One more behaviour is listed as a hazard, without a run since nothing in the
repository says otherwise: with a clock that does not wait for the reconciler, a
tick may pass between `Next` and `time.Until`; the requeue is then not positive,
and the specification is not looked at again until its next event.

## 6. Not modelled

Labels, members, manifests and assertions beyond whether they are accepted, log
lines and messages, TLS, metrics and probes, the printing of a dry run, the version,
API declarations and generated code. Specs that repeat a status name (two
services of one kind, a test case listed twice): the code neither rejects them nor
says what they should do, so no run or theorem about order covers them. Each of
the modules has one clock or none: `Polling` bounds what `E2ETestRunController`
leaves open (a poll may end at any time), and the composition of polls with cron
ticks is not modelled. With two replicas, `CleanedMeansGone`, `ReverseOrder` and
the promise do not hold (an old snapshot may create an object again) and nothing
in the repository claims them.

## 7. Plan

1. Done: status, kinds, run reconciler, specification reconciler, their runs;
   types, journal, order and deletion proved.
2. Done: `TestRunPromise` and the refinement, for one run (`run_crash`) and for
   several (`runner`).
3. Done: `Polling`; `Startup` and `TestRunner`; `TwoEnvironments`.
4. Done: the budget and the spacing of polls, and the CRDs before the test cases,
   proved.
5. Done: the objects of a run and `TestRunPromise` for one replica, runs that are
   never forgotten, the schedule, what a poll may miss, and several runs, proved.
6. To come: what the status looks like where configs cannot be read or status names
   repeat.
