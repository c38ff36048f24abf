----------------------- MODULE E2ETestSpecController -----------------------
(***************************************************************************)
(* The E2ETestSpecification reconciler: it creates an E2ETestRun when a    *)
(* tick of the cron schedule falls into the last minute, and asks to be    *)
(* called again at the next tick.  Time is discrete, Minute units to the   *)
(* minute; Reconcile reads the clock several times and the clock may pass  *)
(* between two reads.                                                      *)
(*                                                                         *)
(* spec    "absent", "empty" (no test cases), "unscheduled" (schedule ""), *)
(*         "invalid" (not a cron expression) or a schedule of Ticks        *)
(* since   when spec was last changed (history)                            *)
(* runs    the runs created: the tick each is for, and when                *)
(* queue, timer   the work queue, and the deadline of its delayed add      *)
(* pc, seen, nextRun   Reconcile: where, the schedule read, nextRun        *)
(***************************************************************************)
EXTENDS Integers, Sequences

CONSTANTS Ticks,     \* per schedule, when it fires; a finite part of it
          Minute,    \* units of time in a minute
          Start,     \* time of the first step
          Horizon,   \* bound on the clock
          Specs,     \* what a user may set the specification to
          MaxFaults, \* bound on restarts, failed calls, resyncs and edits
          Prompt     \* whether the clock waits for a busy reconciler

ASSUME TimesAssumption ==
    Minute \in Nat \ {0} /\ Start \in Nat /\ Horizon \in Nat /\ Start <= Horizon
\* the clock is far from time.Time's zero value, which cron returns for "never"
ASSUME StartAssumption == Start > 2 * Minute
ASSUME TicksAssumption == \A s \in DOMAIN Ticks : Ticks[s] \subseteq Nat
\* a cron expression names no year: one that fires at all goes on to fire
ASSUME OngoingAssumption ==
    \A s \in DOMAIN Ticks : Ticks[s] # {} => \E t \in Ticks[s] : t > Horizon
ASSUME OtherAssumption == MaxFaults \in Nat /\ Prompt \in BOOLEAN

Unusable == {"absent", "empty", "unscheduled", "invalid"}
ASSUME SpecsAssumption ==
    Specs \subseteq Unusable \cup DOMAIN Ticks /\ Unusable \cap DOMAIN Ticks = {}

VARIABLES clock, spec, since, runs, queue, timer, pc, seen, nextRun, faults

vars == <<clock, spec, since, runs, queue, timer, pc, seen, nextRun, faults>>

\* no delayed add pending; also cron's answer when a schedule never fires again
Zero == 0

\* Where Reconcile stands between two calls: now has been read ("evaluate"),
\* the run is being created ("create"), nextRun is known and time.Until(nextRun)
\* is to be computed ("until"), the run was created ("created").
TypeOK ==
    /\ clock \in Start..Horizon
    /\ spec \in Specs /\ since \in Start..Horizon
    /\ runs \in Seq([tick : Nat, at : Nat])
    /\ queue \in BOOLEAN
    /\ timer \in Nat /\ nextRun \in Nat
    /\ pc \in {"idle", "evaluate", "create", "created", "until"}
    /\ seen \in Unusable \cup DOMAIN Ticks
    /\ faults \in 0..MaxFaults
    /\ pc = "idle" <=> seen = "absent"
    /\ pc = "create" => nextRun <= clock

Init ==
    /\ clock = Start
    /\ spec \in Specs
    /\ since = Start
    /\ runs = <<>>
    /\ queue = TRUE
    /\ timer = Zero
    /\ pc = "idle" /\ seen = "absent" /\ nextRun = Zero
    /\ faults = 0

-----------------------------------------------------------------------------
Fault == faults < MaxFaults /\ faults' = faults + 1

\* cron's Schedule.Next: the first tick strictly after t
NextTick(s, t) ==
    LET later == {k \in Ticks[s] : k > t}
    IN  IF later = {} THEN Zero ELSE CHOOSE k \in later : \A l \in later : k <= l

Leave == pc' = "idle" /\ seen' = "absent" /\ nextRun' = Zero

\* the delaying queue keeps the earlier of two deadlines of an item
Earlier(d) == IF timer = Zero \/ d < timer THEN d ELSE timer

\* variant of ReturnError: the error is swallowed
ReturnErrorForgets == Leave /\ UNCHANGED timer

\* Reconcile returns an error: the rate limited add, whose delay is below a
\* unit of time, goes through the same delaying queue
ReturnError == Leave /\ timer' = Earlier(clock)

Fetch ==
    /\ pc = "idle" /\ queue
    /\ queue' = FALSE
    /\ UNCHANGED <<clock, spec, since, runs>>

\* NotFound, no test cases: nothing to do
FetchNothing ==
    /\ Fetch /\ spec \in {"absent", "empty"}
    /\ UNCHANGED <<timer, pc, seen, nextRun, faults>>

\* no schedule or a bad one is an error
FetchUnusable ==
    /\ Fetch /\ spec \in {"unscheduled", "invalid"}
    /\ ReturnError
    /\ UNCHANGED faults

FetchFails ==
    /\ Fetch
    /\ Fault
    /\ ReturnError

FetchSchedule ==
    /\ Fetch /\ spec \in DOMAIN Ticks
    /\ pc' = "evaluate" /\ seen' = spec
    /\ UNCHANGED <<timer, nextRun, faults>>

\* variant of Due: a window of two minutes
DueTwice(now) == NextTick(seen, now - 2 * Minute)
\* nextRun, looked up from a minute ago
Due(now) == NextTick(seen, now - Minute)

\* variant of InWindow: the next tick is taken to be due
InWindowEarly(now, tick) == now - Minute <= tick
InWindow(now, tick) == ~(now < tick \/ now - tick > Minute)

EvaluateDue ==
    /\ pc = "evaluate" /\ InWindow(clock, Due(clock))
    /\ pc' = "create" /\ nextRun' = Due(clock)
    /\ UNCHANGED <<clock, spec, since, runs, queue, timer, seen, faults>>

EvaluateNotDue ==
    /\ pc = "evaluate" /\ ~InWindow(clock, Due(clock))
    /\ pc' = "until" /\ nextRun' = Due(clock)
    /\ UNCHANGED <<clock, spec, since, runs, queue, timer, seen, faults>>

CreateRun ==
    /\ pc = "create"
    /\ runs' = Append(runs, [tick |-> nextRun, at |-> clock])
    /\ pc' = "created"
    /\ UNCHANGED <<clock, spec, since, queue, timer, seen, nextRun, faults>>

\* Create fails, or the run is there and the answer lost: return the error
CreateFails ==
    /\ pc = "create"
    /\ Fault
    /\ \/ UNCHANGED runs
       \/ runs' = Append(runs, [tick |-> nextRun, at |-> clock])
    /\ ReturnError
    /\ UNCHANGED <<clock, spec, since, queue>>

\* variant of PlanNext: the next tick is looked up as before the creation
PlanSameTick ==
    /\ pc = "created"
    /\ pc' = "until" /\ nextRun' = Due(clock)
    /\ UNCHANGED <<clock, spec, since, runs, queue, timer, seen, faults>>

PlanNext ==
    /\ pc = "created"
    /\ pc' = "until" /\ nextRun' = NextTick(seen, clock)
    /\ UNCHANGED <<clock, spec, since, runs, queue, timer, seen, faults>>

\* RequeueAfter: time.Until(nextRun), when that is positive
RequeueLater ==
    /\ pc = "until" /\ nextRun > clock
    /\ timer' = Earlier(nextRun)
    /\ Leave
    /\ UNCHANGED <<clock, spec, since, runs, queue, faults>>

\* controller-runtime takes a RequeueAfter that is not positive for "done"
RequeueNever ==
    /\ pc = "until" /\ nextRun <= clock
    /\ Leave
    /\ UNCHANGED <<clock, spec, since, runs, queue, timer, faults>>

-----------------------------------------------------------------------------
TimerFires ==
    /\ timer # Zero /\ timer <= clock
    /\ timer' = Zero
    /\ queue' = TRUE
    /\ UNCHANGED <<clock, spec, since, runs, pc, seen, nextRun, faults>>

\* the process restarts and lists the specification again
Restart ==
    /\ Fault
    /\ Leave
    /\ queue' = TRUE
    /\ timer' = Zero
    /\ UNCHANGED <<clock, spec, since, runs>>

\* a resync, or a change of the object's metadata
Event ==
    /\ Fault
    /\ ~queue
    /\ queue' = TRUE
    /\ UNCHANGED <<clock, spec, since, runs, timer, pc, seen, nextRun>>

\* the user creates, deletes or edits the specification
Edit(s) ==
    /\ Fault
    /\ s # spec
    /\ spec' = s /\ since' = clock
    /\ queue' = TRUE
    /\ UNCHANGED <<clock, runs, timer, pc, seen, nextRun>>

Busy == pc # "idle" \/ queue \/ (timer # Zero /\ timer <= clock)

ClockTick ==
    /\ clock < Horizon
    /\ Prompt => ~Busy \/ (pc = "idle" /\ spec \in {"unscheduled", "invalid"})
    /\ clock' = clock + 1
    /\ UNCHANGED <<spec, since, runs, queue, timer, pc, seen, nextRun, faults>>

Reconcile ==
    \/ FetchNothing \/ FetchUnusable \/ FetchSchedule
    \/ EvaluateDue \/ EvaluateNotDue \/ CreateRun
    \/ PlanNext \/ RequeueLater \/ RequeueNever

Next ==
    \/ Reconcile \/ TimerFires \/ ClockTick
    \/ FetchFails \/ CreateFails \/ Restart \/ Event
    \/ \E s \in Specs : Edit(s)

Spec == Init /\ [][Next]_vars

-----------------------------------------------------------------------------
(* What the schedule promises *)

Covers(t) == \E i \in DOMAIN runs : runs[i].tick = t

(***************************************************************************)
(* No tick is lost: while the clock waits for the reconciler, every tick   *)
(* since the specification was last changed has its run one unit later,    *)
(* across restarts, failed creations and superseded timers.                *)
(***************************************************************************)
EveryTickGetsRun ==
    spec \in DOMAIN Ticks => \A t \in Ticks[spec] : since < t /\ t < clock => Covers(t)

(***************************************************************************)
(* A run is created for a tick of the schedule, not before it and less     *)
(* than a minute after it.                                                 *)
(***************************************************************************)
RunsOnSchedule ==
    \A i \in DOMAIN runs :
        /\ \E s \in DOMAIN Ticks : runs[i].tick \in Ticks[s]
        /\ runs[i].tick <= runs[i].at /\ runs[i].at < runs[i].tick + Minute

(***************************************************************************)
(* "creates an E2ETestRun when it is time to execute": one for each tick,  *)
(* also when the reconciler is called twice about it.                      *)
(***************************************************************************)
OneRunPerTick ==
    \A i, j \in DOMAIN runs : runs[i].tick = runs[j].tick => i = j

(***************************************************************************)
(* A scheduled specification is never forgotten: Reconcile is running, the *)
(* queue holds it, or a timer will (the tests expect RequeueAfter > 0).    *)
(***************************************************************************)
SpecNeverForgotten ==
    spec \in DOMAIN Ticks /\ Ticks[spec] # {} => pc # "idle" \/ queue \/ timer # Zero
=============================================================================
