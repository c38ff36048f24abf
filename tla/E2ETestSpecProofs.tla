------------------------- MODULE E2ETestSpecProofs -------------------------
(***************************************************************************)
(* Proofs about E2ETestSpecController: its types; and, as long as the      *)
(* clock waits for a busy reconciler, that runs are on schedule, that a    *)
(* scheduled specification is never forgotten, and that no tick is lost.   *)
(***************************************************************************)
EXTENDS E2ETestSpecController, WellFoundedInduction, TLAPS

-----------------------------------------------------------------------------
(* What cron's Next returns *)

(***************************************************************************)
(* A set of natural numbers that is not empty has a least element.         *)
(***************************************************************************)
LEMMA LeastNatural ==
  ASSUME NEW T, T \subseteq Nat, T # {}
  PROVE  \E x \in T : \A y \in T : x <= y
<1> DEFINE R == OpToRel(<, Nat)
<1>1. IsWellFoundedOn(R, Nat)
  BY NatLessThanWellFounded, Zenon
<1>2. \A y, x \in Nat : <<y, x>> \in R <=> y < x
  BY Zenon DEF OpToRel
<1> HIDE DEF R
<1>3. PICK x \in T : \A y \in T : ~(<<y, x>> \in R)
  BY <1>1, WFMin
<1>4. \A y \in T : ~(y < x)
  BY <1>2, <1>3
<1> QED BY <1>3, <1>4

(***************************************************************************)
(* Next is the first tick after a time, if there is one, and the zero time *)
(* otherwise.                                                              *)
(***************************************************************************)
LEMMA NextTickIsFirst ==
  ASSUME NEW s \in DOMAIN Ticks, NEW t \in Int
  PROVE  /\ NextTick(s, t) \in Nat
         /\ \A k \in Ticks[s] : k > t =>
              /\ NextTick(s, t) \in Ticks[s] /\ NextTick(s, t) > t
              /\ NextTick(s, t) <= k
         /\ (\A k \in Ticks[s] : ~(k > t)) => NextTick(s, t) = Zero
<1> DEFINE later == {k \in Ticks[s] : k > t}
           first == CHOOSE k \in later : \A l \in later : k <= l
<1>1. Ticks[s] \subseteq Nat
  BY TicksAssumption
<1>2. NextTick(s, t) = IF later = {} THEN Zero ELSE first
  BY DEF NextTick
<1>3. CASE later = {}
  <2>1. NextTick(s, t) = 0
    BY <1>2, <1>3 DEF Zero
  <2>2. \A k \in Ticks[s] : ~(k > t)
    BY <1>3
  <2> QED BY <2>1, <2>2 DEF Zero
<1>4. CASE later # {}
  <2>1. \E k \in later : \A l \in later : k <= l
    BY <1>1, <1>4, LeastNatural
  <2>2. first \in later /\ \A l \in later : first <= l
    BY <2>1
  <2>3. NextTick(s, t) = first
    BY <1>2, <1>4
  <2>4. \E k \in Ticks[s] : k > t
    BY <1>4
  <2> QED BY <1>1, <2>2, <2>3, <2>4
<1> QED BY <1>3, <1>4

-----------------------------------------------------------------------------
(* Types *)

\* Reconcile goes on only with a schedule
Typed == TypeOK /\ (pc # "idle" => seen \in DOMAIN Ticks)

(***************************************************************************)
(* The deadline of the delayed add stays a time.                           *)
(***************************************************************************)
LEMMA EarlierIsATime ==
  ASSUME Typed, NEW d \in Nat
  PROVE  Earlier(d) \in Nat /\ (d # Zero => Earlier(d) # Zero /\ Earlier(d) <= d)
BY DEF Typed, TypeOK, Earlier, Zero
(***************************************************************************)
(* The initial states are well typed.                                      *)
(***************************************************************************)
LEMMA TypedInit == Init => Typed
BY TimesAssumption, OtherAssumption, SpecsAssumption
   DEF Init, Typed, TypeOK, Zero, Unusable

(***************************************************************************)
(* Every step keeps the types: what Next returns is a time, and Reconcile  *)
(* goes on only with a schedule it has parsed.                             *)
(***************************************************************************)
LEMMA TypedStep == Typed /\ [Next]_vars => Typed'
<1> SUFFICES ASSUME Typed, [Next]_vars PROVE Typed'
  OBVIOUS
<1> USE DEF Typed, TypeOK
<1>1. clock \in Nat /\ Minute \in Nat /\ 0 \in Nat
  BY TimesAssumption
<1>2. ASSUME pc # "idle", NEW t \in Int PROVE NextTick(seen, t) \in Nat
  BY <1>2, NextTickIsFirst
<1>3. Earlier(clock) \in Nat
  BY <1>1, EarlierIsATime
<1>4. Fault => faults' \in 0..MaxFaults
  BY OtherAssumption DEF Fault
<1>5. "absent" \in Unusable /\ "absent" \notin DOMAIN Ticks
  BY SpecsAssumption DEF Unusable
<1>6. pc # "idle" => Due(clock) \in Nat
  <2>1. clock - Minute \in Int
    BY <1>1
  <2> QED BY <1>2, <2>1 DEF Due
<1>7. CASE FetchNothing
  BY <1>7 DEF FetchNothing, Fetch
<1>8. CASE FetchUnusable
  BY <1>1, <1>3, <1>5, <1>8 DEF FetchUnusable, Fetch, ReturnError, Leave, Zero
<1>9. CASE FetchSchedule
  BY <1>5, <1>9 DEF FetchSchedule, Fetch
<1>10. CASE EvaluateDue
  <2>1. Due(clock) <= clock
    BY <1>1, <1>6, <1>10 DEF EvaluateDue, InWindow
  <2> QED BY <1>6, <1>10, <2>1 DEF EvaluateDue
<1>11. CASE EvaluateNotDue
  BY <1>6, <1>11 DEF EvaluateNotDue
<1>12. ASSUME pc = "create", runs' = Append(runs, [tick |-> nextRun, at |-> clock])
       PROVE  runs' \in Seq([tick : Nat, at : Nat])
  BY <1>1, <1>12
<1>13. CASE CreateRun
  BY <1>12, <1>13 DEF CreateRun
<1>14. CASE PlanNext
  BY <1>1, <1>2, <1>14 DEF PlanNext
<1>15. CASE RequeueLater
  <2>1. Earlier(nextRun) \in Nat
    BY EarlierIsATime
  <2> QED BY <1>5, <1>15, <2>1 DEF RequeueLater, Leave, Zero
<1>16. CASE RequeueNever
  BY <1>5, <1>16 DEF RequeueNever, Leave, Zero
<1>17. CASE TimerFires
  BY <1>17 DEF TimerFires, Zero
<1>18. CASE ClockTick
  BY <1>1, <1>18, TimesAssumption DEF ClockTick
<1>19. CASE FetchFails
  BY <1>1, <1>3, <1>4, <1>5, <1>19 DEF FetchFails, Fetch, ReturnError, Leave, Zero
<1>20. CASE CreateFails
  BY <1>1, <1>3, <1>4, <1>5, <1>12, <1>20 DEF CreateFails, ReturnError, Leave, Zero
<1>21. CASE Restart
  BY <1>1, <1>4, <1>5, <1>21 DEF Restart, Leave, Zero
<1>22. CASE Event
  BY <1>4, <1>22 DEF Event
<1>23. ASSUME NEW s \in Specs, Edit(s) PROVE Typed'
  BY <1>4, <1>23 DEF Edit
<1>24. CASE UNCHANGED vars
  BY <1>24 DEF vars
<1> QED BY <1>7, <1>8, <1>9, <1>10, <1>11, <1>13, <1>14, <1>15, <1>16, <1>17,
           <1>18, <1>19, <1>20, <1>21, <1>22, <1>23, <1>24 DEF Next, Reconcile

(***************************************************************************)
(* The reconciler of specifications is well typed, whatever schedules and  *)
(* edits it meets and however the clock runs.                              *)
(***************************************************************************)
THEOREM SpecTypeCorrect == Spec => []TypeOK
<1>1. Typed => TypeOK
  BY DEF Typed
<1> QED BY <1>1, TypedInit, TypedStep, PTL DEF Spec

-----------------------------------------------------------------------------
(* The inductive invariant *)

\* an edit during Reconcile leaves the specification in the queue
Outdated == pc # "idle" /\ seen # spec => queue
\* the run to be created is due now
Decided == pc = "create" => nextRun = Due(clock) /\ InWindow(clock, nextRun)
\* the requeue to be asked for is that of the next tick
Planned == pc = "until" => nextRun = NextTick(seen, clock)

\* the delayed add is due by time t
DueBy(t) == timer # Zero /\ timer <= t
\* Reconcile has the schedule in force and is about to evaluate it
Reading == pc # "idle" /\ seen = spec

\* the queue, Reconcile or the timer sees to every tick to come
Armed ==
    spec \in DOMAIN Ticks =>
        queue \/ Reading \/ \A t \in Ticks[spec] : t > clock => DueBy(t)

\* a tick that is now and has no run yet is being seen to
Attended ==
    spec \in DOMAIN Ticks =>
        \A t \in Ticks[spec] :
            since < t /\ t = clock /\ ~Covers(t) =>
                queue \/ DueBy(clock) \/ (Reading /\ pc \in {"evaluate", "create"})

\* the ticks of a schedule are at least a minute apart
Spaced ==
    \A s \in DOMAIN Ticks :
        \A t, u \in Ticks[s] : t < u => t + Minute <= u

ScheduleInv == Typed /\ Outdated /\ Decided /\ Planned /\ Armed
TickInv == Attended /\ EveryTickGetsRun

-----------------------------------------------------------------------------
(* What is due *)

(***************************************************************************)
(* A tick looked up from a minute ago that falls into the window is a tick *)
(* of the schedule and less than a minute old.                             *)
(***************************************************************************)
LEMMA WhatIsDue ==
  ASSUME Typed, pc # "idle", InWindow(clock, Due(clock))
  PROVE  /\ Due(clock) \in Ticks[seen]
         /\ Due(clock) <= clock /\ clock < Due(clock) + Minute
<1>1. clock \in Nat /\ Minute \in Nat \ {0} /\ clock > 2 * Minute /\ seen \in DOMAIN Ticks
  BY TimesAssumption, StartAssumption DEF Typed, TypeOK
<1>2. clock - Minute \in Int
  BY <1>1
<1>3. Due(clock) \in Nat
  BY <1>1, <1>2, NextTickIsFirst DEF Due
<1>4. Due(clock) <= clock /\ clock - Due(clock) <= Minute
  BY <1>1, <1>3 DEF InWindow
<1>5. CASE \E k \in Ticks[seen] : k > clock - Minute
  <2>1. Due(clock) \in Ticks[seen] /\ Due(clock) > clock - Minute
    BY <1>1, <1>2, <1>5, NextTickIsFirst DEF Due
  <2> QED BY <1>1, <1>3, <1>4, <2>1
<1>6. CASE ~\E k \in Ticks[seen] : k > clock - Minute
  <2>1. Due(clock) = 0
    BY <1>1, <1>2, <1>6, NextTickIsFirst DEF Due, Zero
  <2> QED BY <1>1, <1>4, <2>1
<1> QED BY <1>5, <1>6

(***************************************************************************)
(* A tick that does not fall into the window is the next one from now on.  *)
(***************************************************************************)
LEMMA WhatIsNotDue ==
  ASSUME Typed, pc # "idle", ~InWindow(clock, Due(clock))
  PROVE  Due(clock) = NextTick(seen, clock)
<1>1. clock \in Nat /\ Minute \in Nat \ {0} /\ seen \in DOMAIN Ticks
  BY TimesAssumption DEF Typed, TypeOK
<1>2. clock - Minute \in Int /\ clock \in Int /\ Ticks[seen] \subseteq Nat
  BY <1>1, TicksAssumption
<1>3. Due(clock) \in Nat
  BY <1>1, <1>2, NextTickIsFirst DEF Due
<1>4. CASE \E k \in Ticks[seen] : k > clock - Minute
  <2>1. /\ Due(clock) \in Ticks[seen] /\ Due(clock) > clock - Minute
        /\ \A k \in Ticks[seen] : k > clock - Minute => Due(clock) <= k
    BY <1>1, <1>2, <1>4, NextTickIsFirst DEF Due
  <2>2. Due(clock) > clock
    BY <1>1, <1>3, <2>1 DEF InWindow
  <2>3. /\ NextTick(seen, clock) \in Ticks[seen] /\ NextTick(seen, clock) > clock
        /\ NextTick(seen, clock) <= Due(clock)
    BY <1>1, <1>2, <2>1, <2>2, NextTickIsFirst
  <2>4. NextTick(seen, clock) > clock - Minute
    BY <1>1, <1>2, <2>3
  <2> QED BY <1>2, <1>3, <2>1, <2>3, <2>4
<1>5. CASE ~\E k \in Ticks[seen] : k > clock - Minute
  <2>1. \A k \in Ticks[seen] : ~(k > clock)
    <3> SUFFICES ASSUME NEW k \in Ticks[seen], k > clock PROVE FALSE
      OBVIOUS
    <3>1. k \in Nat /\ ~(k > clock - Minute)
      BY <1>2, <1>5
    <3> QED BY <1>1, <3>1
  <2>2. Due(clock) = Zero
    BY <1>1, <1>2, <1>5, NextTickIsFirst DEF Due
  <2>3. NextTick(seen, clock) = Zero
    BY <1>1, <1>2, <2>1, NextTickIsFirst
  <2> QED BY <2>2, <2>3
<1> QED BY <1>4, <1>5

(***************************************************************************)
(* A tick that is now is the one found due, if no other tick is less than  *)
(* a minute older.                                                         *)
(***************************************************************************)
LEMMA NowIsDue ==
  ASSUME Typed, Spaced, pc # "idle", clock \in Ticks[seen]
  PROVE  Due(clock) = clock /\ InWindow(clock, Due(clock))
<1>1. clock \in Nat /\ Minute \in Nat \ {0} /\ seen \in DOMAIN Ticks
  BY TimesAssumption DEF Typed, TypeOK
<1>2. clock - Minute \in Int /\ clock > clock - Minute
  BY <1>1
<1>3. Due(clock) \in Ticks[seen] /\ Due(clock) > clock - Minute /\ Due(clock) <= clock
  BY <1>1, <1>2, NextTickIsFirst DEF Due
<1>4. Due(clock) \in Nat
  BY <1>1, <1>3, TicksAssumption
<1>5. Due(clock) < clock => Due(clock) + Minute <= clock
  BY <1>1, <1>3 DEF Spaced
<1>6. Due(clock) = clock
  BY <1>1, <1>3, <1>4, <1>5
<1>7. ~(clock < clock) /\ clock - clock = 0 /\ ~(0 > Minute)
  BY <1>1
<1> QED BY <1>6, <1>7 DEF InWindow

-----------------------------------------------------------------------------
(* The invariant of the schedule *)

(***************************************************************************)
(* At the start the specification is in the queue.                         *)
(***************************************************************************)
LEMMA ScheduleInit == Init => ScheduleInv
BY TypedInit DEF Init, ScheduleInv, Outdated, Decided, Planned, Armed

(***************************************************************************)
(* Whenever Reconcile is left, or not running, only the queue and the      *)
(* timer matter.                                                           *)
(***************************************************************************)
LEMMA IdleIsArmed ==
  ASSUME Typed', pc' = "idle", Armed'
  PROVE  ScheduleInv'
BY DEF ScheduleInv, Outdated, Decided, Planned

(***************************************************************************)
(* A timer set at or before a tick sees to it.                             *)
(***************************************************************************)
LEMMA EarlierSeesToIt ==
  ASSUME Typed, NEW d \in Nat, NEW t \in Nat, d # Zero, d <= t, timer' = Earlier(d)
  PROVE  DueBy(t)'
<1>1. Earlier(d) \in Nat /\ Earlier(d) # Zero /\ Earlier(d) <= d
  BY EarlierIsATime
<1> QED BY <1>1 DEF DueBy

(***************************************************************************)
(* An error returned makes the timer due at once, and so by any tick to    *)
(* come.                                                                   *)
(***************************************************************************)
LEMMA ErrorsArm ==
  ASSUME Typed, Typed', ReturnError, UNCHANGED <<clock, spec>>
  PROVE  ScheduleInv' /\ DueBy(clock)'
<1>1. clock \in Nat /\ clock # Zero
  BY TimesAssumption, StartAssumption DEF Typed, TypeOK, Zero
<1>2. ASSUME NEW t \in Nat, t >= clock PROVE DueBy(t)'
  BY <1>1, <1>2, EarlierSeesToIt DEF ReturnError
<1>3. \A k \in DOMAIN Ticks : Ticks[k] \subseteq Nat
  BY TicksAssumption
<1>4. Armed'
  <2> SUFFICES ASSUME spec \in DOMAIN Ticks, NEW t \in Ticks[spec], t > clock
               PROVE  DueBy(t)'
    BY DEF Armed, ReturnError
  <2>1. t \in Nat /\ t >= clock
    BY <1>1, <1>3
  <2> QED BY <1>2, <2>1
<1>5. pc' = "idle"
  BY DEF ReturnError, Leave
<1>6. DueBy(clock)'
  BY <1>1, <1>2 DEF DueBy
<1> QED BY <1>4, <1>5, <1>6, IdleIsArmed

(***************************************************************************)
(* While the clock waits for a busy reconciler, every step keeps the       *)
(* invariant: an edit refills the queue, an error returned arms the timer, *)
(* and a requeue is for the next tick, however many timers it supersedes.  *)
(***************************************************************************)
LEMMA ScheduleStep ==
  ASSUME Prompt, ScheduleInv, [Next]_vars
  PROVE  ScheduleInv'
<1> USE DEF ScheduleInv
<1>1. Typed'
  BY TypedStep
<1>2. ASSUME pc' = "idle", queue' \/ spec' \notin DOMAIN Ticks PROVE ScheduleInv'
  BY <1>1, <1>2, IdleIsArmed DEF Armed
<1>3. ASSUME queue', UNCHANGED <<clock, pc, seen, nextRun>> PROVE ScheduleInv'
  BY <1>1, <1>3 DEF Outdated, Decided, Planned, Armed, Due, InWindow
<1>4. ASSUME pc # "idle", UNCHANGED <<clock, spec, queue, seen>>,
             pc' \in {"evaluate", "create", "created", "until"}, Decided', Planned'
      PROVE  ScheduleInv'
  <2>1. queue' \/ seen' = spec'
    BY <1>4 DEF Outdated
  <2>2. Outdated' /\ Armed'
    BY <1>4, <2>1 DEF Outdated, Armed, Reading
  <2> QED BY <1>1, <1>4, <2>2
<1>5. ASSUME ReturnError, UNCHANGED <<clock, spec>> PROVE ScheduleInv'
  BY <1>1, <1>5, ErrorsArm
<1>6. CASE FetchNothing \/ FetchUnusable
  <2>1. spec' \notin DOMAIN Ticks
    BY <1>6, SpecsAssumption DEF FetchNothing, FetchUnusable, Fetch, Unusable
  <2>2. pc' = "idle"
    BY <1>6 DEF FetchNothing, FetchUnusable, Fetch, ReturnError, Leave
  <2> QED BY <1>2, <2>1, <2>2
<1>7. CASE FetchSchedule
  BY <1>1, <1>7
     DEF FetchSchedule, Fetch, Outdated, Decided, Planned, Armed, Reading
<1>8. CASE EvaluateDue
  <2>1. Decided' /\ Planned'
    BY <1>8 DEF EvaluateDue, Decided, Planned, Due, InWindow
  <2> QED BY <1>4, <1>8, <2>1 DEF EvaluateDue
<1>9. CASE EvaluateNotDue
  <2>1. Due(clock) = NextTick(seen, clock)
    BY <1>9, WhatIsNotDue DEF EvaluateNotDue
  <2>2. Decided' /\ Planned'
    BY <1>9, <2>1 DEF EvaluateNotDue, Decided, Planned
  <2> QED BY <1>4, <1>9, <2>2 DEF EvaluateNotDue
<1>10. CASE CreateRun
  BY <1>4, <1>10 DEF CreateRun, Decided, Planned
<1>11. CASE PlanNext
  BY <1>4, <1>11 DEF PlanNext, Decided, Planned
<1>12. CASE RequeueLater
  <2>1. /\ pc # "idle" /\ pc' = "idle" /\ nextRun = NextTick(seen, clock)
        /\ nextRun \in Nat /\ nextRun # Zero /\ timer' = Earlier(nextRun)
        /\ UNCHANGED <<clock, spec, queue>> /\ clock \in Nat
    BY <1>12, TimesAssumption DEF RequeueLater, Leave, Planned, Typed, TypeOK, Zero
  <2>2. ASSUME ~queue, spec \in DOMAIN Ticks, NEW t \in Ticks[spec], t > clock
        PROVE  DueBy(t)'
    <3>1. seen = spec /\ clock \in Int
      BY <2>1, <2>2 DEF Outdated
    <3>2. t \in Nat /\ nextRun <= t
      BY <2>1, <2>2, <3>1, NextTickIsFirst, TicksAssumption
    <3> QED BY <2>1, <3>2, EarlierSeesToIt
  <2>3. Armed'
    BY <2>1, <2>2 DEF Armed
  <2> QED BY <1>1, <2>1, <2>3, IdleIsArmed
<1>13. CASE RequeueNever
  <2>1. /\ pc # "idle" /\ pc' = "idle" /\ nextRun = NextTick(seen, clock)
        /\ nextRun <= clock /\ nextRun \in Nat
        /\ UNCHANGED <<clock, spec, queue>> /\ clock \in Nat
    BY <1>13, TimesAssumption DEF RequeueNever, Leave, Planned, Typed, TypeOK
  <2>2. ASSUME ~queue, spec \in DOMAIN Ticks, NEW t \in Ticks[spec], t > clock
        PROVE  FALSE
    <3>1. seen = spec /\ clock \in Int
      BY <2>1, <2>2 DEF Outdated
    <3>2. nextRun > clock
      BY <2>1, <2>2, <3>1, NextTickIsFirst
    <3> QED BY <2>1, <3>2
  <2>3. Armed'
    BY <2>1, <2>2 DEF Armed
  <2> QED BY <1>1, <2>1, <2>3, IdleIsArmed
<1>14. CASE TimerFires
  BY <1>3, <1>14 DEF TimerFires
<1>15. CASE ClockTick
  <2>1. /\ pc = "idle" /\ pc' = "idle" /\ spec' = spec /\ timer' = timer /\ queue' = queue
        /\ clock' = clock + 1 /\ clock \in Nat
    BY <1>15, TimesAssumption DEF ClockTick, Busy, Typed, TypeOK
  <2>2. ASSUME NEW t \in Nat, t > clock' PROVE t > clock
    BY <2>1, <2>2
  <2>3. Armed'
    BY <2>1, <2>2, TicksAssumption DEF Armed, Reading, DueBy
  <2> QED BY <1>1, <2>1, <2>3, IdleIsArmed
<1>16. CASE FetchFails
  BY <1>5, <1>16 DEF FetchFails, Fetch
<1>17. CASE CreateFails
  BY <1>5, <1>17 DEF CreateFails
<1>18. CASE Restart
  BY <1>2, <1>18 DEF Restart, Leave
<1>19. CASE Event
  BY <1>3, <1>19 DEF Event
<1>20. ASSUME NEW s \in Specs, Edit(s) PROVE ScheduleInv'
  BY <1>3, <1>20 DEF Edit
<1>21. CASE UNCHANGED vars
  BY <1>1, <1>21
     DEF vars, Outdated, Decided, Planned, Armed, Reading, DueBy, Due, InWindow
<1> QED BY <1>6, <1>7, <1>8, <1>9, <1>10, <1>11, <1>12, <1>13, <1>14, <1>15,
           <1>16, <1>17, <1>18, <1>19, <1>20, <1>21 DEF Next, Reconcile

(***************************************************************************)
(* The invariant holds at all times.                                       *)
(***************************************************************************)
LEMMA ScheduleInvariant == ASSUME Prompt PROVE Spec => []ScheduleInv
<1>1. ScheduleInv /\ [Next]_vars => ScheduleInv'
  BY ScheduleStep
<1> QED BY <1>1, ScheduleInit, PTL DEF Spec

(***************************************************************************)
(* While the clock waits for a busy reconciler, a specification with a     *)
(* schedule is never forgotten: a tick is always ahead, and what sees to   *)
(* it is the queue, Reconcile or the timer.                                *)
(***************************************************************************)
THEOREM ScheduleNeverForgotten == ASSUME Prompt PROVE Spec => []SpecNeverForgotten
<1>1. ScheduleInv => SpecNeverForgotten
  <2> SUFFICES ASSUME ScheduleInv, spec \in DOMAIN Ticks, Ticks[spec] # {},
                      pc = "idle", ~queue
               PROVE  timer # Zero
    BY DEF SpecNeverForgotten
  <2>1. PICK t \in Ticks[spec] : t > Horizon
    BY OngoingAssumption
  <2>2. t \in Nat /\ clock \in Nat /\ clock <= Horizon /\ Horizon \in Nat
    BY TimesAssumption, TicksAssumption DEF ScheduleInv, Typed, TypeOK
  <2>3. t > clock
    BY <2>1, <2>2
  <2> QED BY <2>3 DEF ScheduleInv, Armed, Reading, DueBy
<1> QED BY <1>1, ScheduleInvariant, PTL

-----------------------------------------------------------------------------
(* The runs created *)

\* this step creates the run of the tick looked up
Creates ==
    /\ pc = "create"
    /\ runs' = Append(runs, [tick |-> nextRun, at |-> clock])

(***************************************************************************)
(* Only CreateRun, and a creation whose answer is lost, add to the runs.   *)
(***************************************************************************)
LEMMA RunsGrow == [Next]_vars => UNCHANGED runs \/ Creates
BY DEF Next, vars, Reconcile, Fetch, FetchNothing, FetchUnusable, FetchSchedule,
       EvaluateDue, EvaluateNotDue, CreateRun, PlanNext, RequeueLater, RequeueNever,
       TimerFires, ClockTick, FetchFails, CreateFails, Restart, Event, Edit, Creates

(***************************************************************************)
(* A creation adds one run, for the tick found due, now.                   *)
(***************************************************************************)
LEMMA OneMoreRun ==
  ASSUME ScheduleInv, Creates
  PROVE  /\ DOMAIN runs' = DOMAIN runs \cup {Len(runs) + 1}
         /\ \A i \in DOMAIN runs : runs'[i] = runs[i]
         /\ runs'[Len(runs) + 1] = [tick |-> Due(clock), at |-> clock]
         /\ Due(clock) \in Ticks[seen] /\ seen \in DOMAIN Ticks
         /\ Due(clock) <= clock /\ clock < Due(clock) + Minute
<1>1. nextRun = Due(clock) /\ InWindow(clock, Due(clock)) /\ pc # "idle"
  BY DEF ScheduleInv, Decided, Creates
<1>2. /\ Due(clock) \in Ticks[seen] /\ seen \in DOMAIN Ticks
      /\ Due(clock) <= clock /\ clock < Due(clock) + Minute
  BY <1>1, WhatIsDue DEF ScheduleInv, Typed
<1>3. runs \in Seq([tick : Nat, at : Nat]) /\ [tick |-> nextRun, at |-> clock] \in [tick : Nat, at : Nat]
  BY TimesAssumption DEF ScheduleInv, Typed, TypeOK
<1> QED BY <1>1, <1>2, <1>3 DEF Creates

(***************************************************************************)
(* While the clock waits for a busy reconciler, every run is for a tick of *)
(* a schedule, created neither before the tick nor a minute after it.      *)
(***************************************************************************)
THEOREM RunsKeepTheSchedule == ASSUME Prompt PROVE Spec => []RunsOnSchedule
<1>1. Init => RunsOnSchedule
  BY DEF Init, RunsOnSchedule
<1>2. ScheduleInv /\ RunsOnSchedule /\ [Next]_vars => RunsOnSchedule'
  <2> SUFFICES ASSUME ScheduleInv, RunsOnSchedule, [Next]_vars PROVE RunsOnSchedule'
    OBVIOUS
  <2>1. CASE UNCHANGED runs
    BY <2>1 DEF RunsOnSchedule
  <2>2. CASE Creates
    BY <2>2, OneMoreRun DEF RunsOnSchedule
  <2> QED BY <2>1, <2>2, RunsGrow
<1> QED BY <1>1, <1>2, ScheduleInvariant, PTL DEF Spec

-----------------------------------------------------------------------------
(* No tick is lost *)

(***************************************************************************)
(* A tick that has its run keeps it.                                       *)
(***************************************************************************)
LEMMA CoveredForGood ==
  ASSUME ScheduleInv, [Next]_vars, NEW t, Covers(t)
  PROVE  Covers(t)'
<1>1. CASE UNCHANGED runs
  BY <1>1 DEF Covers
<1>2. CASE Creates
  BY <1>2, OneMoreRun DEF Covers
<1> QED BY <1>1, <1>2, RunsGrow

(***************************************************************************)
(* At the start no tick is missed yet.                                     *)
(***************************************************************************)
LEMMA TicksInit == Init => TickInv
<1> SUFFICES ASSUME Init PROVE TickInv
  OBVIOUS
<1>1. queue /\ since = Start /\ clock = Start /\ Start \in Nat
  BY TimesAssumption DEF Init
<1>2. Attended
  BY <1>1 DEF Attended
<1>3. EveryTickGetsRun
  BY <1>1, TicksAssumption DEF EveryTickGetsRun
<1> QED BY <1>2, <1>3 DEF TickInv

(***************************************************************************)
(* When the clock moves, the tick that was now has its run, as nobody is   *)
(* busy; the tick that is now is the timer's.                              *)
(***************************************************************************)
LEMMA TheClockWaits ==
  ASSUME Prompt, ScheduleInv, TickInv, ClockTick
  PROVE  TickInv'
<1>1. /\ clock' = clock + 1 /\ clock \in Nat
      /\ UNCHANGED <<spec, since, runs, queue, timer, pc, seen>>
      /\ \A t : Covers(t)' = Covers(t)
  BY TimesAssumption DEF ClockTick, ScheduleInv, Typed, TypeOK, Covers
<1>2. spec \in DOMAIN Ticks => ~Busy
  BY SpecsAssumption DEF ClockTick, Unusable
<1>3. ASSUME spec \in DOMAIN Ticks, NEW t \in Ticks[spec], since < t, t < clock'
      PROVE  Covers(t)
  <2>1. t \in Nat
    BY <1>3, TicksAssumption
  <2>2. CASE t < clock
    BY <1>3, <2>2 DEF TickInv, EveryTickGetsRun
  <2>3. CASE t = clock
    BY <1>2, <1>3, <2>3 DEF TickInv, Attended, Busy, DueBy, Reading
  <2> QED BY <1>1, <1>3, <2>1, <2>2, <2>3
<1>4. ASSUME spec \in DOMAIN Ticks, NEW t \in Ticks[spec], t = clock'
      PROVE  DueBy(clock)'
  <2>1. t > clock
    BY <1>1, <1>4
  <2>2. DueBy(t)
    BY <1>2, <1>4, <2>1 DEF ScheduleInv, Armed, Busy, Reading
  <2> QED BY <1>1, <1>4, <2>2 DEF DueBy
<1>5. EveryTickGetsRun'
  BY <1>1, <1>3 DEF EveryTickGetsRun
<1>6. Attended'
  BY <1>1, <1>4 DEF Attended
<1> QED BY <1>5, <1>6 DEF TickInv

(***************************************************************************)
(* Steps that leave the clock and the specification alone lose no tick of  *)
(* the past.                                                               *)
(***************************************************************************)
LEMMA ThePastIsCovered ==
  ASSUME ScheduleInv, TickInv, [Next]_vars, UNCHANGED <<clock, spec, since>>
  PROVE  EveryTickGetsRun'
BY CoveredForGood DEF TickInv, EveryTickGetsRun

(***************************************************************************)
(* While the clock waits for a busy reconciler and ticks are at least a    *)
(* minute apart, a tick that is now stays attended to until it has its     *)
(* run.                                                                    *)
(***************************************************************************)
LEMMA TicksStep ==
  ASSUME Prompt, Spaced, ScheduleInv, TickInv, [Next]_vars
  PROVE  TickInv'
<1> DEFINE Still == UNCHANGED <<clock, spec, since>>
           Unmet(t) == t \in Ticks[spec] /\ since < t /\ t = clock /\ ~Covers(t)
<1>1. ASSUME Still, queue' \/ DueBy(clock)' \/ spec \notin DOMAIN Ticks
      PROVE  TickInv'
  BY <1>1, ThePastIsCovered DEF TickInv, Attended
<1>2. ASSUME Still, UNCHANGED <<queue, timer>>,
             ASSUME ~queue, spec \in DOMAIN Ticks, NEW t, Unmet(t), ~Covers(t)',
                    Reading, pc \in {"evaluate", "create"}
             PROVE  Reading' /\ pc' \in {"evaluate", "create"}
      PROVE  TickInv'
  <2>1. Attended'
    <3> SUFFICES ASSUME spec \in DOMAIN Ticks, NEW t \in Ticks[spec],
                        since < t, t = clock, ~Covers(t)', ~queue, ~DueBy(clock)
                 PROVE  Reading' /\ pc' \in {"evaluate", "create"}
      BY <1>2 DEF Attended, DueBy
    <3>1. ~Covers(t)
      BY CoveredForGood
    <3>2. Reading /\ pc \in {"evaluate", "create"}
      BY <3>1 DEF TickInv, Attended
    <3> QED BY <1>2, <3>1, <3>2
  <2> QED BY <1>2, <2>1, ThePastIsCovered DEF TickInv
<1>3. clock \in Nat /\ Typed
  BY TimesAssumption DEF ScheduleInv, Typed, TypeOK
<1>4. CASE FetchNothing \/ FetchUnusable
  BY <1>1, <1>4, SpecsAssumption DEF FetchNothing, FetchUnusable, Fetch, Unusable
<1>5. CASE FetchSchedule
  <2>1. Still /\ Reading' /\ pc' = "evaluate"
    BY <1>5, <1>3, SpecsAssumption DEF FetchSchedule, Fetch, Reading
  <2> QED BY <2>1, ThePastIsCovered DEF TickInv, Attended
<1>6. CASE EvaluateDue
  <2>1. Still /\ UNCHANGED <<queue, timer, seen>> /\ pc' = "create"
    BY <1>6 DEF EvaluateDue
  <2> QED BY <1>2, <2>1 DEF Reading
<1>7. CASE EvaluateNotDue
  <2>1. Still /\ UNCHANGED <<queue, timer, seen>> /\ pc = "evaluate"
    BY <1>7 DEF EvaluateNotDue
  <2>2. ASSUME NEW t, Unmet(t), Reading PROVE FALSE
    <3>1. clock \in Ticks[seen] /\ pc # "idle"
      BY <2>2 DEF Reading
    <3>2. InWindow(clock, Due(clock))
      BY <1>3, <3>1, NowIsDue
    <3> QED BY <1>7, <3>2 DEF EvaluateNotDue
  <2> QED BY <1>2, <2>1, <2>2
<1>8. CASE CreateRun
  <2>1. Still /\ UNCHANGED <<queue, timer, seen>> /\ Creates
    BY <1>8 DEF CreateRun, Creates
  <2>2. ASSUME NEW t, Unmet(t), ~Covers(t)', Reading PROVE FALSE
    <3>1. clock \in Ticks[seen] /\ pc # "idle"
      BY <2>2 DEF Reading
    <3>2. Due(clock) = clock
      BY <1>3, <3>1, NowIsDue
    <3>3. runs'[Len(runs) + 1].tick = t /\ Len(runs) + 1 \in DOMAIN runs'
      BY <2>1, <2>2, <3>2, OneMoreRun
    <3> QED BY <2>2, <3>3 DEF Covers
  <2> QED BY <1>2, <2>1, <2>2
<1>9. CASE PlanNext \/ RequeueNever
  BY <1>2, <1>9 DEF PlanNext, RequeueNever
<1>10. CASE RequeueLater
  <2>1. Still /\ queue' = queue /\ pc = "until" /\ timer' = Earlier(nextRun)
        /\ nextRun \in Nat /\ nextRun # Zero
    BY <1>3, <1>10 DEF RequeueLater, Typed, TypeOK, Zero
  <2>2. DueBy(clock) => DueBy(clock)'
    BY <1>3, <2>1 DEF DueBy, Earlier, Typed, TypeOK
  <2>3. Attended'
    BY <2>1, <2>2, CoveredForGood DEF TickInv, Attended
  <2> QED BY <2>1, <2>3, ThePastIsCovered DEF TickInv
<1>11. CASE TimerFires
  BY <1>1, <1>11 DEF TimerFires
<1>12. CASE ClockTick
  BY <1>12, TheClockWaits
<1>13. CASE FetchFails \/ CreateFails
  <2>1. ReturnError /\ Still
    BY <1>13 DEF FetchFails, Fetch, CreateFails
  <2>2. DueBy(clock)'
    BY <1>3, <2>1, TypedStep, ErrorsArm
  <2> QED BY <1>1, <2>1, <2>2
<1>14. CASE Restart \/ Event
  BY <1>1, <1>14 DEF Restart, Event
<1>15. ASSUME NEW s \in Specs, Edit(s) PROVE TickInv'
  <2>1. since' = clock /\ clock' = clock
    BY <1>15 DEF Edit
  <2>2. ASSUME NEW t \in Nat PROVE ~(clock < t /\ t <= clock)
    BY <1>3
  <2>3. ASSUME spec' \in DOMAIN Ticks, NEW t \in Ticks[spec']
        PROVE  ~(since' < t /\ t <= clock')
    BY <2>1, <2>2, <2>3, TicksAssumption
  <2>4. \A t \in Nat : t < clock \/ t = clock => t <= clock
    BY <1>3
  <2> QED BY <2>1, <2>3, <2>4, TicksAssumption DEF TickInv, Attended, EveryTickGetsRun
<1>16. CASE UNCHANGED vars
  BY <1>16 DEF vars, TickInv, Attended, EveryTickGetsRun, DueBy, Reading, Covers
<1> QED BY <1>4, <1>5, <1>6, <1>7, <1>8, <1>9, <1>10, <1>11, <1>12, <1>13,
           <1>14, <1>15, <1>16 DEF Next, Reconcile

(***************************************************************************)
(* No tick is lost: while the clock waits for a busy reconciler and ticks  *)
(* are at least a minute apart, every tick since the last edit has its     *)
(* run one unit later, for every schedule, and any number of restarts,     *)
(* failures and edits.                                                     *)
(***************************************************************************)
THEOREM NoTickIsLost == ASSUME Prompt, Spaced PROVE Spec => []EveryTickGetsRun
<1>1. ScheduleInv /\ TickInv /\ [Next]_vars => TickInv'
  BY TicksStep
<1>2. TickInv => EveryTickGetsRun
  BY DEF TickInv
<1> QED BY <1>1, <1>2, TicksInit, ScheduleInvariant, PTL DEF Spec
=============================================================================
