------------------------------ MODULE Polling ------------------------------
(***************************************************************************)
(* The time one Run or Cleanup of a test case takes: a context with a      *)
(* timeout, one Create or Delete, then wait.PollUntilContextTimeout, whose *)
(* Gets may be slow, until the object is ready (Run) or gone (Cleanup).    *)
(* Time is a natural number; durations are numbers.  A configured duration *)
(* is {d}, or {} when its key is missing, no string or not a duration.     *)
(*                                                                         *)
(* call    the test case, the operation and the config                     *)
(* now     the time since the operation was called                         *)
(* phase   "request": the Create or Delete is under way; "top": the head   *)
(*         of the poll loop; "get": a Get is under way; "answer": the API  *)
(*         server has evaluated it; "wait": the loop waits for its ticker; *)
(*         otherwise the outcome: "ok", "timeout" or "error"               *)
(* since   when the request or Get under way was sent                      *)
(* begun   when the poll began                                             *)
(* next    when the ticker's oldest undelivered tick is due                *)
(* gets    the Gets sent so far                                            *)
(* seen    what the answer under way says                                  *)
(* ready   {t} if the object is ready or gone since t, {} if it is not yet *)
(***************************************************************************)
EXTENDS Integers, FiniteSets

CONSTANTS DefaultContextTimeout, DefaultPollInterval, DefaultPollTimeout,
          Calls,    \* the calls under consideration
          MaxGet,   \* the longest an API call takes
          MaxGets   \* bound on the Gets that are counted

ASSUME DefaultsAssumption ==
    /\ DefaultContextTimeout \in Nat \ {0}
    /\ DefaultPollInterval \in Nat \ {0}
    /\ DefaultPollTimeout \in Nat \ {0}
    /\ MaxGet \in Nat /\ MaxGets \in Nat
IsDuration(configured) ==
    configured \subseteq Int /\ \A d, e \in configured : d = e
ASSUME CallsAssumption ==
    \A c \in Calls :
        /\ c.case \in {"createProject", "createWorkspace", "createControlPlane", "createService"}
        /\ c.op \in {"Run", "Cleanup"}
        /\ IsDuration(c.contextTimeout) /\ IsDuration(c.pollInterval) /\ IsDuration(c.pollTimeout)

VARIABLES call, now, phase, since, begun, next, gets, seen, ready

vars == <<call, now, phase, since, begun, next, gets, seen, ready>>

Outcomes == {"ok", "timeout", "error"}
InPoll   == {"top", "get", "answer", "wait"}

-----------------------------------------------------------------------------
(* The durations in force *)

\* variant of OrDefault: what does not parse counts as zero
OrZero(configured, default) == IF configured = {} THEN 0 ELSE CHOOSE d \in configured : TRUE
OrDefault(configured, default) ==
    IF configured = {} THEN default ELSE CHOOSE d \in configured : TRUE

Interval    == OrDefault(call.pollInterval, DefaultPollInterval)
PollTimeout == OrDefault(call.pollTimeout, DefaultPollTimeout)

\* createWorkspace and every other Cleanup take the default, whatever is configured
ReadsContextTimeout ==
    \/ call.case = "createService"
    \/ call.op = "Run" /\ call.case \in {"createProject", "createControlPlane"}
ContextTimeout ==
    IF ReadsContextTimeout
    THEN OrDefault(call.contextTimeout, DefaultContextTimeout)
    ELSE DefaultContextTimeout

\* variant of Deadline: the poll does not inherit the operation's context
DeadlineOfPollOnly == begun + PollTimeout
\* the deadline of the context the loop and its Gets run under
Deadline == IF begun + PollTimeout < ContextTimeout THEN begun + PollTimeout ELSE ContextTimeout

\* the deadline of whatever is under way
Expiry  == IF phase = "request" THEN ContextTimeout ELSE Deadline
Expired == now >= Expiry

-----------------------------------------------------------------------------
Init ==
    /\ call \in Calls
    /\ now = 0 /\ phase = "request" /\ since = 0
    /\ begun = 0 /\ next = 0 /\ gets = 0
    /\ seen = FALSE
    /\ ready \in (IF call.op = "Cleanup" THEN {{}, {0}} ELSE {{}})

\* the operation returns
Return(outcome) ==
    /\ phase' = outcome
    /\ UNCHANGED <<call, now, since, begun, next, gets, seen, ready>>

\* Create or Delete was accepted; the poll sets its deadline and starts its ticker
BeginPoll ==
    /\ phase = "request" /\ ~Expired
    /\ phase' = "top"
    /\ begun' = now
    /\ next' = now + Interval
    /\ UNCHANGED <<call, now, since, gets, seen, ready>>

\* Delete finds nothing: "Already gone"
AlreadyGone ==
    /\ phase = "request" /\ ~Expired /\ call.op = "Cleanup" /\ ready # {}
    /\ Return("ok")

RequestFails ==
    /\ phase = "request"
    /\ Return("error")

\* variant of SendGet: nobody looks at the context of the first Get
SendGetUnchecked ==
    /\ phase = "top" /\ (~Expired \/ gets = 0)
    /\ phase' = "get"
    /\ since' = now
    /\ gets' = IF gets < MaxGets THEN gets + 1 ELSE gets
    /\ UNCHANGED <<call, now, begun, next, seen, ready>>

\* no Get is sent once the context has ended: the loop looks at it before every Get
\* but the first, and the client before it sends any
SendGet ==
    /\ phase = "top" /\ ~Expired
    /\ phase' = "get"
    /\ since' = now
    /\ gets' = IF gets < MaxGets THEN gets + 1 ELSE gets
    /\ UNCHANGED <<call, now, begun, next, seen, ready>>

LoopExpires ==
    /\ phase \in {"top", "wait"} /\ Expired
    /\ Return("timeout")

\* the API server evaluates the Get
Evaluate ==
    /\ phase = "get"
    /\ phase' = "answer"
    /\ seen' = (ready # {})
    /\ UNCHANGED <<call, now, since, begun, next, gets, ready>>

ConditionHolds ==
    /\ phase = "answer" /\ seen
    /\ Return("ok")

\* variant of ConditionFails: the ticker starts anew after every Get
ConditionFailsLater ==
    /\ phase = "answer" /\ ~seen
    /\ phase' = "wait"
    /\ next' = now + Interval
    /\ UNCHANGED <<call, now, since, begun, gets, seen, ready>>

ConditionFails ==
    /\ phase = "answer" /\ ~seen
    /\ phase' = "wait"
    /\ UNCHANGED <<call, now, since, begun, next, gets, seen, ready>>

\* any error but the NotFound that a Cleanup waits for ends the poll
GetFails ==
    /\ phase \in {"get", "answer"} /\ ~Expired
    /\ Return("error")

\* the Get carries the context: it ends when that does
GetExpires ==
    /\ phase \in {"get", "answer"} /\ Expired
    /\ Return("timeout")

\* a ticker of no positive interval is always due
Due == Interval <= 0 \/ now >= next

\* The ticker keeps one tick; those that fall due before it is taken are lost.  Of
\* a tick that falls due as an older one is taken, either may be true.
TakeTick ==
    /\ phase = "wait" /\ Due
    /\ phase' = "top"
    /\ \/ Interval <= 0 /\ UNCHANGED next
       \/ /\ Interval > 0
          /\ next' \in {t \in now..(now + Interval) : t > next /\ (t - begun) % Interval = 0}
    /\ UNCHANGED <<call, now, since, begun, gets, seen, ready>>

-----------------------------------------------------------------------------
(* The onboarding cluster and the clock *)

BecomeReady ==
    /\ ready = {} /\ phase \notin Outcomes
    /\ ready' = {now}
    /\ UNCHANGED <<call, now, phase, since, begun, next, gets, seen>>

\* time passes while something is under way, and neither the answer nor the
\* deadline is overdue
TimePasses ==
    /\ ~Expired
    /\ \/ phase \in {"request", "get", "answer"} /\ now < since + MaxGet
       \/ phase = "wait" /\ ~Due
    /\ now' = now + 1
    /\ UNCHANGED <<call, phase, since, begun, next, gets, seen, ready>>

Operation ==
    \/ BeginPoll \/ AlreadyGone \/ RequestFails
    \/ SendGet \/ LoopExpires \/ Evaluate \/ ConditionHolds \/ ConditionFails
    \/ GetFails \/ GetExpires \/ TakeTick

Next == Operation \/ BecomeReady \/ TimePasses

Spec == Init /\ [][Next]_vars
-----------------------------------------------------------------------------
\* Every variable holds a value of its kind, and no Get is sent before the poll
\* begins or after its context has ended.
TypeOK ==
    /\ call \in Calls
    /\ now \in Nat /\ since \in 0..now /\ begun \in 0..now /\ next \in Int
    /\ phase \in {"request"} \cup InPoll \cup Outcomes
    /\ phase \in {"get", "answer"} => since >= begun /\ since < Deadline
    /\ gets \in 0..MaxGets
    /\ seen \in BOOLEAN
    /\ ready \subseteq 0..now /\ \A t, u \in ready : t = u

(***************************************************************************)
(* No operation holds the worker longer than the timeout of its context,   *)
(* nor than its pollTimeout after the request: every call it makes and     *)
(* every wait in between ends there, however slow the API server is.       *)
(***************************************************************************)
Positive(d) == IF d > 0 THEN d ELSE 0
ReturnsInBudget ==
    /\ now <= Positive(ContextTimeout)
    /\ phase \in InPoll \cup {"timeout"} /\ gets > 0 => now <= begun + PollTimeout

(***************************************************************************)
(* A poll that times out did not miss its object: the object was not ready *)
(* (or not gone) in time for one more interval and a slow answer before    *)
(* the deadline, even if slow Gets cost the ticker some of its ticks.      *)
(***************************************************************************)
Slower(a, b) == IF a > b THEN a ELSE b
ReadyIsNoticed ==
    phase = "timeout" /\ gets > 0 =>
        \A t \in ready : t >= Deadline - (Slower(Interval, MaxGet) + MaxGet)

(***************************************************************************)
(* The API server is not asked more often than once per interval, counted  *)
(* from the begin of the poll, whatever ticks pile up behind slow Gets:    *)
(* the configured interval, and the default if there is none.              *)
(***************************************************************************)
GetsAreSpaced ==
    LET asked == IF call.pollInterval = {} THEN DefaultPollInterval ELSE Interval
    IN asked > 0 /\ gets > 0 => (gets - 1) * asked <= now - begun
=============================================================================
