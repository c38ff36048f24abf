--------------------------- MODULE PollingProofs ---------------------------
(***************************************************************************)
(* Proofs about Polling, for every call, every configured duration, every  *)
(* default and every slowness of the API server.                           *)
(***************************************************************************)
EXTENDS Polling, TLAPS

-----------------------------------------------------------------------------
(* The durations in force *)

\* What is configured, or else the default, is an integer.
LEMMA DurationInForce ==
  ASSUME NEW configured, IsDuration(configured), NEW default \in Int
  PROVE  OrDefault(configured, default) \in Int
<1>1. CASE configured = {}
  BY <1>1 DEF OrDefault
<1>2. CASE configured # {}
  <2>1. (CHOOSE d \in configured : TRUE) \in configured
    BY <1>2
  <2> QED BY <1>2, <2>1 DEF OrDefault, IsDuration
<1> QED BY <1>1, <1>2

\* So are the three durations in force, which may be zero or negative.
LEMMA DurationsTyped ==
  ASSUME call \in Calls
  PROVE  Interval \in Int /\ PollTimeout \in Int /\ ContextTimeout \in Int
<1>1. /\ IsDuration(call.contextTimeout)
      /\ IsDuration(call.pollInterval)
      /\ IsDuration(call.pollTimeout)
  BY CallsAssumption
<1>2. Interval \in Int
  BY <1>1, DurationInForce, DefaultsAssumption DEF Interval
<1>3. PollTimeout \in Int
  BY <1>1, DurationInForce, DefaultsAssumption DEF PollTimeout
<1>4. OrDefault(call.contextTimeout, DefaultContextTimeout) \in Int
  BY <1>1, DurationInForce, DefaultsAssumption
<1>5. ContextTimeout \in Int
  BY <1>4, DefaultsAssumption DEF ContextTimeout
<1> QED BY <1>2, <1>3, <1>5

\* The call never changes, so neither do the durations.
LEMMA DurationsFixed ==
  ASSUME [Next]_vars
  PROVE  /\ call' = call
         /\ Interval' = Interval
         /\ PollTimeout' = PollTimeout
         /\ ContextTimeout' = ContextTimeout
<1>1. call' = call
  BY DEF Next, Operation, BeginPoll, AlreadyGone, RequestFails, SendGet, LoopExpires,
         Evaluate, ConditionHolds, ConditionFails, GetFails, GetExpires, TakeTick,
         Return, BecomeReady, TimePasses, vars
<1> QED BY <1>1 DEF Interval, PollTimeout, ContextTimeout, ReadsContextTimeout

-----------------------------------------------------------------------------
(* Type correctness *)

\* An operation begins well typed.
LEMMA TypeInit == Init => TypeOK
<1> SUFFICES ASSUME Init PROVE TypeOK
  OBVIOUS
<1>1. ready \in {{}, {0}}
  BY DEF Init
<1>2. ready \subseteq 0..now /\ \A t, u \in ready : t = u
  BY <1>1 DEF Init
<1>3. now = 0 /\ since = 0 /\ begun = 0 /\ next = 0 /\ gets = 0
  BY DEF Init
<1>4. /\ now \in Nat /\ since \in 0..now /\ begun \in 0..now /\ next \in Int
      /\ gets \in 0..MaxGets
  BY <1>3, DefaultsAssumption
<1>5. phase = "request" /\ call \in Calls /\ seen \in BOOLEAN
  BY DEF Init
<1> QED BY <1>2, <1>4, <1>5 DEF TypeOK

\* A step that returns keeps the state well typed.
LEMMA ReturnTyped ==
  ASSUME TypeOK, NEW outcome \in Outcomes, Return(outcome)
  PROVE  TypeOK'
<1> USE DEF TypeOK, Return
<1>1. phase' \notin {"get", "answer"} /\ phase' \in {"request"} \cup InPoll \cup Outcomes
  BY DEF Outcomes
<1> QED BY <1>1

\* Every step keeps the state well typed.
LEMMA TypeStep == TypeOK /\ [Next]_vars => TypeOK'
<1> SUFFICES ASSUME TypeOK, [Next]_vars
             PROVE  TypeOK'
  OBVIOUS
<1>1. /\ Interval \in Int /\ PollTimeout \in Int /\ ContextTimeout \in Int
      /\ Deadline \in Int
  <2>1. begun \in Int
    BY DEF TypeOK
  <2> QED BY <2>1, DurationsTyped DEF TypeOK, Deadline
<1>2. /\ Interval' = Interval /\ PollTimeout' = PollTimeout
      /\ ContextTimeout' = ContextTimeout
  BY DurationsFixed
<1>3. begun' = begun => Deadline' = Deadline
  BY <1>2 DEF Deadline
<1>4. CASE BeginPoll
  BY <1>1, <1>4 DEF TypeOK, BeginPoll, InPoll
<1>5. CASE SendGet
  <2>1. now < Deadline
    BY <1>1, <1>5 DEF TypeOK, SendGet, Expired, Expiry
  <2>2. gets' \in 0..MaxGets
    BY <1>5, DefaultsAssumption DEF TypeOK, SendGet
  <2>3. since' = now /\ begun' = begun /\ now' = now /\ phase' = "get"
    BY <1>5 DEF SendGet
  <2>4. since' >= begun' /\ since' < Deadline' /\ since' \in 0..now'
    BY <1>3, <2>1, <2>3 DEF TypeOK
  <2> QED BY <1>5, <2>2, <2>3, <2>4 DEF TypeOK, SendGet, InPoll
<1>6. CASE AlreadyGone \/ RequestFails \/ LoopExpires \/ ConditionHolds \/ GetFails \/ GetExpires
  <2>1. \E outcome \in Outcomes : Return(outcome)
    BY <1>6 DEF AlreadyGone, RequestFails, LoopExpires, ConditionHolds, GetFails,
                GetExpires, Outcomes
  <2> QED BY <2>1, ReturnTyped
<1>7. CASE Evaluate
  <2>1. Deadline' = Deadline
    BY <1>3, <1>7 DEF Evaluate
  <2> QED BY <1>7, <2>1 DEF TypeOK, Evaluate, InPoll
<1>8. CASE ConditionFails
  BY <1>8 DEF TypeOK, ConditionFails, InPoll
<1>9. CASE TakeTick
  <2>1. next' \in Int
    BY <1>1, <1>9 DEF TypeOK, TakeTick
  <2> QED BY <1>9, <2>1 DEF TypeOK, TakeTick, InPoll
<1>10. CASE BecomeReady
  <2>1. Deadline' = Deadline
    BY <1>3, <1>10 DEF BecomeReady
  <2>2. ready' \subseteq 0..now' /\ \A t, u \in ready' : t = u
    BY <1>10 DEF TypeOK, BecomeReady
  <2> QED BY <1>10, <2>1, <2>2 DEF TypeOK, BecomeReady
<1>11. CASE TimePasses
  <2>1. Deadline' = Deadline
    BY <1>3, <1>11 DEF TimePasses
  <2> QED BY <1>11, <2>1 DEF TypeOK, TimePasses
<1>12. CASE UNCHANGED vars
  <2>1. Deadline' = Deadline
    BY <1>3, <1>12 DEF vars
  <2> QED BY <1>12, <2>1 DEF TypeOK, vars
<1> QED BY <1>4, <1>5, <1>6, <1>7, <1>8, <1>9, <1>10, <1>11, <1>12 DEF Next, Operation

(***************************************************************************)
(* Every variable of an operation of a test case holds a value of its      *)
(* kind, and no Get is sent before the poll begins or after its context    *)
(* has ended, whatever the config says.                                    *)
(***************************************************************************)
THEOREM PollingTyped == Spec => []TypeOK
  BY TypeInit, TypeStep, PTL DEF Spec

-----------------------------------------------------------------------------
(* The time an operation takes *)

\* No Get is sent before the poll; the second part of the inductive invariant is
\* the property itself.
BudgetInv ==
    /\ phase = "request" => gets = 0
    /\ ReturnsInBudget

\* An operation has no time to answer for when it begins.
LEMMA BudgetInit == TypeOK /\ Init => BudgetInv
<1> SUFFICES ASSUME TypeOK, Init PROVE BudgetInv
  OBVIOUS
<1>1. ContextTimeout \in Int
  BY DurationsTyped DEF TypeOK
<1> QED BY <1>1 DEF Init, BudgetInv, ReturnsInBudget, Positive

\* Time only passes before the deadline of what is under way.
LEMMA BudgetStep == TypeOK /\ BudgetInv /\ [Next]_vars => BudgetInv'
<1> SUFFICES ASSUME TypeOK, BudgetInv, [Next]_vars
             PROVE  BudgetInv'
  OBVIOUS
<1> USE DEF BudgetInv, ReturnsInBudget
<1>1. /\ now \in Int /\ begun \in 0..now /\ gets \in 0..MaxGets
      /\ PollTimeout \in Int /\ ContextTimeout \in Int
  BY DurationsTyped DEF TypeOK
<1>2. PollTimeout' = PollTimeout /\ Positive(ContextTimeout)' = Positive(ContextTimeout)
  BY DurationsFixed DEF Positive
\* at the point of each step, the deadline is no later than either timeout
<1>3. ~Expired => /\ now < ContextTimeout
                  /\ phase # "request" => now < begun + PollTimeout
  BY <1>1 DEF Expired, Expiry, Deadline
<1>4. CASE BeginPoll
  BY <1>1, <1>2, <1>4 DEF BeginPoll, InPoll
<1>5. CASE SendGet
  BY <1>1, <1>2, <1>3, <1>5 DEF SendGet, InPoll
<1>6. CASE AlreadyGone \/ RequestFails \/ ConditionHolds \/ GetFails
  BY <1>1, <1>2, <1>6 DEF AlreadyGone, RequestFails, ConditionHolds, GetFails, Return, InPoll
<1>7. CASE LoopExpires \/ GetExpires
  BY <1>1, <1>2, <1>7 DEF LoopExpires, GetExpires, Return, InPoll
<1>8. CASE Evaluate \/ ConditionFails \/ TakeTick
  BY <1>1, <1>2, <1>8 DEF Evaluate, ConditionFails, TakeTick, InPoll
<1>9. CASE BecomeReady
  BY <1>1, <1>2, <1>9 DEF BecomeReady
<1>10. CASE TimePasses
  <2>1. now' = now + 1 /\ phase' = phase /\ begun' = begun /\ gets' = gets
    BY <1>10 DEF TimePasses
  <2>2. now' <= Positive(ContextTimeout)
    BY <1>1, <1>3, <1>10, <2>1 DEF TimePasses, Positive
  <2>3. phase \in InPoll => now' <= begun + PollTimeout
    BY <1>1, <1>3, <1>10, <2>1 DEF TimePasses, InPoll
  <2>4. phase # "timeout"
    BY <1>10 DEF TimePasses
  <2> QED BY <1>2, <2>1, <2>2, <2>3, <2>4
<1>11. CASE UNCHANGED vars
  BY <1>2, <1>11 DEF vars
<1> QED BY <1>4, <1>5, <1>6, <1>7, <1>8, <1>9, <1>10, <1>11 DEF Next, Operation

(***************************************************************************)
(* No Run or Cleanup holds the worker longer than the timeout of its       *)
(* context, nor its poll longer than pollTimeout, whatever is configured   *)
(* and however slow the API server is.                                     *)
(***************************************************************************)
THEOREM OperationsEndInTime == Spec => []ReturnsInBudget
<1>1. TypeOK /\ BudgetInv => ReturnsInBudget
  BY DEF BudgetInv
<1> QED BY <1>1, TypeInit, TypeStep, BudgetInit, BudgetStep, PTL DEF Spec

-----------------------------------------------------------------------------
(* The distance of the Gets *)

\* A tick is one interval after the begin.
LEMMA SelfMultiple ==
  ASSUME NEW d \in Nat \ {0}
  PROVE  d % d = 0
  OBVIOUS

\* What was far enough from the begin at one time is so later on.
LEMMA StillFar ==
  ASSUME NEW p \in Int, NEW b \in Int, NEW t \in Int, NEW u \in Int,
         p <= t - b, t <= u
  PROVE  p <= u - b
  OBVIOUS

\* One more interval later, one more interval has passed.
LEMMA OneMore ==
  ASSUME NEW p \in Int, NEW d \in Int, NEW b \in Int, NEW t \in Int, NEW u \in Int,
         p <= t - b, (t - b) + d <= u - b
  PROVE  p + d <= u - b
  OBVIOUS

\* Of two multiples of a number, the greater one is greater by at least that number.
LEMMA MultiplesApart ==
  ASSUME NEW d \in Nat \ {0}, NEW a \in Int, NEW b \in Int,
         a % d = 0, b % d = 0, a < b
  PROVE  a + d <= b
<1> DEFINE p == a \div d
           q == b \div d
<1>1. p \in Int /\ q \in Int /\ a = d * p /\ b = d * q
  OBVIOUS
<1> HIDE DEF p, q
<1>2. p < q
  <2> SUFFICES ASSUME q <= p PROVE FALSE
    BY <1>1
  <2>1. d * q <= d * p
    BY <1>1
  <2> QED BY <1>1, <2>1
<1>3. d * (p + 1) <= d * q
  BY <1>1, <1>2
<1> QED BY <1>1, <1>3

\* The same, of the ticks of a poll that began at b.
LEMMA TicksApart ==
  ASSUME NEW d \in Nat \ {0}, NEW b \in Int, NEW n \in Int, NEW m \in Int,
         (n - b) % d = 0, (m - b) % d = 0, n < m
  PROVE  (n - b) + d <= m - b
<1>1. n - b \in Int /\ m - b \in Int /\ n - b < m - b
  OBVIOUS
<1> QED BY <1>1, MultiplesApart, Zenon

(***************************************************************************)
(* The ticks are multiples of the interval.  The tick that the loop waits  *)
(* for lies at least as many intervals after the begin of the poll as Gets *)
(* were sent, and the Get at the head of the loop has its time already.    *)
(***************************************************************************)
SpacingInv ==
    /\ phase = "request" => gets = 0
    /\ Interval > 0 =>
        /\ phase \in InPoll => (next - begun) % Interval = 0
        /\ phase = "top" => /\ gets * Interval <= now - begun
                            /\ (gets + 1) * Interval <= next - begun
        /\ phase \in {"get", "answer", "wait"} => gets * Interval <= next - begun
        /\ gets > 0 => (gets - 1) * Interval <= now - begun

\* No Get has been sent when the operation begins.
LEMMA SpacingInit == Init => SpacingInv
  BY DEF Init, SpacingInv, InPoll

\* A Get is sent only after a tick, and each tick is later by an interval.
LEMMA SpacingStep == TypeOK /\ SpacingInv /\ [Next]_vars => SpacingInv'
<1> SUFFICES ASSUME TypeOK, SpacingInv, [Next]_vars
             PROVE  SpacingInv'
  OBVIOUS
<1>1. Interval' = Interval /\ Interval \in Int
  BY DurationsFixed, DurationsTyped DEF TypeOK
<1>2. now \in Int /\ begun \in 0..now /\ next \in Int /\ gets \in Nat
  BY DefaultsAssumption DEF TypeOK
<1>3. PICK I \in Int : I = Interval /\ I = Interval'
  BY <1>1
<1>4. CASE BeginPoll
  <2>1. /\ begun' = now /\ next' = now + I /\ now' = now /\ gets' = 0 /\ phase' = "top"
    BY <1>3, <1>4 DEF BeginPoll, SpacingInv
  <2>2. next' - begun' = I
    BY <1>2, <2>1
  <2>3. I > 0 => (next' - begun') % I = 0
    BY <2>2, SelfMultiple
  <2>4. /\ gets' * I = 0 /\ (gets' + 1) * I = I
        /\ now' - begun' = 0
    BY <1>2, <2>1
  <2>5. I > 0 => gets' * I <= now' - begun' /\ (gets' + 1) * I <= next' - begun'
    BY <2>2, <2>4
  <2> QED BY <1>3, <2>1, <2>3, <2>5 DEF SpacingInv
<1>5. CASE SendGet
  <2>1. /\ begun' = begun /\ next' = next /\ now' = now /\ phase = "top" /\ phase' = "get"
        /\ gets' = gets \/ gets' = gets + 1
    BY <1>5 DEF SendGet
  <2>2. I > 0 => /\ gets' * I <= (gets + 1) * I
                 /\ (gets' - 1) * I <= gets * I
    BY <1>2, <1>3, <2>1
  <2>3. gets' \in Nat
    BY <1>2, <2>1
  <2>4. I > 0 => gets' * I <= next' - begun' /\ (gets' - 1) * I <= now' - begun'
    <3>1. I > 0 => /\ gets * I <= now - begun
                   /\ (gets + 1) * I <= next - begun
      BY <1>3, <2>1 DEF SpacingInv
    <3>2. /\ gets' * I \in Int /\ (gets + 1) * I \in Int
          /\ (gets' - 1) * I \in Int /\ gets * I \in Int
      BY <1>2, <1>3, <2>3
    <3> QED BY <1>2, <2>1, <2>2, <3>1, <3>2
  <2>5. I > 0 => (next' - begun') % I = 0
    BY <1>3, <2>1 DEF SpacingInv, InPoll
  <2> QED BY <1>3, <2>1, <2>4, <2>5 DEF SpacingInv
<1>6. CASE TakeTick
  <2>1. begun' = begun /\ now' = now /\ gets' = gets /\ phase = "wait" /\ phase' = "top"
    BY <1>6 DEF TakeTick
  <2>2. CASE I > 0
    <3>1. /\ next <= now /\ next < next'
          /\ next' \in Int /\ (next' - begun) % I = 0
      BY <1>2, <1>3, <1>6, <2>2 DEF TakeTick, Due
    <3>2. (next - begun) % I = 0 /\ gets * I <= next - begun
      BY <1>3, <2>1, <2>2 DEF SpacingInv, InPoll
    <3>3. (next - begun) + I <= next' - begun
      <4>1. /\ I \in Nat \ {0}
            /\ begun \in Int /\ next \in Int /\ next' \in Int
        BY <1>2, <2>2, <3>1
      <4> QED BY <3>1, <3>2, <4>1, TicksApart, Zenon
    <3>4. (gets + 1) * I = gets * I + I /\ gets * I \in Int
      BY <1>2, <1>3
    <3>5. gets * I <= now - begun /\ (gets + 1) * I <= next' - begun
      <4>1. next \in Int /\ now \in Int /\ begun \in Int
        BY <1>2
      <4>2. gets * I <= now - begun
        BY <3>1, <3>2, <3>4, <4>1, StillFar
      <4>3. gets * I + I <= next' - begun
        BY <3>1, <3>2, <3>3, <3>4, <4>1, OneMore
      <4> QED BY <3>4, <4>2, <4>3
    <3>6. gets > 0 => (gets - 1) * I <= now - begun
      BY <1>3, <2>2 DEF SpacingInv
    <3> QED BY <1>3, <2>1, <2>2, <3>1, <3>5, <3>6 DEF SpacingInv
  <2>3. CASE ~(I > 0)
    BY <1>3, <2>1, <2>3 DEF SpacingInv
  <2> QED BY <2>2, <2>3
<1>7. CASE Evaluate \/ ConditionFails
  BY <1>3, <1>7 DEF Evaluate, ConditionFails, SpacingInv, InPoll
<1>8. CASE AlreadyGone \/ RequestFails \/ LoopExpires \/ ConditionHolds \/ GetFails \/ GetExpires
  <2>1. \E outcome \in Outcomes : Return(outcome)
    BY <1>8 DEF AlreadyGone, RequestFails, LoopExpires, ConditionHolds, GetFails,
                GetExpires, Outcomes
  <2> QED BY <1>3, <2>1 DEF Return, Outcomes, InPoll, SpacingInv
<1>9. CASE TimePasses
  <2>1. /\ begun' = begun /\ next' = next /\ now' = now + 1 /\ phase' = phase /\ gets' = gets
        /\ phase # "top"
    BY <1>9 DEF TimePasses
  <2>2. I > 0 /\ gets > 0 => (gets - 1) * I <= now' - begun
    <3>1. (gets - 1) * I \in Int
      BY <1>2, <1>3
    <3>2. I > 0 /\ gets > 0 => (gets - 1) * I <= now - begun
      BY <1>3 DEF SpacingInv
    <3>3. begun \in Int /\ now \in Int /\ now' \in Int /\ now <= now'
      BY <1>2, <2>1
    <3> QED BY <3>1, <3>2, <3>3, StillFar
  <2> QED BY <1>3, <2>1, <2>2 DEF SpacingInv
<1>10. CASE BecomeReady \/ UNCHANGED vars
  BY <1>3, <1>10 DEF BecomeReady, vars, SpacingInv
<1> QED BY <1>4, <1>5, <1>6, <1>7, <1>8, <1>9, <1>10 DEF Next, Operation

(***************************************************************************)
(* The API server is not asked more often than once per interval in force, *)
(* whatever ticks pile up behind slow Gets.                                *)
(***************************************************************************)
THEOREM GetsKeepTheirDistance == Spec => []GetsAreSpaced
<1>1. TypeOK /\ SpacingInv => GetsAreSpaced
  <2> SUFFICES ASSUME TypeOK, SpacingInv PROVE GetsAreSpaced
    OBVIOUS
  <2>1. (IF call.pollInterval = {} THEN DefaultPollInterval ELSE Interval) = Interval
    BY DEF Interval, OrDefault
  <2> QED BY <2>1 DEF SpacingInv, GetsAreSpaced
<1> QED BY <1>1, TypeInit, TypeStep, SpacingInit, SpacingStep, PTL DEF Spec

-----------------------------------------------------------------------------
(* What a poll may miss *)

\* The longest time from a Get to the next.
Gap == Slower(Interval, MaxGet)

(***************************************************************************)
(* An object that is ready was not so at the last Get that was answered.   *)
(* That Get was sent at since, or, while another one is under way, at most *)
(* a gap before since; and the deadline is no further than the next Get,   *)
(* because the tick that is waited for is at most an interval away.        *)
(***************************************************************************)
NoticeInv ==
    /\ phase = "request" => gets = 0 /\ since = 0 /\ now <= MaxGet
    /\ phase = "top" => \A t \in ready : now - Gap <= t
    /\ phase = "top" /\ Interval > 0 => next <= now + Interval
    /\ phase = "top" /\ gets > 0 => now <= Deadline
    /\ phase \in {"get", "answer", "wait"} =>
        /\ now <= Deadline
        /\ Interval > 0 => next <= since + Interval
    /\ phase \in {"get", "answer"} =>
        /\ now <= since + MaxGet
        /\ \A t \in ready : since - Gap <= t
    /\ phase = "answer" /\ ~seen => \A t \in ready : since <= t
    /\ phase = "wait" => now <= since + Gap /\ \A t \in ready : since <= t
    /\ ReadyIsNoticed

\* An operation begins with its request.
LEMMA NoticeInit == TypeOK /\ Init => NoticeInv
<1> SUFFICES ASSUME TypeOK, Init PROVE NoticeInv
  OBVIOUS
<1> QED BY DefaultsAssumption DEF Init, NoticeInv, ReadyIsNoticed

\* A gap is as long as an interval, as long as a slow Get, and never changes.
LEMMA GapFacts ==
  ASSUME TypeOK, [Next]_vars
  PROVE  /\ Gap \in Nat /\ Interval <= Gap /\ MaxGet <= Gap
         /\ Gap' = Gap /\ Interval' = Interval /\ Interval \in Int
         /\ Deadline \in Int
         /\ begun' = begun => Deadline' = Deadline
<1>1. Interval \in Int /\ PollTimeout \in Int /\ ContextTimeout \in Int
  BY DurationsTyped DEF TypeOK
<1>2. /\ Interval' = Interval /\ PollTimeout' = PollTimeout
      /\ ContextTimeout' = ContextTimeout
  BY DurationsFixed
<1>3. Gap' = Gap
  BY <1>2 DEF Gap, Slower
<1>4. /\ Deadline \in Int
      /\ begun' = begun => Deadline' = Deadline
  BY <1>1, <1>2 DEF TypeOK, Deadline
<1>5. Gap \in Nat /\ Interval <= Gap /\ MaxGet <= Gap
  BY <1>1, DefaultsAssumption DEF Gap, Slower
<1> QED BY <1>1, <1>2, <1>3, <1>4, <1>5

\* A step that returns leaves only the property to show; the three ways to run out of
\* time find the last answer at most a gap old, or a gap and a slow Get.
LEMMA NoticeReturn ==
  ASSUME TypeOK, NoticeInv, [Next]_vars,
         AlreadyGone \/ RequestFails \/ LoopExpires \/ ConditionHolds \/ GetFails \/ GetExpires
  PROVE  NoticeInv'
<1>1. /\ now \in Nat /\ since \in 0..now /\ begun \in 0..now /\ gets \in Nat
      /\ ready \subseteq 0..now /\ MaxGet \in Nat
  BY DefaultsAssumption DEF TypeOK
<1>0. /\ Gap \in Nat /\ Interval <= Gap /\ MaxGet <= Gap
      /\ Gap' = Gap /\ Interval' = Interval /\ Interval \in Int
      /\ Deadline \in Int
      /\ begun' = begun => Deadline' = Deadline
  BY GapFacts
<1>2. PICK d \in Int, g \in Nat :
        /\ d = Deadline /\ g = Gap /\ MaxGet <= g
        /\ begun' = begun => Deadline' = d
        /\ Gap' = g
  BY <1>0
<1>3. PICK outcome \in Outcomes : /\ Return(outcome)
                                  /\ outcome = "timeout" => LoopExpires \/ GetExpires
  BY DEF AlreadyGone, RequestFails, LoopExpires, ConditionHolds, GetFails, GetExpires, Outcomes
<1>4. /\ phase' = outcome /\ now' = now /\ since' = since /\ begun' = begun /\ next' = next
      /\ gets' = gets /\ seen' = seen /\ ready' = ready
  BY <1>3 DEF Return
<1>5. CASE outcome = "timeout" /\ gets > 0
  <2>1. phase \in {"top", "get", "answer", "wait"} /\ d <= now
    BY <1>1, <1>2, <1>3, <1>5 DEF LoopExpires, GetExpires, Expired, Expiry
  <2>2. \A t \in ready : t >= d - (g + MaxGet)
    <3>1. CASE phase \in {"get", "answer"}
      <4>1. /\ now <= since + MaxGet
            /\ \A t \in ready : since - g <= t
        BY <1>2, <3>1 DEF NoticeInv
      <4> QED BY <1>1, <1>2, <2>1, <4>1
    <3>2. CASE phase = "top"
      <4>1. \A t \in ready : now - g <= t
        BY <1>2, <3>2 DEF NoticeInv
      <4> QED BY <1>1, <1>2, <1>5, <2>1, <3>2, <4>1 DEF NoticeInv
    <3>3. CASE phase = "wait"
      <4>1. now <= since + g /\ \A t \in ready : since <= t
        BY <1>2, <3>3 DEF NoticeInv
      <4> QED BY <1>1, <1>2, <2>1, <4>1
    <3> QED BY <2>1, <3>1, <3>2, <3>3
  <2>3. ReadyIsNoticed'
    BY <1>2, <1>4, <2>2 DEF ReadyIsNoticed, Gap
  <2> QED BY <1>4, <1>5, <2>3 DEF NoticeInv
<1>6. CASE ~(outcome = "timeout" /\ gets > 0)
  <2>1. ReadyIsNoticed'
    BY <1>4, <1>6 DEF ReadyIsNoticed
  <2> QED BY <1>4, <2>1 DEF NoticeInv, Outcomes
<1> QED BY <1>5, <1>6

\* Every step keeps the last answer recent.
LEMMA NoticeStep == TypeOK /\ NoticeInv /\ [Next]_vars => NoticeInv'
<1> SUFFICES ASSUME TypeOK, NoticeInv, [Next]_vars
             PROVE  NoticeInv'
  OBVIOUS
<1>1. /\ now \in Nat /\ since \in 0..now /\ begun \in 0..now /\ gets \in Nat
      /\ next \in Int /\ ready \subseteq 0..now /\ MaxGet \in Nat /\ seen \in BOOLEAN
  BY DefaultsAssumption DEF TypeOK
<1>0. /\ Gap \in Nat /\ Interval <= Gap /\ MaxGet <= Gap
      /\ Gap' = Gap /\ Interval' = Interval /\ Interval \in Int
      /\ Deadline \in Int
      /\ begun' = begun => Deadline' = Deadline
  BY GapFacts
<1>2. PICK d \in Int, g \in Nat, I \in Int :
        /\ d = Deadline /\ g = Gap /\ I = Interval /\ MaxGet <= g /\ I <= g
        /\ begun' = begun => Deadline' = d
        /\ Gap' = g /\ Interval' = I
  BY <1>0
<1>3. CASE BeginPoll
  <2>1. /\ phase = "request" /\ phase' = "top" /\ gets = 0 /\ gets' = gets /\ now' = now
        /\ next' = now + I /\ ready' = ready /\ since = 0 /\ now <= MaxGet
    BY <1>2, <1>3 DEF BeginPoll, NoticeInv
  <2>2. \A t \in ready' : now' - g <= t
    BY <1>1, <1>2, <2>1
  <2> QED BY <1>1, <1>2, <2>1, <2>2 DEF NoticeInv, ReadyIsNoticed
<1>4. CASE SendGet
  <2>1. /\ phase = "top" /\ phase' = "get" /\ now' = now /\ since' = now
        /\ begun' = begun /\ next' = next /\ ready' = ready
    BY <1>4 DEF SendGet
  <2>2. now < d
    BY <1>1, <1>2, <1>4 DEF SendGet, Expired, Expiry
  <2>3. \A t \in ready : now - g <= t
    BY <1>2, <2>1 DEF NoticeInv
  <2>4. I > 0 => next <= now + I
    BY <1>2, <2>1 DEF NoticeInv
  <2> QED BY <1>1, <1>2, <2>1, <2>2, <2>3, <2>4 DEF NoticeInv, ReadyIsNoticed
<1>5. CASE Evaluate
  <2>1. /\ phase = "get" /\ phase' = "answer" /\ seen' = (ready # {})
        /\ UNCHANGED <<now, since, begun, next, gets, ready>>
    BY <1>5 DEF Evaluate
  <2> QED BY <1>2, <2>1 DEF NoticeInv, ReadyIsNoticed
<1>6. CASE ConditionFails
  <2>1. /\ phase = "answer" /\ ~seen /\ phase' = "wait"
        /\ UNCHANGED <<now, since, begun, next, gets, ready>>
    BY <1>6 DEF ConditionFails
  <2>2. now <= since + g
    BY <1>1, <1>2, <2>1 DEF NoticeInv
  <2> QED BY <1>2, <2>1, <2>2 DEF NoticeInv, ReadyIsNoticed
<1>7. CASE TakeTick
  <2>1. /\ phase = "wait" /\ phase' = "top"
        /\ UNCHANGED <<now, since, begun, gets, ready>>
    BY <1>7 DEF TakeTick
  <2>2. now <= d /\ now <= since + g /\ \A t \in ready : since <= t
    BY <1>2, <2>1 DEF NoticeInv
  <2>3. \A t \in ready' : now' - g <= t
    BY <1>1, <1>2, <2>1, <2>2
  <2>4. I > 0 => next' <= now' + I
    BY <1>1, <1>2, <1>7, <2>1 DEF TakeTick
  <2> QED BY <1>2, <2>1, <2>2, <2>3, <2>4 DEF NoticeInv, ReadyIsNoticed
<1>8. CASE AlreadyGone \/ RequestFails \/ LoopExpires \/ ConditionHolds \/ GetFails \/ GetExpires
  BY <1>8, NoticeReturn
<1>9. CASE BecomeReady
  <2>1. /\ phase \notin Outcomes /\ ready' = {now}
        /\ UNCHANGED <<now, phase, since, begun, next, gets, seen>>
    BY <1>9 DEF BecomeReady
  <2>2. \A t \in ready' : now - g <= t /\ since <= t /\ since - g <= t
    BY <1>1, <1>2, <2>1
  <2> QED BY <1>2, <2>1, <2>2 DEF NoticeInv, ReadyIsNoticed, Outcomes
<1>10. CASE TimePasses
  <2>1. /\ now' = now + 1 /\ UNCHANGED <<phase, since, begun, next, gets, seen, ready>>
        /\ \/ phase \in {"request", "get", "answer"} /\ now < since + MaxGet
           \/ phase = "wait" /\ ~Due
    BY <1>10 DEF TimePasses
  <2>2. phase # "request" => now < d
    BY <1>1, <1>2, <1>10 DEF TimePasses, Expired, Expiry
  <2>3. phase = "wait" => I > 0 /\ now < next /\ next <= since + I
    BY <1>1, <1>2, <2>1 DEF Due, NoticeInv
  <2>4. phase = "wait" => now' <= since' + g
    BY <1>1, <1>2, <2>1, <2>3
  <2>5. phase \in {"get", "answer"} => now' <= since' + MaxGet
    BY <1>1, <2>1
  <2>6. phase = "request" => gets' = 0 /\ since' = 0 /\ now' <= MaxGet
    BY <1>1, <2>1 DEF NoticeInv
  <2>7. phase \in {"get", "answer", "wait"} => now' <= d
    BY <1>1, <1>2, <2>1, <2>2
  <2>8. Deadline' = d /\ phase # "top" /\ phase # "timeout"
    BY <1>2, <2>1
  <2> QED BY <1>2, <2>1, <2>4, <2>5, <2>6, <2>7, <2>8 DEF NoticeInv, ReadyIsNoticed
<1>11. CASE UNCHANGED vars
  BY <1>2, <1>11 DEF vars, NoticeInv, ReadyIsNoticed, Gap
<1> QED BY <1>3, <1>4, <1>5, <1>6, <1>7, <1>8, <1>9, <1>10, <1>11 DEF Next, Operation

(***************************************************************************)
(* A poll that times out did not miss its object, whatever is configured:  *)
(* the object was not ready, or not gone, in time for one more interval    *)
(* and a slow answer before the deadline.                                  *)
(***************************************************************************)
THEOREM PollsMissNothing == Spec => []ReadyIsNoticed
<1>1. NoticeInv => ReadyIsNoticed
  BY DEF NoticeInv
<1> QED BY <1>1, TypeInit, TypeStep, NoticeInit, NoticeStep, PTL DEF Spec
=============================================================================
