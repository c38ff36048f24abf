----------------------- MODULE E2ETestRunObjectProofs -----------------------
(***************************************************************************)
(* One replica: the objects on the onboarding cluster follow the recorded  *)
(* status.  What is recorded as cleaned up is gone, objects go in reverse  *)
(* order, and each step of the reconciler is a step of TestRunPromise or   *)
(* none.  The reason is that the only writer always works on the stored    *)
(* status, so a decision to create or delete is never out of date.         *)
(***************************************************************************)
EXTENDS E2ETestRunCleanupProofs, E2ETestRunImplements

OneReplica == \A p, q \in Replicas : p = q

\* the object of the i-th test case
Object(i) == res[RecordName(SpecTestCases[i])]

(***************************************************************************)
(* The inductive invariant: about the objects and the recorded status ...  *)
(***************************************************************************)
ExportsOfPassed ==
    \A i \in DOMAIN run.status : run.status[i].exports <=> isTestCasePassed(run.status[i])

\* Only the next test case may have an object ahead of its entry, and none once
\* the run has failed.
NotYetBuilt ==
    \A i \in 1..N : i > Len(run.status) =>
        /\ Object(i) # "terminating"
        /\ i > Len(run.status) + 1 \/ HasFailed(run.status) => Object(i) = "absent"

Undecided == ~AllPassed(run.status) /\ ~HasFailed(run.status)
UpUntilVerdict == Undecided => \A i \in DOMAIN run.status : Object(i) = "ready"

PassedEntry(i) == isTestCasePassed(run.status[i])
GoneIfCleaned ==
    \A i \in DOMAIN run.status :
        PassedEntry(i) /\ isTestCaseCleanupSucceeded(run.status[i]) => Object(i) = "absent"
LastGoesFirst ==
    \A i, j \in DOMAIN run.status :
        i < j /\ PassedEntry(i) /\ PassedEntry(j) /\ Object(i) \in {"terminating", "absent"}
        => Object(j) = "absent"

ObjectsInv == /\ ExportsOfPassed /\ NotYetBuilt /\ UpUntilVerdict
              /\ GoneIfCleaned /\ LastGoesFirst

(***************************************************************************)
(* ... and about the worker, for each of its phases.                       *)
(***************************************************************************)
Latest(r)   == pc[r] # "idle" => snap[r].rv = run.rv /\ snap[r].status = run.status
AtPoll(r)   == pc[r] = "poll" => Object(idx[r]) \in {"pending", "ready"}
AtPassed(r) == pc[r] = "recordRun" /\ result[r] => Object(idx[r]) = "ready"
AtGone(r)   == pc[r] = "recordCleanup" /\ result[r] /\ PassedEntry(idx[r]) =>
                   Object(idx[r]) = "absent"

HoldsUp(r) == Latest(r) /\ AtPoll(r) /\ AtPassed(r) /\ AtGone(r)

OneInv == ObjectsInv /\ \A r \in Replicas : HoldsUp(r)

\* what is known of every reachable state without OneReplica
Known == TypeOK /\ JournalInv /\ OrderInv /\ LoopInv

(***************************************************************************)
(* Everything a step can do to what is seen from outside: the run, its age *)
(* and the objects.                                                        *)
(***************************************************************************)
OnlyObject(k) == run' = run /\ aged' = aged /\ \A j \in 1..N : j # k => Object(j)' = Object(j)

\* nothing, or an object gets ready
Unseen ==
    /\ run'.status = run.status /\ run'.exists = run.exists /\ aged' = aged
    /\ \A i \in 1..N : \/ Object(i)' = Object(i)
                       \/ Object(i) = "pending" /\ Object(i)' = "ready"
Creates(k) ==
    /\ Undecided /\ k = Len(run.status) + 1
    /\ Object(k) = "absent" /\ Object(k)' = "pending" /\ OnlyObject(k)
Records(k, ok) ==
    /\ run.exists /\ Undecided /\ k = Len(run.status) + 1
    /\ ok => Object(k) = "ready"
    /\ run'.exists = run.exists
    /\ run'.status = Append(run.status, NewEntry(RecordName(SpecTestCases[k]), ok))
    /\ res' = res /\ aged' = aged
\* the cleanup of the entry k is next: it is not done, and those after it are
CleanupDue(k) ==
    /\ MayDelete /\ k \in DOMAIN run.status
    /\ ~isTestCaseCleanupSucceeded(run.status[k])
    /\ \A j \in DOMAIN run.status : j > k => isTestCaseCleanupSucceeded(run.status[j])
Deletes(k) ==
    /\ CleanupDue(k) /\ PassedEntry(k)
    /\ Object(k) # "absent" /\ Object(k)' = "terminating" /\ OnlyObject(k)
RecordsCleanup(k) ==
    /\ run.exists /\ CleanupDue(k)
    /\ run'.exists = run.exists /\ res' = res /\ aged' = aged
    /\ run'.status \in Stati
    /\ DOMAIN run'.status = DOMAIN run.status /\ Len(run'.status) = Len(run.status)
    /\ \A j \in DOMAIN run.status :
          /\ run'.status[j].run = run.status[j].run
          /\ run'.status[j].exports = run.status[j].exports
          /\ j # k => run'.status[j] = run.status[j]
    /\ isTestCaseCleanupSucceeded(run'.status[k]) /\ PassedEntry(k) => Object(k) = "absent"
Vanishes(k) ==
    /\ Object(k) = "terminating" /\ Object(k)' = "absent" /\ OnlyObject(k)
Ages      == aged' = TRUE /\ run' = run /\ res' = res
Withdrawn == /\ run'.exists = FALSE /\ run'.status = run.status
             /\ res' = res /\ aged' = aged

Effect ==
    \/ Unseen \/ Ages \/ Withdrawn
    \/ \E k \in 1..N : \/ Creates(k) \/ Deletes(k) \/ RecordsCleanup(k) \/ Vanishes(k)
                       \/ \E ok \in BOOLEAN : Records(k, ok)

-----------------------------------------------------------------------------
(* How steps change the objects and the status *)

\* The entries are those of the first test cases, with the objects of these.
LEMMA StatusFacts ==
  ASSUME TypeOK, OrderInv
  PROVE  /\ run.status \in Stati /\ DOMAIN run.status = 1..Len(run.status)
         /\ Len(run.status) \in Nat /\ N \in Nat /\ Len(run.status) <= N
         /\ \A i \in DOMAIN run.status : /\ i \in 1..N /\ i \in Nat
                                         /\ run.status[i] \in Entry(Names)
                                         /\ res[run.status[i].name] = Object(i)
<1>1. /\ run.status \in Stati /\ DOMAIN run.status = 1..Len(run.status)
      /\ Len(run.status) \in Nat /\ N \in Nat
  BY CountOfTestCases DEF TypeOK, Stati
<1>2. Len(run.status) <= N
  BY DEF OrderInv, Good, PrefixOfSpec
<1>3. \A i \in DOMAIN run.status : run.status[i].name = RecordName(SpecTestCases[i])
  BY DEF OrderInv, Good, PrefixOfSpec
<1>4. \A i \in DOMAIN run.status : i \in 1..N /\ i \in Nat
  BY <1>1, <1>2
<1>5. \A i \in DOMAIN run.status : run.status[i] \in Entry(Names)
  BY <1>1 DEF Stati
<1> QED BY <1>1, <1>2, <1>3, <1>4, <1>5 DEF Object

\* The objects of different test cases are different objects.
LEMMA ObjectsApart ==
  ASSUME TypeOK, Distinct, NEW i \in 1..N, NEW v,
         res' = [res EXCEPT ![RecordName(SpecTestCases[i])] = v]
  PROVE  /\ Object(i)' = v
         /\ \A j \in 1..N : j # i => Object(j)' = Object(j)
<1>1. \A j \in 1..N : RecordName(SpecTestCases[j]) \in Names
  BY DEF Names
<1> QED BY <1>1 DEF TypeOK, Distinct, Object

\* The onboarding operators make objects ready and let terminating ones go.
LEMMA ObjectsOnTheirOwn ==
  ASSUME TypeOK, OrderInv, ObjectsInv, run'.status = run.status,
         \A i \in 1..N : \/ Object(i)' = Object(i)
                         \/ Object(i) = "terminating" /\ Object(i)' = "absent"
                         \/ Object(i) = "pending" /\ Object(i)' = "ready"
  PROVE  ObjectsInv'
<1> USE StatusFacts DEF ObjectsInv
<1>1. ExportsOfPassed'
  BY DEF ExportsOfPassed
<1>2. NotYetBuilt'
  BY DEF NotYetBuilt
<1>3. UpUntilVerdict'
  BY DEF UpUntilVerdict, Undecided
<1>4. GoneIfCleaned'
  BY DEF GoneIfCleaned, PassedEntry
<1>5. LastGoesFirst'
  BY DEF LastGoesFirst, PassedEntry
<1> QED BY <1>1, <1>2, <1>3, <1>4, <1>5

\* The next test case creates its object.
LEMMA ObjectsCreate ==
  ASSUME TypeOK, OrderInv, ObjectsInv, run' = run, Undecided,
         NEW k \in 1..N, k = Len(run.status) + 1,
         Object(k) = "absent", Object(k)' = "pending",
         \A j \in 1..N : j # k => Object(j)' = Object(j)
  PROVE  ObjectsInv'
<1> USE StatusFacts DEF ObjectsInv
<1>1. \A i \in DOMAIN run.status : i # k
  OBVIOUS
<1>2. ExportsOfPassed'
  BY DEF ExportsOfPassed
<1>3. NotYetBuilt'
  BY DEF NotYetBuilt, Undecided
<1>4. UpUntilVerdict'
  BY <1>1 DEF UpUntilVerdict, Undecided
<1>5. GoneIfCleaned'
  BY <1>1 DEF GoneIfCleaned, PassedEntry
<1>6. LastGoesFirst'
  BY <1>1 DEF LastGoesFirst, PassedEntry
<1> QED BY <1>2, <1>3, <1>4, <1>5, <1>6

\* The next test case gets its verdict.
LEMMA ObjectsRecord ==
  ASSUME TypeOK, OrderInv, ObjectsInv, res' = res, Undecided,
         NEW k \in 1..N, k = Len(run.status) + 1, NEW ok \in BOOLEAN, NEW n \in Names,
         run'.status = Append(run.status, NewEntry(n, ok)),
         ok => Object(k) = "ready"
  PROVE  ObjectsInv'
<1> DEFINE s == run.status
           t == run'.status
<1>1. /\ s \in Stati /\ DOMAIN s = 1..Len(s) /\ Len(s) \in Nat /\ N \in Nat
      /\ \A i \in DOMAIN s : i \in 1..N /\ i \in Nat
  BY StatusFacts
<1>2. Len(t) = k /\ DOMAIN t = 1..k /\ t[k] = NewEntry(n, ok) /\ \A i \in DOMAIN s : t[i] = s[i]
  BY <1>1 DEF Stati
<1>3. \A i \in DOMAIN t : i \in DOMAIN s \/ i = k
  BY <1>1, <1>2
<1>4. /\ isTestCasePassed(t[k]) <=> ok
      /\ isTestCaseFailed(t[k]) <=> ~ok
      /\ t[k].exports <=> ok
      /\ ~isTestCaseCleanupSucceeded(t[k])
  BY <1>2 DEF NewEntry, isTestCasePassed, isTestCaseFailed, isTestCaseCleanupSucceeded
<1>5. \A i \in DOMAIN s : Object(i) = "ready" /\ Object(i)' = "ready"
  BY DEF ObjectsInv, UpUntilVerdict, Object
<1>6. \A i \in 1..N : Object(i)' = Object(i)
  BY DEF Object
<1> HIDE DEF s, t
<1>7. ExportsOfPassed'
  BY <1>2, <1>3, <1>4 DEF ObjectsInv, ExportsOfPassed, s, t
<1>8. NotYetBuilt'
  <2> SUFFICES ASSUME NEW i \in 1..N, i > k
               PROVE  Object(i)' = "absent"
    BY <1>2 DEF NotYetBuilt, t
  <2>1. i > Len(s) + 1
    BY DEF s
  <2> QED BY <1>1, <1>6, <2>1 DEF ObjectsInv, NotYetBuilt, s
<1>9. UpUntilVerdict'
  <2> SUFFICES ASSUME ~HasFailed(t), NEW i \in DOMAIN t
               PROVE  Object(i)' = "ready"
    BY DEF UpUntilVerdict, Undecided, t
  <2>1. ok
    BY <1>2, <1>4 DEF HasFailed
  <2> QED BY <1>3, <1>5, <1>6, <2>1
<1>10. GoneIfCleaned'
  <2> SUFFICES ASSUME NEW i \in DOMAIN t, isTestCasePassed(t[i]),
                      isTestCaseCleanupSucceeded(t[i])
               PROVE  Object(i)' = "absent"
    BY DEF GoneIfCleaned, PassedEntry, t
  <2>1. i \in DOMAIN s /\ t[i] = s[i]
    BY <1>2, <1>3, <1>4
  <2> QED BY <1>1, <1>6, <2>1 DEF ObjectsInv, GoneIfCleaned, PassedEntry, s
<1>11. LastGoesFirst'
  <2> SUFFICES ASSUME NEW i \in DOMAIN t, NEW j \in DOMAIN t, i < j,
                      Object(i)' \in {"terminating", "absent"}
               PROVE  FALSE
    BY DEF LastGoesFirst, PassedEntry, t
  <2>1. i \in DOMAIN s
    BY <1>1, <1>2 DEF s
  <2> QED BY <1>5, <2>1
<1> QED BY <1>7, <1>8, <1>9, <1>10, <1>11 DEF ObjectsInv

\* The object of a passed test case is deleted; those after it are cleaned up.
LEMMA ObjectsDelete ==
  ASSUME TypeOK, OrderInv, ObjectsInv, run' = run, ~Undecided,
         NEW k \in DOMAIN run.status, ~isTestCaseCleanupSucceeded(run.status[k]),
         \A j \in DOMAIN run.status : j > k => isTestCaseCleanupSucceeded(run.status[j]),
         Object(k) # "absent", Object(k)' = "terminating",
         \A j \in 1..N : j # k => Object(j)' = Object(j)
  PROVE  ObjectsInv'
<1> USE StatusFacts DEF ObjectsInv
<1>1. \A i \in 1..N : i > Len(run.status) => i # k
  OBVIOUS
<1>2. ExportsOfPassed'
  BY DEF ExportsOfPassed
<1>3. NotYetBuilt'
  BY <1>1 DEF NotYetBuilt
<1>4. UpUntilVerdict'
  BY DEF UpUntilVerdict, Undecided
<1>5. GoneIfCleaned'
  BY DEF GoneIfCleaned, PassedEntry
<1>6. LastGoesFirst'
  <2> SUFFICES ASSUME NEW i \in DOMAIN run.status, NEW j \in DOMAIN run.status, i < j,
                      PassedEntry(i), PassedEntry(j), Object(i)' \in {"terminating", "absent"}
               PROVE  Object(j)' = "absent"
    BY DEF LastGoesFirst, PassedEntry
  <2>1. CASE i = k
    <3>1. Object(j) = "absent" /\ j # k
      BY <2>1 DEF GoneIfCleaned
    <3> QED BY <3>1
  <2>2. CASE i # k
    <3>1. Object(j) = "absent"
      BY <2>2 DEF LastGoesFirst
    <3> QED BY <3>1
  <2> QED BY <2>1, <2>2
<1> QED BY <1>2, <1>3, <1>4, <1>5, <1>6

\* The cleanup of an entry is recorded; of a passed one only if its object is gone.
LEMMA ObjectsRecordCleanup ==
  ASSUME TypeOK, OrderInv, ObjectsInv, res' = res,
         NEW k \in DOMAIN run.status, NEW t \in Stati, run'.status = t,
         DOMAIN t = DOMAIN run.status, Len(t) = Len(run.status),
         \A j \in DOMAIN run.status : /\ t[j].run = run.status[j].run
                                      /\ t[j].exports = run.status[j].exports
                                      /\ j # k => t[j] = run.status[j],
         isTestCaseCleanupSucceeded(t[k]) /\ PassedEntry(k) => Object(k) = "absent"
  PROVE  ObjectsInv'
<1> DEFINE s == run.status
<1>1. \A i \in 1..N : Object(i)' = Object(i)
  BY DEF Object
<1>2. \A j \in DOMAIN s : /\ isTestCasePassed(t[j]) <=> isTestCasePassed(s[j])
                          /\ isTestCaseFailed(t[j]) <=> isTestCaseFailed(s[j])
  BY DEF isTestCasePassed, isTestCaseFailed
<1>3. \A i \in DOMAIN s : i \in 1..N
  BY StatusFacts
<1>4. (AllPassed(t) <=> AllPassed(s)) /\ (HasFailed(t) <=> HasFailed(s))
  <2>1. DOMAIN s = 1..Len(s)
    BY StatusFacts
  <2> QED BY <1>2, <2>1 DEF AllPassed, HasFailed
<1> USE DEF ObjectsInv
<1>5. ExportsOfPassed'
  BY <1>2 DEF ExportsOfPassed
<1>6. NotYetBuilt'
  BY <1>1, <1>4 DEF NotYetBuilt
<1>7. UpUntilVerdict'
  BY <1>1, <1>3, <1>4 DEF UpUntilVerdict, Undecided
<1>8. GoneIfCleaned'
  BY <1>1, <1>2, <1>3 DEF GoneIfCleaned, PassedEntry
<1>9. LastGoesFirst'
  BY <1>1, <1>2, <1>3 DEF LastGoesFirst, PassedEntry
<1> QED BY <1>5, <1>6, <1>7, <1>8, <1>9

-----------------------------------------------------------------------------
(* What the worker knows when it acts on an object or on the status *)

\* A test case that is run is the next one, and the run is undecided.
LEMMA NextTestCase ==
  ASSUME Known, Distinct, OneInv, NEW r \in Replicas,
         AtRunCall(r) \/ pc[r] \in {"poll", "recordRun"}
  PROVE  /\ idx[r] \in 1..N /\ idx[r] = Len(run.status) + 1 /\ Undecided
         /\ Object(idx[r]) = res[HereName(r)] /\ snap[r].status = run.status
<1> DEFINE s == snap[r].status
<1>1. /\ s = run.status /\ s \in Stati /\ DOMAIN s = 1..Len(s) /\ Len(s) \in Nat /\ N \in Nat
      /\ idx[r] \in Nat
  BY StatusFacts DEF Known, OneInv, HoldsUp, Latest, AtRunCall, AtReadable, TypeOK
<1>2. idx[r] \in 1..N /\ PassedUpTo(s, idx[r] - 1) /\ idx[r] \notin DOMAIN s
      /\ (pc[r] # "run" => Len(s) = idx[r] - 1)
  <2>1. CASE AtRunCall(r)
    <3>1. idx[r] \in 1..N /\ pc[r] = "run"
      BY <2>1 DEF AtRunCall, AtReadable, Known, TypeOK, InLoop
    <3>2. idx[r] \notin DOMAIN s
      BY <2>1, <3>1, Acting DEF AtRunCall, Known
    <3>3. PassedUpTo(s, idx[r] - 1)
      BY <3>1 DEF Known, OrderInv, PhaseInv, AtRun
    <3> QED BY <3>1, <3>2, <3>3
  <2>2. CASE pc[r] \in {"poll", "recordRun"}
    <3>1. idx[r] \in 1..N /\ Len(s) = idx[r] - 1 /\ PassedUpTo(s, idx[r] - 1)
      BY <2>2 DEF Known, TypeOK, InLoop, OrderInv, PhaseInv, AtTest
    <3> QED BY <1>1, <3>1
  <2> QED BY <2>1, <2>2
<1>3. Len(s) = idx[r] - 1
  <2>1. idx[r] - 1 = 0 \/ idx[r] - 1 \in DOMAIN s
    BY <1>2 DEF PassedUpTo
  <2> QED BY <1>1, <1>2, <2>1
<1>4. ~AllPassed(s)
  BY <1>1, <1>2, <1>3 DEF AllPassed
<1>5. ~HasFailed(s)
  BY <1>1, <1>2, <1>3 DEF HasFailed, PassedUpTo, isTestCasePassed, isTestCaseFailed
<1> QED BY <1>1, <1>2, <1>3, <1>4, <1>5 DEF Undecided, Object, HereName, Here

\* A cleanup is of a recorded entry of a decided run, and those after it are done.
LEMMA NextCleanup ==
  ASSUME Known, Distinct, OneInv, NEW r \in Replicas,
         AtCleanup(r) \/ pc[r] \in {"waitGone", "recordCleanup"}
  PROVE  /\ idx[r] \in DOMAIN run.status /\ MayDelete
         /\ snap[r].status = run.status /\ Object(idx[r]) = res[HereName(r)]
         /\ ~isTestCaseCleanupSucceeded(run.status[idx[r]])
         /\ \A j \in DOMAIN run.status :
                j > idx[r] => isTestCaseCleanupSucceeded(run.status[j])
         /\ AtCleanup(r) => (HereEntry(r).exports <=> PassedEntry(idx[r]))
<1> DEFINE s == snap[r].status
<1>1. s = run.status /\ Cleaning(r)
  BY DEF OneInv, HoldsUp, Latest, Cleaning, AtCleanup, AtReadableCleanup
<1>2. \A j \in DOMAIN s : j > idx[r] => isTestCaseCleanupSucceeded(s[j])
  BY <1>1 DEF Known, LoopInv, LoopAt, LaterCleaned
<1>3. MayDelete
  <2>1. ~stale[r] => AllPassed(s)
    BY CleanupNeedsVerdict DEF AtCleanup, Known, OrderInv, PhaseInv, AtEntry
  <2>2. stale[r] => StaleEnabled /\ aged /\ HasFailed(s)
    BY DEF Known, OrderInv, PhaseInv, AtStale
  <2> QED BY <1>1, <2>1, <2>2 DEF MayDelete
<1>4. ASSUME AtCleanup(r)
      PROVE  idx[r] \in DOMAIN s /\ HereEntry(r) = s[idx[r]] /\ ~isTestCaseCleanupSucceeded(s[idx[r]])
  <2>1. idx[r] \in DOMAIN s /\ AtReadableCleanup(r) /\ HereFound(r)
    BY <1>4, CleanupNeedsVerdict DEF AtCleanup, Cleanable, Known
  <2>2. idx[r] \in 1..N /\ pc[r] # "idle"
    BY <2>1, <1>1, StatusFacts DEF Known, Cleaning
  <2>3. HereEntry(r) = s[idx[r]]
    BY <2>1, <2>2, Acting DEF Known
  <2> QED BY <1>4, <2>1, <2>3 DEF AtCleanup
<1>5. ASSUME pc[r] \in {"waitGone", "recordCleanup"}
      PROVE  idx[r] \in DOMAIN s /\ ~isTestCaseCleanupSucceeded(s[idx[r]])
  <2>1. idx[r] \in DOMAIN s
    BY <1>5 DEF Known, OrderInv, PhaseInv, AtEntry
  <2>2. idx[r] \in 1..N /\ Good(s) /\ s \in Stati
    BY <1>1, <2>1, StatusFacts DEF Known, OrderInv
  <2>3. Position(r) = idx[r]
    BY <2>1, <2>2, FoundInPrefix DEF Position, HereName, Here
  <2> QED BY <1>5, <2>1, <2>3 DEF Known, JournalInv, CleanupPending
<1>6. idx[r] \in DOMAIN s /\ ~isTestCaseCleanupSucceeded(s[idx[r]])
  BY <1>4, <1>5
<1>7. AtCleanup(r) => (HereEntry(r).exports <=> PassedEntry(idx[r]))
  BY <1>1, <1>4 DEF OneInv, ObjectsInv, ExportsOfPassed, PassedEntry
<1> QED BY <1>1, <1>2, <1>3, <1>6, <1>7 DEF Object, HereName, Here

\* A replica whose Reconcile returns has nothing left to uphold.
LEMMA HoldsUpLeft ==
  ASSUME TypeOK, NEW r \in Replicas, Leave(r)
  PROVE  HoldsUp(r)'
  BY DEF TypeOK, Leave, HoldsUp, Latest, AtPoll, AtPassed, AtGone

\* A step that changes neither the run nor an object is not seen from outside.
LEMMA UnseenIfUnchanged ==
  ASSUME run'.status = run.status, run'.exists = run.exists, aged' = aged, res' = res
  PROVE  Unseen
  BY DEF Unseen, Object

\* The object of the current test case changes, and no other.
LEMMA OwnObject ==
  ASSUME Known, Distinct, NEW r \in Replicas, idx[r] \in 1..N, NEW v,
         res' = [res EXCEPT ![HereName(r)] = v], UNCHANGED <<run, idx, aged>>
  PROVE  Object(idx[r])' = v /\ OnlyObject(idx[r])
<1>1. PICK k \in 1..N : k = idx[r]
  OBVIOUS
<1>2. res' = [res EXCEPT ![RecordName(SpecTestCases[k])] = v]
  BY <1>1 DEF HereName, Here
<1>3. Object(k)' = v /\ \A j \in 1..N : j # k => Object(j)' = Object(j)
  BY <1>2, ObjectsApart DEF Known
<1> QED BY <1>1, <1>3 DEF OnlyObject, Object

\* What an accepted update of the status does.
LEMMA UpdateEffect ==
  ASSUME Known, Distinct, OneInv, NEW r \in Replicas, AtUpdate(r), Accepts(r),
         run' = [exists |-> run.exists, rv |-> run.rv + 1, status |-> Updated(r)],
         res' = res, aged' = aged
  PROVE  Effect
<1>1. run.exists /\ run'.exists = run.exists /\ run'.status = Updated(r)
  BY DEF Accepts
<1>2. CASE pc[r] = "recordRun"
  <2>1. /\ idx[r] \in 1..N /\ idx[r] = Len(run.status) + 1 /\ Undecided
        /\ snap[r].status = run.status
    BY <1>2, NextTestCase
  <2>2. Updated(r) = Append(run.status, NewEntry(RecordName(SpecTestCases[idx[r]]), result[r]))
    BY <1>2, <2>1 DEF Updated, AfterRun, HereName, Here
  <2>3. result[r] \in BOOLEAN /\ (result[r] => Object(idx[r]) = "ready")
    BY <1>2 DEF Known, TypeOK, OneInv, HoldsUp, AtPassed
  <2>4. Records(idx[r], result[r])
    BY <1>1, <2>1, <2>2, <2>3 DEF Records
  <2> QED BY <2>1, <2>3, <2>4 DEF Effect
<1>3. CASE pc[r] = "recordCleanup"
  <2> DEFINE t == AfterCleanup(r)
  <2>1. CleanupDue(idx[r]) /\ snap[r].status = run.status /\ idx[r] \in 1..N
    BY <1>3, NextCleanup, StatusFacts DEF CleanupDue, Known
  <2>2. run'.status = t
    BY <1>1, <1>3 DEF Updated
  <2>3. /\ DOMAIN t = DOMAIN run.status /\ Len(t) = Len(run.status) /\ t \in Stati
        /\ \A j \in DOMAIN run.status : /\ t[j].run = run.status[j].run
                                        /\ t[j].exports = run.status[j].exports
                                        /\ j # idx[r] => t[j] = run.status[j]
        /\ isTestCaseCleanupSucceeded(t[idx[r]]) <=> result[r]
    BY <1>3, <2>1, AfterCleanupEffect DEF Known
  <2>4. result[r] /\ PassedEntry(idx[r]) => Object(idx[r]) = "absent"
    BY <1>3 DEF OneInv, HoldsUp, AtGone
  <2> HIDE DEF t
  <2>5. isTestCaseCleanupSucceeded(t[idx[r]]) /\ PassedEntry(idx[r]) => Object(idx[r]) = "absent"
    BY <2>3, <2>4
  <2>6. RecordsCleanup(idx[r])
    BY <1>1, <2>1, <2>2, <2>3, <2>5 DEF RecordsCleanup
  <2> QED BY <2>1, <2>6 DEF Effect
<1> QED BY <1>2, <1>3 DEF AtUpdate

\* The run loop.
LEMMA RunStepSeen ==
  ASSUME Known, Distinct, OneInv, NEW r \in Replicas, RunStep(r)
  PROVE  Effect /\ HoldsUp(r)'
<1>1. TypeOK /\ HoldsUp(r)
  BY DEF Known, OneInv
<1> USE DEF HoldsUp, Latest, AtPoll, AtPassed, AtGone
<1>2. CASE RunAllDone(r) \/ RunSkipsPassed(r) \/ RunStopsAtFailed(r)
  <2>1. /\ pc[r] # "idle" /\ pc'[r] \in {"run", "decide"}
        /\ UNCHANGED <<run, res, snap, aged>>
    BY <1>1, <1>2 DEF RunAllDone, RunSkipsPassed, RunStopsAtFailed, GoTo, AtReadable, TypeOK
  <2> QED BY <1>1, <2>1, UnseenIfUnchanged DEF Effect
<1>3. CASE RunBreaksOff(r)
  BY <1>1, <1>3, HoldsUpLeft, UnseenIfUnchanged DEF Effect, RunBreaksOff, ReturnError
<1>4. CASE RunMalformed(r)
  <2>1. idx[r] \in 1..N /\ Here(r).config = "malformed"
    BY <1>1, <1>4 DEF RunMalformed, TypeOK, InLoop
  <2> QED BY <2>1 DEF Distinct, Here
<1>5. CASE CreateObject(r)
  <2>1. /\ AtRunCall(r) /\ pc[r] = "run" /\ pc'[r] = "poll"
        /\ UNCHANGED <<run, idx, snap, result, aged>>
    BY <1>1, <1>5 DEF CreateObject, AtCreate, AtRunCall, AtReadable, TypeOK
  <2>2. /\ idx[r] \in 1..N /\ idx[r] = Len(run.status) + 1 /\ Undecided
        /\ Object(idx[r]) = res[HereName(r)]
    BY <2>1, NextTestCase
  <2>3. Object(idx[r]) \in Objects \ {"terminating"}
    <3>1. idx[r] > Len(run.status) /\ HereName(r) \in Names
      BY <2>2, StatusFacts, HereNameInNames DEF Known
    <3>2. Object(idx[r]) # "terminating"
      BY <2>2, <3>1 DEF OneInv, ObjectsInv, NotYetBuilt
    <3> QED BY <1>1, <2>2, <3>1, <3>2 DEF TypeOK
  <2>4. CASE Object(idx[r]) = "absent"
    <3>1. res' = [res EXCEPT ![HereName(r)] = "pending"]
      BY <1>5, <2>2, <2>4 DEF CreateObject
    <3>2. Object(idx[r])' = "pending" /\ OnlyObject(idx[r])
      <4> DEFINE v == "pending"
      <4>1. res' = [res EXCEPT ![HereName(r)] = v]
        BY <3>1
      <4> HIDE DEF v
      <4>2. Object(idx[r])' = v /\ OnlyObject(idx[r])
        BY <2>1, <2>2, <4>1, OwnObject
      <4> QED BY <4>2 DEF v
    <3>3. Creates(idx[r])
      BY <2>2, <2>4, <3>2 DEF Creates
    <3> QED BY <1>1, <2>1, <2>2, <3>2, <3>3 DEF Effect, Object
  <2>5. CASE Object(idx[r]) # "absent"
    <3>1. res' = [res EXCEPT ![HereName(r)] = res[HereName(r)]]
      BY <1>5, <2>2, <2>5 DEF CreateObject
    <3>2. res' = res
      BY <1>1, <3>1 DEF TypeOK
    <3> QED BY <1>1, <2>1, <2>3, <2>5, <3>2, UnseenIfUnchanged DEF Effect, Objects, Object
  <2> QED BY <2>4, <2>5
<1>6. CASE RunFails(r)
  <2>1. /\ AtRunCall(r) /\ pc[r] = "run" /\ pc'[r] = "recordRun" /\ result'[r] = FALSE
        /\ UNCHANGED <<run, idx, snap, aged>>
    BY <1>1, <1>6 DEF RunFails, Conclude, AtRunCall, AtReadable, TypeOK
  <2>2. HoldsUp(r)'
    BY <1>1, <2>1
  <2>3. /\ idx[r] \in 1..N /\ idx[r] = Len(run.status) + 1 /\ Undecided
        /\ Object(idx[r]) = res[HereName(r)]
    BY <2>1, NextTestCase
  <2>4. CASE UNCHANGED res
    BY <2>1, <2>2, <2>4, UnseenIfUnchanged DEF Effect
  <2>5. CASE res[HereName(r)] = "absent" /\ res' = [res EXCEPT ![HereName(r)] = "pending"]
    <3>1. Object(idx[r])' = "pending" /\ OnlyObject(idx[r])
      BY <2>1, <2>3, <2>5, OwnObject
    <3>2. Creates(idx[r])
      BY <2>3, <2>5, <3>1 DEF Creates
    <3> QED BY <2>2, <2>3, <3>2 DEF Effect
  <2> QED BY <1>6, <2>4, <2>5 DEF RunFails
<1>7. CASE PollReady(r) \/ PollFails(r)
  <2>1. /\ pc[r] = "poll" /\ pc'[r] = "recordRun" /\ UNCHANGED <<run, res, idx, snap, aged>>
        /\ result'[r] => res[HereName(r)] \in {"ready", "terminating"}
    BY <1>1, <1>7 DEF PollReady, PollFails, Conclude, TypeOK
  <2>2. Object(idx[r]) = res[HereName(r)]
    BY <2>1, NextTestCase
  <2> QED BY <1>1, <2>1, <2>2, UnseenIfUnchanged DEF Effect, Object
<1>8. CASE RecordPassed(r) \/ RecordFailed(r)
  <2>1. /\ pc[r] = "recordRun" /\ AtUpdate(r) /\ Accepts(r) /\ Updated(r) = AfterRun(r)
        /\ UNCHANGED <<res, aged>>
        /\ run' = [exists |-> run.exists, rv |-> run.rv + 1, status |-> AfterRun(r)]
    BY <1>8 DEF RecordPassed, RecordFailed, AtUpdate, Updated, Write
  <2>2. Effect
    BY <2>1, UpdateEffect
  <2>3. CASE RecordPassed(r)
    <3>1. pc'[r] = "run" /\ snap'[r].rv = run'.rv /\ snap'[r].status = run'.status
      BY <1>1, <2>1, <2>3 DEF RecordPassed, GoTo, TypeOK
    <3> QED BY <2>2, <3>1
  <2>4. CASE RecordFailed(r)
    BY <1>1, <2>2, <2>4, HoldsUpLeft DEF RecordFailed
  <2> QED BY <1>8, <2>3, <2>4
<1> QED BY <1>2, <1>3, <1>4, <1>5, <1>6, <1>7, <1>8 DEF RunStep

\* The object of the entry is deleted by a call whose answer may be lost.
LEMMA DeleteSeen ==
  ASSUME Known, Distinct, OneInv, NEW r \in Replicas, AtCleanup(r), HereEntry(r).exports,
         res[HereName(r)] # "absent", res' = [res EXCEPT ![HereName(r)] = "terminating"],
         UNCHANGED <<run, idx, aged>>
  PROVE  Effect
<1>1. /\ CleanupDue(idx[r]) /\ PassedEntry(idx[r]) /\ idx[r] \in 1..N
      /\ Object(idx[r]) = res[HereName(r)]
  BY NextCleanup, StatusFacts DEF CleanupDue, Known
<1>2. Object(idx[r])' = "terminating" /\ OnlyObject(idx[r])
  BY <1>1, OwnObject
<1>3. Deletes(idx[r])
  BY <1>1, <1>2 DEF Deletes
<1> QED BY <1>1, <1>3 DEF Effect

\* The two cleanup loops.
LEMMA CleanupStepSeen ==
  ASSUME Known, Distinct, OneInv, NEW r \in Replicas, CleanupStep(r)
  PROVE  Effect /\ HoldsUp(r)'
<1>1. TypeOK /\ HoldsUp(r)
  BY DEF Known, OneInv
<1> USE DEF HoldsUp, Latest, AtPoll, AtPassed, AtGone
<1>2. CASE \/ DecideWait(r) \/ CleanupAllDone(r) \/ CleanupUnreadable(r) \/ CleanupBreaks(r)
  BY <1>1, <1>2, HoldsUpLeft, UnseenIfUnchanged
  DEF Effect, DecideWait, CleanupAllDone, CleanupUnreadable, CleanupBreaks,
      ReturnLater, ReturnDone, ReturnError
<1>3. CASE \/ DecideStaleCleanup(r) \/ DecideCleanup(r) \/ CleanupSkipsUnregistered(r)
           \/ CleanupSkips(r)
  <2>1. /\ pc[r] # "idle" /\ pc'[r] = "clean"
        /\ UNCHANGED <<run, res, snap, aged>>
    BY <1>1, <1>3 DEF DecideStaleCleanup, DecideCleanup, CleanupSkipsUnregistered,
                      CleanupSkips, GoTo, AtReadableCleanup, TypeOK
  <2> QED BY <1>1, <2>1, UnseenIfUnchanged DEF Effect
<1>4. CASE CleanupNothing(r) \/ DeleteNotFound(r)
  <2>1. /\ AtCleanup(r) /\ pc[r] = "clean" /\ pc'[r] = "recordCleanup"
        /\ UNCHANGED <<run, res, idx, snap, aged>>
        /\ ~HereEntry(r).exports \/ res[HereName(r)] = "absent"
    BY <1>1, <1>4 DEF CleanupNothing, DeleteNotFound, AtCleanup, AtReadableCleanup,
                      Conclude, TypeOK
  <2>2. PassedEntry(idx[r]) => Object(idx[r]) = "absent"
    BY <2>1, NextCleanup
  <2> QED BY <1>1, <2>1, <2>2, UnseenIfUnchanged DEF Effect, Object, PassedEntry
<1>5. CASE DeleteObject(r)
  <2>1. /\ pc[r] # "idle" /\ pc'[r] = "waitGone" /\ UNCHANGED <<run, idx, snap, aged>>
    BY <1>1, <1>5 DEF DeleteObject, AtCleanup, AtReadableCleanup, TypeOK
  <2> QED BY <1>1, <1>5, <2>1, DeleteSeen DEF DeleteObject
<1>6. CASE WaitGone(r)
  <2>1. /\ pc[r] = "waitGone" /\ pc'[r] = "recordCleanup" /\ res[HereName(r)] = "absent"
        /\ UNCHANGED <<run, res, idx, snap, aged>>
    BY <1>1, <1>6 DEF WaitGone, Conclude, TypeOK
  <2>2. Object(idx[r]) = "absent"
    BY <2>1, NextCleanup
  <2> QED BY <1>1, <2>1, <2>2, UnseenIfUnchanged DEF Effect, Object, PassedEntry
<1>7. CASE RecordCleaned(r) \/ RecordCleanupError(r)
  <2>1. /\ pc[r] = "recordCleanup" /\ AtUpdate(r) /\ Accepts(r)
        /\ Updated(r) = AfterCleanup(r) /\ UNCHANGED <<res, aged>>
        /\ run' = [exists |-> run.exists, rv |-> run.rv + 1, status |-> AfterCleanup(r)]
    BY <1>7 DEF RecordCleaned, RecordCleanupError, AtUpdate, Updated, Write
  <2>2. Effect
    BY <2>1, UpdateEffect
  <2>3. CASE RecordCleaned(r)
    <3>1. pc'[r] = "clean" /\ snap'[r].rv = run'.rv /\ snap'[r].status = run'.status
      BY <1>1, <2>1, <2>3 DEF RecordCleaned, GoTo, TypeOK
    <3> QED BY <2>2, <3>1
  <2>4. CASE RecordCleanupError(r)
    BY <1>1, <2>2, <2>4, HoldsUpLeft DEF RecordCleanupError
  <2> QED BY <1>7, <2>3, <2>4
<1> QED BY <1>2, <1>3, <1>4, <1>5, <1>6, <1>7 DEF CleanupStep

\* The fetch, the rejected update and the faults.
LEMMA OtherStepSeen ==
  ASSUME Known, Distinct, OneInv, NEW r \in Replicas,
         \/ FetchFound(r) \/ FetchNotFound(r) \/ UpdateRejected(r) \/ FaultStep(r)
  PROVE  Effect /\ HoldsUp(r)'
<1>1. TypeOK /\ HoldsUp(r)
  BY DEF Known, OneInv
<1> USE DEF HoldsUp, Latest, AtPoll, AtPassed, AtGone, Fault
<1>2. CASE FetchFound(r)
  <2>1. /\ pc'[r] = "run" /\ snap'[r] = [rv |-> run.rv, status |-> run.status]
        /\ UNCHANGED <<run, res, aged>>
    BY <1>1, <1>2 DEF FetchFound, GoTo, TypeOK
  <2> QED BY <2>1, UnseenIfUnchanged DEF Effect
<1>3. CASE FetchNotFound(r) \/ FetchFails(r)
  BY <1>1, <1>3, UnseenIfUnchanged
  DEF Effect, FetchNotFound, FetchFails, local, Object, PassedEntry
<1>4. CASE UpdateRejected(r) \/ UpdateFails(r) \/ Crash(r)
  BY <1>1, <1>4, HoldsUpLeft, UnseenIfUnchanged
  DEF Effect, UpdateRejected, UpdateFails, Crash, ReturnError
<1>5. CASE DeleteFails(r)
  <2>1. /\ AtCleanup(r) /\ HereEntry(r).exports /\ pc[r] # "idle"
        /\ pc'[r] = "recordCleanup" /\ ~result'[r] /\ UNCHANGED <<run, idx, snap, aged>>
    BY <1>1, <1>5 DEF DeleteFails, AtCleanup, AtReadableCleanup, Conclude, TypeOK
  <2>2. HoldsUp(r)'
    BY <1>1, <2>1
  <2>3. CASE UNCHANGED res
    BY <2>1, <2>2, <2>3, UnseenIfUnchanged DEF Effect
  <2>4. CASE res[HereName(r)] # "absent" /\ res' = [res EXCEPT ![HereName(r)] = "terminating"]
    BY <2>1, <2>2, <2>4, DeleteSeen
  <2> QED BY <1>5, <2>3, <2>4 DEF DeleteFails
<1>6. CASE WaitGoneFails(r)
  <2>1. /\ pc[r] # "idle" /\ pc'[r] = "recordCleanup" /\ ~result'[r]
        /\ UNCHANGED <<run, res, snap, aged>>
    BY <1>1, <1>6 DEF WaitGoneFails, Conclude, TypeOK
  <2> QED BY <1>1, <2>1, UnseenIfUnchanged DEF Effect
<1>7. CASE UpdateLost(r)
  <2>1. /\ AtUpdate(r) /\ Accepts(r) /\ UNCHANGED <<res, aged>> /\ Leave(r)
        /\ run' = [exists |-> run.exists, rv |-> run.rv + 1, status |-> Updated(r)]
    BY <1>7 DEF UpdateLost, Write
  <2> QED BY <1>1, <2>1, UpdateEffect, HoldsUpLeft
<1> QED BY <1>2, <1>3, <1>4, <1>5, <1>6, <1>7 DEF FaultStep

\* What happens around the only worker does not disturb what it knows.
LEMMA EnvironmentSeen ==
  ASSUME Known, Distinct, OneInv, Environment \/ UNCHANGED vars
  PROVE  Effect /\ \A r \in Replicas : HoldsUp(r)'
<1>1. TypeOK /\ \A r \in Replicas : HoldsUp(r)
  BY DEF Known, OneInv
<1> USE DEF HoldsUp, Latest, AtPoll, AtPassed, AtGone
<1>2. ASSUME UNCHANGED <<local, res>>, run'.rv = run.rv, run'.status = run.status
      PROVE  \A r \in Replicas : HoldsUp(r)'
  BY <1>1, <1>2 DEF local, Object, PassedEntry
<1>3. CASE \/ \E r \in Replicas : Resync(r) \/ TimerFires(r)
           \/ UNCHANGED vars
  <2>1. UNCHANGED <<local, run, res, aged>>
    BY <1>3 DEF Resync, TimerFires, vars, local
  <2> QED BY <1>2, <2>1, UnseenIfUnchanged DEF Effect
<1>4. CASE Age
  BY <1>2, <1>4 DEF Age, Effect, Ages
<1>5. CASE UserDeletes
  <2>1. run'.exists = FALSE /\ run'.status = run.status /\ run'.rv = run.rv
    BY <1>1, <1>5 DEF UserDeletes, TypeOK
  <2> QED BY <1>2, <1>5, <2>1 DEF UserDeletes, Effect, Withdrawn
<1>6. ASSUME NEW n \in Names, BecomeReady(n) \/ FinishDeletion(n)
      PROVE  Effect /\ \A r \in Replicas : HoldsUp(r)'
  <2>1. PICK k \in 1..N : n = RecordName(SpecTestCases[k])
    BY DEF Names
  <2>2. UNCHANGED <<run, local, aged>>
    BY <1>6 DEF BecomeReady, FinishDeletion
  <2>3. /\ \/ Object(k) = "pending" /\ Object(k)' = "ready"
           \/ Object(k) = "terminating" /\ Object(k)' = "absent"
        /\ \A j \in 1..N : j # k => Object(j)' = Object(j)
    <3>1. CASE BecomeReady(n)
      <4>1. res' = [res EXCEPT ![RecordName(SpecTestCases[k])] = "ready"]
        BY <2>1, <3>1 DEF BecomeReady
      <4>2. Object(k) = "pending"
        BY <2>1, <3>1 DEF BecomeReady, Object
      <4>3. Object(k)' = "ready" /\ \A j \in 1..N : j # k => Object(j)' = Object(j)
        BY <1>1, <4>1, ObjectsApart
      <4> QED BY <4>2, <4>3
    <3>2. CASE FinishDeletion(n)
      <4>1. res' = [res EXCEPT ![RecordName(SpecTestCases[k])] = "absent"]
        BY <2>1, <3>2 DEF FinishDeletion
      <4>2. Object(k) = "terminating"
        BY <2>1, <3>2 DEF FinishDeletion, Object
      <4>3. Object(k)' = "absent" /\ \A j \in 1..N : j # k => Object(j)' = Object(j)
        BY <1>1, <4>1, ObjectsApart
      <4> QED BY <4>2, <4>3
    <3> QED BY <1>6, <3>1, <3>2
  <2>4. Unseen \/ Vanishes(k)
    BY <2>2, <2>3 DEF Unseen, Vanishes, OnlyObject
  <2>5. ASSUME NEW r \in Replicas, pc[r] \in {"poll", "recordRun", "recordCleanup"}
        PROVE  \/ Object(idx[r])' = Object(idx[r])
               \/ Object(idx[r]) = "pending" /\ Object(idx[r])' = "ready"
               \/ Object(idx[r]) = "terminating" /\ Object(idx[r])' = "absent"
    <3>1. PICK i \in 1..N : i = idx[r]
      BY <1>1, <2>5 DEF TypeOK, InLoop
    <3>2. \/ Object(i)' = Object(i)
          \/ Object(i) = "pending" /\ Object(i)' = "ready"
          \/ Object(i) = "terminating" /\ Object(i)' = "absent"
      BY <2>3
    <3>3. i = idx'[r]
      BY <2>2, <3>1 DEF local
    <3> QED BY <3>1, <3>2, <3>3 DEF Object
  <2>6. ASSUME NEW r \in Replicas PROVE HoldsUp(r)'
    BY <1>1, <2>2, <2>5 DEF local, PassedEntry
  <2> QED BY <2>4, <2>6 DEF Effect
<1> QED BY <1>3, <1>4, <1>5, <1>6 DEF Environment

\* Every step has one of the effects, and leaves every worker well informed.
LEMMA StepSeen ==
  ASSUME Known, Distinct, OneReplica, OneInv, [Next]_vars
  PROVE  Effect /\ \A r \in Replicas : HoldsUp(r)'
<1>1. ASSUME NEW r \in Replicas, Worker(r) \/ FaultStep(r)
      PROVE  Effect /\ HoldsUp(r)'
  BY <1>1, RunStepSeen, CleanupStepSeen, OtherStepSeen DEF Worker
<1> QED BY <1>1, EnvironmentSeen DEF Next, OneReplica

\* Whatever the effect of a step, the objects keep following the status.
LEMMA ObjectsInvKept ==
  ASSUME Known, Distinct, OneInv, Effect
  PROVE  ObjectsInv'
<1>1. TypeOK /\ OrderInv /\ ObjectsInv
  BY DEF Known, OneInv
<1>2. CASE Unseen
  BY <1>1, <1>2, ObjectsOnTheirOwn DEF Unseen
<1>3. CASE Ages \/ Withdrawn
  BY <1>1, <1>3, ObjectsOnTheirOwn DEF Ages, Withdrawn, Object
<1>4. ASSUME NEW k \in 1..N, Creates(k) PROVE ObjectsInv'
  BY <1>1, <1>4, ObjectsCreate DEF Creates, OnlyObject
<1>5. ASSUME NEW k \in 1..N, NEW ok \in BOOLEAN, Records(k, ok) PROVE ObjectsInv'
  <2>1. RecordName(SpecTestCases[k]) \in Names
    BY DEF Names
  <2> QED BY <1>1, <1>5, <2>1, ObjectsRecord DEF Records
<1>6. ASSUME NEW k \in 1..N, Deletes(k) PROVE ObjectsInv'
  <2>1. ~Undecided
    BY <1>6 DEF Deletes, CleanupDue, MayDelete, Undecided
  <2> QED BY <1>1, <1>6, <2>1, ObjectsDelete DEF Deletes, CleanupDue, OnlyObject
<1>7. ASSUME NEW k \in 1..N, RecordsCleanup(k) PROVE ObjectsInv'
  BY <1>1, <1>7, ObjectsRecordCleanup DEF RecordsCleanup, CleanupDue
<1>8. ASSUME NEW k \in 1..N, Vanishes(k) PROVE ObjectsInv'
  BY <1>1, <1>8, ObjectsOnTheirOwn DEF Vanishes, OnlyObject
<1> QED BY <1>2, <1>3, <1>4, <1>5, <1>6, <1>7, <1>8 DEF Effect

\* So the objects follow the status in every reachable state.
LEMMA OneInvariant ==
  ASSUME Distinct, OneReplica PROVE Spec => [](Known /\ OneInv)
<1>1. ASSUME Init PROVE OneInv
  <2>1. ObjectsInv
    <3>1. \A i \in 1..N : Object(i) = "absent"
      BY <1>1 DEF Init, Object, Names
    <3>2. run.status = <<>>
      BY <1>1 DEF Init
    <3> QED BY <3>1, <3>2 DEF ObjectsInv, ExportsOfPassed, NotYetBuilt, UpUntilVerdict,
               GoneIfCleaned, LastGoesFirst
  <2>2. \A r \in Replicas : HoldsUp(r)
    BY <1>1 DEF Init, HoldsUp, Latest, AtPoll, AtPassed, AtGone
  <2> QED BY <2>1, <2>2 DEF OneInv
<1>2. Known /\ OneInv /\ [Next]_vars => OneInv'
  BY StepSeen, ObjectsInvKept DEF OneInv
<1>3. Spec => []Known
  BY LoopInvariant DEF Known
<1> QED BY <1>1, <1>2, <1>3, PTL DEF Spec

(***************************************************************************)
(* One replica: an entry that says "passed" and "cleaned up" has no object *)
(* left, in every later state: neither a restart nor a lost answer lets the*)
(* reconciler create it again or record the deletion too early.            *)
(***************************************************************************)
THEOREM WhatIsCleanedIsGone ==
  ASSUME Distinct, OneReplica PROVE Spec => []CleanedMeansGone
<1>1. Known /\ OneInv => CleanedMeansGone
  BY StatusFacts DEF Known, OneInv, ObjectsInv, GoneIfCleaned, PassedEntry, CleanedMeansGone
<1> QED BY <1>1, OneInvariant, PTL

(***************************************************************************)
(* One replica: an object is touched only when those created after it are  *)
(* gone, whatever errors and restarts interrupt the cleanup.               *)
(***************************************************************************)
THEOREM ObjectsGoInReverse ==
  ASSUME Distinct, OneReplica PROVE Spec => []ReverseOrder
<1>1. Known /\ OneInv => ReverseOrder
  BY StatusFacts
  DEF Known, OneInv, ObjectsInv, LastGoesFirst, PassedEntry, ReverseOrder, Going
<1> QED BY <1>1, OneInvariant, PTL

-----------------------------------------------------------------------------
(* The refinement of TestRunPromise *)

\* the values of the mapped variables
Verdicts == [i \in DOMAIN run.status |-> run.status[i].run]
Done     == {i \in DOMAIN run.status : isTestCaseCleanupSucceeded(run.status[i])}
Shown    == [i \in 1..N |-> Seen(Object(i))]

\* What the promise sees of an object in each of its states.
LEMMA SeenValues ==
  /\ Seen("absent") = "absent" /\ Seen("pending") = "up"
  /\ Seen("ready") = "up" /\ Seen("terminating") = "going"
  BY DEF Seen

\* What the promise says of the mapped variables, in terms of the status.
LEMMA PromiseFacts ==
  ASSUME Known
  PROVE  /\ Verdicts \in Seq({"passed", "failed"}) /\ Len(Verdicts) = Len(run.status)
         /\ DOMAIN Verdicts = DOMAIN run.status
         /\ \A i : Promise!Passed(i) <=> i \in DOMAIN run.status /\ PassedEntry(i)
         /\ Promise!Open <=> Undecided
         /\ Promise!Released <=> MayDelete
<1> DEFINE s == run.status
<1>1. /\ DOMAIN s = 1..Len(s) /\ Len(s) \in Nat /\ N \in Nat /\ Len(s) <= N
      /\ \A i \in DOMAIN s : s[i] \in Entry(Names) /\ i \in 1..N
  BY StatusFacts DEF Known
<1>2. \A i \in DOMAIN s : s[i].run \in {"passed", "failed"}
  BY <1>1 DEF Entry
<1>3. Verdicts \in Seq({"passed", "failed"}) /\ Len(Verdicts) = Len(s) /\ DOMAIN Verdicts = DOMAIN s
  BY <1>1, <1>2 DEF Verdicts
<1>4. \A i \in DOMAIN s : Verdicts[i] = s[i].run
  BY DEF Verdicts
<1>5. \A i : Promise!Passed(i) <=> i \in DOMAIN s /\ PassedEntry(i)
  BY <1>3, <1>4 DEF Promise!Passed, PassedEntry, isTestCasePassed, Verdicts
<1>6. Promise!Failed <=> HasFailed(s)
  BY <1>3, <1>4 DEF Promise!Failed, HasFailed, isTestCaseFailed, Verdicts
<1>7. AllPassed(s) <=> Len(s) = N /\ ~HasFailed(s)
  BY <1>1, <1>2 DEF AllPassed, HasFailed, isTestCasePassed, isTestCaseFailed
<1>8. Promise!Open <=> Len(s) < N /\ ~HasFailed(s)
  BY <1>3, <1>6 DEF Promise!Open, Verdicts
<1>9. Promise!Released <=> MayDelete
  BY <1>3, <1>6, <1>7 DEF Promise!Released, MayDelete, Verdicts
<1>10. Undecided <=> Len(s) < N /\ ~HasFailed(s)
  BY <1>1, <1>7 DEF Undecided
<1> QED BY <1>3, <1>5, <1>8, <1>9, <1>10

\* An effect on one object alone is what the promise sees of it.
LEMMA OneObjectShown ==
  ASSUME NEW k \in 1..N, OnlyObject(k)
  PROVE  /\ Verdicts' = Verdicts /\ Done' = Done
         /\ Shown' = [Shown EXCEPT ![k] = Seen(Object(k)')]
<1>1. Verdicts' = Verdicts /\ Done' = Done
  BY DEF OnlyObject, Verdicts, Done
<1>2. \A i \in 1..N : Seen(Object(i))' = IF i = k THEN Seen(Object(k)') ELSE Seen(Object(i))
  BY DEF OnlyObject
<1>3. Shown' = [Shown EXCEPT ![k] = Seen(Object(k)')]
  BY <1>2 DEF Shown
<1> QED BY <1>1, <1>3

\* Every effect of a step is a step of the promise, or none.
LEMMA EffectKeepsPromise ==
  ASSUME Known, OneInv, Effect
  PROVE  [Promise!Next]_(Promise!promised)
<1> USE SeenValues
<1>1. ObjectsInv /\ TypeOK
  BY DEF Known, OneInv
<1>2. /\ DOMAIN run.status = 1..Len(run.status) /\ Len(run.status) \in Nat /\ N \in Nat
      /\ \A i \in DOMAIN run.status : run.status[i] \in Entry(Names) /\ i \in 1..N
      /\ run.status \in Stati
  BY StatusFacts DEF Known
<1>3. CASE Unseen
  <2>1. Verdicts' = Verdicts /\ Done' = Done
    BY <1>3 DEF Unseen, Verdicts, Done
  <2>2. \A i \in 1..N : Seen(Object(i)') = Seen(Object(i))
    BY <1>3 DEF Unseen
  <2>3. Shown' = Shown
    BY <2>2 DEF Shown
  <2> QED BY <1>3, <2>1, <2>3 DEF Unseen, Promise!promised, Verdicts, Done, Shown, Object
<1>4. CASE Ages
  <2>1. Verdicts' = Verdicts /\ Done' = Done /\ Shown' = Shown
    BY <1>4 DEF Ages, Verdicts, Done, Shown, Object
  <2>2. Promise!GrowOld
    BY <1>4, <2>1 DEF Ages, Promise!GrowOld, Verdicts, Done, Shown, Object
  <2> QED BY <2>2 DEF Promise!Next
<1>5. CASE Withdrawn
  <2>1. Verdicts' = Verdicts /\ Done' = Done /\ Shown' = Shown
    BY <1>5 DEF Withdrawn, Verdicts, Done, Shown, Object
  <2>2. Promise!Withdraw
    BY <1>5, <2>1 DEF Withdrawn, Promise!Withdraw, Verdicts, Done, Shown, Object
  <2> QED BY <2>2 DEF Promise!Next
<1>6. ASSUME NEW k \in 1..N, Creates(k) PROVE Promise!Next
  <2>1. /\ Verdicts' = Verdicts /\ Done' = Done /\ Shown' = [Shown EXCEPT ![k] = "up"]
        /\ run'.exists = run.exists /\ aged' = aged
    BY <1>6, OneObjectShown DEF Creates, OnlyObject
  <2>2. Promise!Open /\ k = Len(Verdicts) + 1 /\ Shown[k] = "absent"
    BY <1>6, PromiseFacts DEF Creates, Shown
  <2>3. Promise!Build(k)
    BY <2>1, <2>2 DEF Promise!Build, Verdicts, Done, Shown, Object
  <2> QED BY <2>3 DEF Promise!Next
<1>7. ASSUME NEW k \in 1..N, Vanishes(k) PROVE Promise!Next
  <2>1. /\ Verdicts' = Verdicts /\ Done' = Done /\ Shown' = [Shown EXCEPT ![k] = "absent"]
        /\ run'.exists = run.exists /\ aged' = aged
    BY <1>7, OneObjectShown DEF Vanishes, OnlyObject
  <2>2. Shown[k] = "going"
    BY <1>7 DEF Vanishes, Shown
  <2>3. Promise!Vanish(k)
    BY <2>1, <2>2 DEF Promise!Vanish, Verdicts, Done, Shown, Object
  <2> QED BY <2>3 DEF Promise!Next
<1>8. ASSUME NEW k \in 1..N, Deletes(k) PROVE [Promise!Next]_(Promise!promised)
  <2>1. /\ Verdicts' = Verdicts /\ Done' = Done /\ Shown' = [Shown EXCEPT ![k] = "going"]
        /\ run'.exists = run.exists /\ aged' = aged
    BY <1>8, OneObjectShown DEF Deletes, OnlyObject
  <2>2. Promise!Released /\ Promise!Passed(k)
    BY <1>8, PromiseFacts DEF Deletes, CleanupDue
  <2>3. \A j \in (k + 1)..N : Promise!Passed(j) => Shown[j] = "absent"
    <3> SUFFICES ASSUME NEW j \in (k + 1)..N, Promise!Passed(j)
                 PROVE  Object(j) = "absent" /\ j \in 1..N
      BY DEF Shown
    <3>1. j \in DOMAIN run.status /\ PassedEntry(j) /\ j > k
      BY PromiseFacts
    <3>2. isTestCaseCleanupSucceeded(run.status[j])
      BY <1>8, <3>1 DEF Deletes, CleanupDue
    <3> QED BY <1>1, <1>2, <3>1, <3>2 DEF ObjectsInv, GoneIfCleaned
  <2>4. CASE Object(k) = "terminating"
    <3>1. Shown' = Shown
      BY <2>1, <2>4 DEF Shown
    <3> QED BY <2>1, <3>1 DEF Promise!promised, Verdicts, Done, Shown, Object
  <2>5. CASE Object(k) # "terminating"
    <3>1. Object(k) \in {"pending", "ready"}
      <4>1. Object(k) \in Objects
        BY <1>1 DEF TypeOK, Object, Names
      <4> QED BY <1>8, <2>5, <4>1 DEF Objects, Deletes
    <3>2. Shown[k] = "up"
      BY <3>1 DEF Shown
    <3>3. Promise!TakeDown(k)
      BY <2>1, <2>2, <2>3, <3>2 DEF Promise!TakeDown, Verdicts, Done, Shown, Object
    <3> QED BY <3>3 DEF Promise!Next
  <2> QED BY <2>4, <2>5
<1>9. ASSUME NEW k \in 1..N, NEW ok \in BOOLEAN, Records(k, ok) PROVE Promise!Next
  <2> DEFINE v == IF ok THEN "passed" ELSE "failed"
             e == NewEntry(RecordName(SpecTestCases[k]), ok)
             t == run'.status
  <2>1. /\ t = Append(run.status, e) /\ k = Len(run.status) + 1
        /\ e.run = v /\ ~isTestCaseCleanupSucceeded(e)
    BY <1>9 DEF Records, NewEntry, isTestCaseCleanupSucceeded
  <2>2. DOMAIN t = 1..k /\ t[k] = e /\ \A i \in DOMAIN run.status : t[i] = run.status[i]
    BY <1>2, <2>1 DEF Stati
  <2>3. Shown' = Shown /\ run'.exists = run.exists /\ aged' = aged
    BY <1>9 DEF Records, Shown, Object
  <2> HIDE DEF e, t
  <2>4. Done' = Done
    BY <1>2, <2>1, <2>2 DEF Done, t
  <2>5. Verdicts' = Append(Verdicts, v)
    <3>1. Verdicts' = [i \in 1..k |-> t[i].run]
      BY <2>2 DEF Verdicts, t
    <3>2. Verdicts \in Seq({"passed", "failed"}) /\ Len(Verdicts) = k - 1
          /\ \A i \in 1..(k - 1) : Verdicts[i] = run.status[i].run
      BY <1>2, <2>1, PromiseFacts DEF Verdicts
    <3>3. \A i \in 1..(k - 1) : t[i].run = Verdicts[i]
      BY <1>2, <2>1, <2>2, <3>2
    <3>4. Append(Verdicts, v) = [i \in 1..k |-> IF i = k THEN v ELSE Verdicts[i]]
      BY <1>2, <2>1, <3>2
    <3>5. \A i \in 1..k : t[i].run = IF i = k THEN v ELSE Verdicts[i]
      BY <1>2, <2>1, <2>2, <3>3
    <3> QED BY <3>1, <3>4, <3>5
  <2>6. run.exists /\ Promise!Open
    BY <1>9, PromiseFacts DEF Records
  <2>7. v = "passed" => Shown[Len(Verdicts) + 1] = "up"
    BY <1>9, PromiseFacts DEF Records, Shown
  <2>8. Promise!Record(v)
    BY <2>3, <2>4, <2>5, <2>6, <2>7 DEF Promise!Record, Verdicts, Done, Shown, Object
  <2> QED BY <2>8 DEF Promise!Next
<1>10. ASSUME NEW k \in 1..N, RecordsCleanup(k) PROVE [Promise!Next]_(Promise!promised)
  <2> DEFINE t == run'.status
  <2>1. Verdicts' = Verdicts
    BY <1>10 DEF RecordsCleanup, Verdicts
  <2>2. Shown' = Shown /\ run'.exists = run.exists /\ aged' = aged
    BY <1>10 DEF RecordsCleanup, Shown, Object
  <2>3. CleanupDue(k) /\ run.exists /\ k \in DOMAIN run.status
    BY <1>10 DEF RecordsCleanup, CleanupDue
  <2>4. Done' = IF isTestCaseCleanupSucceeded(t[k]) THEN Done \cup {k} ELSE Done
    BY <1>10, <2>3 DEF RecordsCleanup, CleanupDue, Done
  <2>5. CASE isTestCaseCleanupSucceeded(t[k])
    <3>1. Promise!Released /\ k \in DOMAIN Verdicts \ Done
      BY <2>3, PromiseFacts DEF CleanupDue, Done
    <3>2. \A j \in DOMAIN Verdicts : j > k => j \in Done
      BY <2>3, PromiseFacts DEF CleanupDue, Done
    <3>3. Promise!Passed(k) => Shown[k] = "absent"
      BY <1>10, <2>5, PromiseFacts DEF RecordsCleanup, Shown
    <3>4. Promise!RecordClean(k)
      BY <2>1, <2>2, <2>3, <2>4, <2>5, <3>1, <3>2, <3>3
      DEF Promise!RecordClean, Verdicts, Done, Shown, Object
    <3> QED BY <3>4 DEF Promise!Next
  <2>6. CASE ~isTestCaseCleanupSucceeded(t[k])
    BY <2>1, <2>2, <2>4, <2>6 DEF Promise!promised, Verdicts, Done, Shown, Object
  <2> QED BY <2>5, <2>6
<1> QED BY <1>3, <1>4, <1>5, <1>6, <1>7, <1>8, <1>9, <1>10 DEF Effect

(***************************************************************************)
(* One replica: seen from outside, the reconciler with its snapshots, its  *)
(* conflicts, its lost answers and its restarts does nothing that the short*)
(* TestRunPromise does not allow.                                          *)
(***************************************************************************)
THEOREM PromiseKept ==
  ASSUME Distinct, OneReplica PROVE Spec => ImplementsPromise
<1>1. Init => Promise!Init
  <2> SUFFICES ASSUME Init PROVE Promise!Init
    OBVIOUS
  <2>1. run.exists = TRUE /\ run.status = <<>> /\ aged = FALSE
    BY DEF Init
  <2>2. Verdicts = <<>> /\ Done = {}
    BY <2>1 DEF Verdicts, Done
  <2>3. \A i \in 1..N : Object(i) = "absent"
    BY DEF Init, Object, Names
  <2>4. Shown = [i \in 1..N |-> "absent"]
    BY <2>3, SeenValues DEF Shown
  <2> QED BY <2>1, <2>2, <2>4 DEF Promise!Init, Verdicts, Done, Shown, Object
<1>2. Known /\ OneInv /\ [Next]_vars => [Promise!Next]_(Promise!promised)
  BY StepSeen, EffectKeepsPromise
<1> QED BY <1>1, <1>2, OneInvariant, PTL DEF Spec, ImplementsPromise, Promise!Spec
=============================================================================
