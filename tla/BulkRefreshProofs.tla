------------------------- MODULE BulkRefreshProofs -------------------------
(***************************************************************************)
(* Theorems about BulkRefresh, for any number of entries, operations,      *)
(* requests and faults.                                                    *)
(***************************************************************************)
EXTENDS BulkRefresh, TLAPS

Sum(n) == n.succeeded + n.failed + n.skipped

\* What the counters say of the work done when the goroutine is at p.
Tallied(p, n) ==
  /\ p \in {"first", "list"} => n = Zero
  /\ p = "item" => Sum(n) = n.started
  /\ p = "warm" => Sum(n) + 1 = n.started
  /\ p = "final" => /\ Sum(n) \in {n.started, n.started + 1}
                    /\ n.failed = 0 => Sum(n) = NumItems

Active(j) == jpc[j] \notin {"none", "gone"}

\* A request that looks at the lock has a state in hand.
HasSeen == \A c \in Callers : cpc[c] \in {"check", "mark"} => seen[c] \in BulkState

\* An identifier not given out yet has no goroutine, and every goroutine's
\* counters match what it has done.
JobsInv ==
  \A j \in Jobs :
    /\ j > lastJob => jpc[j] = "none"
    /\ jpc[j] = "none" => counts[j] = Zero
    /\ Tallied(jpc[j], counts[j])

BulkInv ==
  /\ TypeOK
  /\ HasSeen
  /\ OneOperation
  /\ JobsInv
  /\ SucceededMeansAll
  /\ EveryItemCounted

LEMMA ZeroCounts == Zero \in Counts
BY BulkAssumption DEF BulkAssumption, Zero, Counts

LEMMA BulkInvInit == Init => BulkInv
<1> SUFFICES ASSUME Init PROVE BulkInv
  OBVIOUS
<1> USE DEF Init
<1>1. TypeOK
  <2>1. 0 \in 0..MaxJobs /\ 0 \in 0..MaxFaults
    BY BulkAssumption DEF BulkAssumption
  <2>2. counts \in [Jobs -> Counts]
    BY ZeroCounts
  <2>3. QED
    BY <2>1, <2>2 DEF TypeOK, JobState, CallerState
<1>2. HasSeen /\ OneOperation /\ JobsInv
  BY DEF HasSeen, OneOperation, JobsInv, Tallied
<1>3. SucceededMeansAll /\ EveryItemCounted
  BY DEF SucceededMeansAll, EveryItemCounted
<1>4. QED
  BY <1>1, <1>2, <1>3 DEF BulkInv

\* The persisted state is the old one, or one that claims no outcome.
LEMMA NothingClaimed ==
  ASSUME BulkInv,
         \/ bulkState' \in {bulkState, None}
         \/ bulkState' # None /\ bulkState'.status \in {"refreshing", "interrupted"}
  PROVE  SucceededMeansAll' /\ EveryItemCounted'
BY DEF BulkInv, SucceededMeansAll, EveryItemCounted, Outcomes

LEMMA StateTyped ==
  ASSUME NEW s \in Status, NEW j \in Jobs, NEW n \in Counts
  PROVE  /\ State(s, j, n) \in BulkState
         /\ State(s, j, n) # None
         /\ State(s, j, n).status = s
         /\ State(s, j, n).id = j
         /\ State(s, j, n).counts = n
BY BulkAssumption DEF BulkAssumption, State, BulkState

\* A fault is counted within its bound.
LEMMA FaultsBounded ==
  ASSUME TypeOK, NEW f, Fails(f) \/ UNCHANGED faults
  PROVE  faults' \in 0..MaxFaults
BY BulkAssumption DEF BulkAssumption, TypeOK, Fails

\* The goroutine of j goes from one place to the next, with counters n.
LEMMA JobAdvances ==
  ASSUME BulkInv,
         NEW j \in Jobs, Active(j),
         NEW p \in JobState \ {"none"}, Goes(j, p),
         NEW n \in Counts, counts' = [counts EXCEPT ![j] = n], Tallied(p, n),
         bulkState' \in {bulkState, State("refreshing", j, n)},
         UNCHANGED <<bulkLock, lastJob, callerVars>>,
         faults' \in 0..MaxFaults
  PROVE  BulkInv'
<1> USE DEF BulkInv, Goes, callerVars
<1>1. State("refreshing", j, n) \in BulkState /\ State("refreshing", j, n) # None
      /\ State("refreshing", j, n).status = "refreshing"
  BY StateTyped DEF Status
<1>2. TypeOK'
  <2>1. jpc' \in [Jobs -> JobState] /\ counts' \in [Jobs -> Counts]
    BY DEF TypeOK
  <2>2. bulkState' \in BulkState \cup {None}
    BY <1>1 DEF TypeOK
  <2>3. QED
    BY <2>1, <2>2 DEF TypeOK
<1>3. HasSeen'
  BY DEF HasSeen
<1>4. OneOperation'
  BY DEF OneOperation, TypeOK, Active
<1>5. JobsInv'
  BY DEF JobsInv, TypeOK, Active
<1>6. SucceededMeansAll' /\ EveryItemCounted'
  BY <1>1, NothingClaimed
<1>7. QED
  BY <1>2, <1>3, <1>4, <1>5, <1>6

\* Count saves the state of the new counters, or fails.
LEMMA CountSaves ==
  ASSUME TypeOK, NEW j \in Jobs, NEW n \in Counts, Count(j, n)
  PROVE  /\ counts' = [counts EXCEPT ![j] = n]
         /\ bulkState' \in {bulkState, State("refreshing", j, n)}
         /\ faults' \in 0..MaxFaults
BY FaultsBounded DEF Count, Save

\* Nothing was counted.
LEMMA CountersKept ==
  ASSUME TypeOK, NEW j \in Jobs, UNCHANGED counts
  PROVE  counts[j] \in Counts /\ counts' = [counts EXCEPT ![j] = counts[j]]
BY DEF TypeOK

\* The actions of a goroutine that only count.
LEMMA JobCounts ==
  ASSUME BulkInv, NEW j \in Jobs,
         RecordsStart(j) \/ ListsProviders(j) \/ StartsItem(j) \/ TimesOut(j) \/ WarmsItem(j)
  PROVE  BulkInv'
<1> USE DEF BulkInv
<1>1. counts[j] \in Counts /\ Tallied(jpc[j], counts[j])
  BY DEF TypeOK, JobsInv
<1>2. CASE RecordsStart(j)
  <2>1. Active(j) /\ Goes(j, jpc'[j]) /\ jpc'[j] \in {"list", "release"} /\ counts[j] = Zero
    BY <1>1, <1>2 DEF RecordsStart, Goes, Active, TypeOK, Tallied
  <2>2. /\ bulkState' \in {bulkState, State("refreshing", j, counts[j])}
        /\ faults' \in 0..MaxFaults
    BY <1>2, <2>1, FaultsBounded DEF RecordsStart
  <2>3. Tallied(jpc'[j], counts[j])
    BY <2>1 DEF Tallied
  <2>4. QED
    BY <1>1, <1>2, <2>1, <2>2, <2>3, CountersKept, JobAdvances DEF RecordsStart, JobState
<1>3. CASE ListsProviders(j)
  <2>1. Active(j) /\ counts[j] = Zero
    BY <1>1, <1>3 DEF ListsProviders, Active, Tallied
  <2>2. CASE Goes(j, "item") /\ UNCHANGED <<counts, bulkState, faults>>
    <3>1. Tallied("item", counts[j])
      BY <2>1 DEF Tallied, Zero, Sum
    <3>2. QED
      BY <1>1, <1>3, <2>1, <2>2, <3>1, CountersKept, FaultsBounded, JobAdvances
      DEF ListsProviders, JobState
  <2>3. CASE Goes(j, "final") /\ Count(j, [counts[j] EXCEPT !.failed = @ + 1])
    <3> DEFINE n == [counts[j] EXCEPT !.failed = @ + 1]
    <3>1. n \in Counts /\ Tallied("final", n)
      BY <2>1, BulkAssumption DEF BulkAssumption, Tallied, Zero, Sum, Counts
    <3> HIDE DEF n
    <3>2. QED
      BY <1>3, <2>1, <2>3, <3>1, CountSaves, JobAdvances DEF ListsProviders, JobState, n
  <2>4. QED
    BY <1>3, <2>2, <2>3 DEF ListsProviders
<1>4. CASE StartsItem(j)
  <2>1. Active(j) /\ Sum(counts[j]) = counts[j].started
    BY <1>1, <1>4 DEF StartsItem, Active, Tallied
  <2>2. CASE NoneLeft(counts[j])
    <3>1. Tallied("final", counts[j])
      BY <2>1, <2>2 DEF Tallied, NoneLeft
    <3>2. QED
      BY <1>1, <1>4, <2>1, <2>2, <3>1, CountersKept, FaultsBounded, JobAdvances
      DEF StartsItem, JobState
  <2>3. CASE ~NoneLeft(counts[j])
    <3> DEFINE n == [counts[j] EXCEPT !.started = @ + 1]
    <3>1. n \in Counts /\ Tallied("warm", n)
      BY <1>1, <2>1, <2>3, BulkAssumption DEF BulkAssumption, Tallied, Sum, Counts, NoneLeft
    <3> HIDE DEF n
    <3>2. QED
      BY <1>4, <2>1, <2>3, <3>1, CountSaves, JobAdvances DEF StartsItem, JobState, n
  <2>4. QED
    BY <2>2, <2>3
<1>5. CASE TimesOut(j)
  <2>1. Active(j) /\ Sum(counts[j]) = counts[j].started
    BY <1>1, <1>5 DEF TimesOut, Active, Tallied
  <2> DEFINE n == [counts[j] EXCEPT !.failed = @ + 1]
  <2>2. n \in Counts /\ Tallied("final", n)
    BY <1>1, <2>1, BulkAssumption DEF BulkAssumption, Tallied, Sum, Counts
  <2> HIDE DEF n
  <2>3. QED
    BY <1>5, <2>1, <2>2, CountSaves, JobAdvances DEF TimesOut, JobState, n
<1>6. CASE WarmsItem(j)
  <2>1. Active(j) /\ Sum(counts[j]) + 1 = counts[j].started
    BY <1>1, <1>6 DEF WarmsItem, Active, Tallied
  <2>2. PICK n \in Counted(counts[j]) : Count(j, n)
    BY <1>6 DEF WarmsItem
  <2>3. n \in Counts /\ Tallied("item", n)
    BY <1>1, <2>1, BulkAssumption DEF BulkAssumption, Counted, Tallied, Sum, Counts
  <2>4. QED
    BY <1>6, <2>1, <2>2, <2>3, CountSaves, JobAdvances DEF WarmsItem, JobState
<1>7. QED
  BY <1>2, <1>3, <1>4, <1>5, <1>6

\* What the outcome claims is true of the counters it was computed from.
LEMMA OutcomeHonest ==
  ASSUME NEW n \in Counts, Tallied("final", n)
  PROVE  /\ Outcome(n) \in Outcomes
         /\ Outcome(n) = "succeeded" => n.failed = 0 /\ n.succeeded + n.skipped = NumItems
         /\ Sum(n) \in {n.started, n.started + 1}
<1>1. /\ Outcome(n) \in Outcomes
      /\ Outcome(n) = "succeeded" => ~(n.failed > 0)
  BY DEF Outcome, Outcomes
<1>2. n.failed \in Nat /\ n.succeeded \in Nat /\ n.skipped \in Nat
  BY BulkAssumption DEF BulkAssumption, Counts
<1>3. QED
  BY <1>1, <1>2 DEF Tallied, Sum

LEMMA RecordsOutcomeKeeps ==
  ASSUME BulkInv, NEW j \in Jobs, RecordsOutcome(j)
  PROVE  BulkInv'
<1> USE DEF BulkInv, RecordsOutcome
<1>1. /\ counts[j] \in Counts /\ Tallied("final", counts[j])
      /\ jpc[j] = "final"
  BY DEF TypeOK, JobsInv
<1> DEFINE b == State(Outcome(counts[j]), j, counts[j])
<1>2. /\ b \in BulkState /\ b # None /\ b.status = Outcome(counts[j])
      /\ b.counts = counts[j]
  <2>1. Outcome(counts[j]) \in Status
    BY <1>1, OutcomeHonest DEF Status
  <2>2. QED
    BY <1>1, <2>1, StateTyped
<1> HIDE DEF b
<1>3. bulkState' \in {bulkState, b}
  BY DEF b
<1>4. TypeOK'
  <2>1. jpc' \in [Jobs -> JobState]
    BY DEF TypeOK, Goes, JobState
  <2>2. bulkState' \in BulkState \cup {None}
    BY <1>2, <1>3 DEF TypeOK
  <2>3. faults' \in 0..MaxFaults
    BY FaultsBounded
  <2>4. QED
    BY <2>1, <2>2, <2>3 DEF TypeOK, callerVars
<1>5. HasSeen' /\ OneOperation' /\ JobsInv'
  BY <1>1 DEF HasSeen, OneOperation, JobsInv, TypeOK, Goes, Tallied, callerVars
<1>6. SucceededMeansAll'
  BY <1>1, <1>2, <1>3, OutcomeHonest DEF SucceededMeansAll
<1>7. EveryItemCounted'
  BY <1>1, <1>2, <1>3, OutcomeHonest DEF EveryItemCounted, Sum
<1>8. QED
  BY <1>4, <1>5, <1>6, <1>7

LEMMA ReleasesKeeps ==
  ASSUME BulkInv, NEW j \in Jobs, Releases(j)
  PROVE  BulkInv'
<1> USE DEF BulkInv, Releases
<1>1. TypeOK'
  <2>1. jpc' \in [Jobs -> JobState] /\ bulkLock' \in Jobs \cup {NoJob}
    BY DEF TypeOK, Goes, JobState
  <2>2. faults' \in 0..MaxFaults
    BY FaultsBounded
  <2>3. QED
    BY <2>1, <2>2 DEF TypeOK, callerVars
<1>2. HasSeen' /\ JobsInv'
  BY DEF HasSeen, JobsInv, TypeOK, Goes, Tallied, callerVars
<1>3. OneOperation'
  BY DEF OneOperation, TypeOK, Goes
<1>4. SucceededMeansAll' /\ EveryItemCounted'
  BY NothingClaimed
<1>5. QED
  BY <1>1, <1>2, <1>3, <1>4

LEMMA BeginKeeps ==
  ASSUME BulkInv, NEW c \in Callers, Begin(c)
  PROVE  BulkInv'
<1> USE DEF BulkInv, Begin
<1>1. SucceededMeansAll' /\ EveryItemCounted'
  BY NothingClaimed
<1>2. CASE CanLock /\ lastJob < MaxJobs /\ lastJob' = lastJob + 1 /\ bulkLock' = lastJob + 1
           /\ Goes(lastJob + 1, "first") /\ UNCHANGED cpc
  <2>1. lastJob + 1 \in Jobs
    BY <1>2, BulkAssumption DEF BulkAssumption, TypeOK, Jobs
  <2>2. TypeOK'
    <3>1. lastJob' \in 0..MaxJobs
      BY <1>2, BulkAssumption DEF BulkAssumption, TypeOK
    <3>2. jpc' \in [Jobs -> JobState] /\ bulkLock' \in Jobs \cup {NoJob}
      BY <1>2, <2>1 DEF TypeOK, Goes, JobState
    <3>3. QED
      BY <1>2, <3>1, <3>2 DEF TypeOK
  <2>3. HasSeen'
    BY <1>2 DEF HasSeen
  <2>4. \A j \in Jobs : ~Active(j)
    BY <1>2 DEF CanLock, OneOperation, Active, NoJob, Jobs
  <2>5. OneOperation'
    BY <1>2, <2>1, <2>4 DEF OneOperation, Active, TypeOK, Goes
  <2>6. JobsInv'
    <3> SUFFICES ASSUME NEW j \in Jobs
                 PROVE  /\ j > lastJob' => jpc'[j] = "none"
                        /\ jpc'[j] = "none" => counts'[j] = Zero
                        /\ Tallied(jpc'[j], counts'[j])
      BY DEF JobsInv
    <3>1. CASE j = lastJob + 1
      <4>1. jpc[j] = "none" /\ counts[j] = Zero
        BY <2>1, <3>1 DEF JobsInv, TypeOK
      <4>2. jpc'[j] = "first" /\ counts'[j] = Zero
        BY <1>2, <3>1, <4>1 DEF Goes, TypeOK
      <4>3. ~(j > lastJob')
        BY <1>2, <3>1 DEF TypeOK
      <4>4. QED
        BY <4>2, <4>3 DEF Tallied
    <3>2. CASE j # lastJob + 1
      <4>1. jpc'[j] = jpc[j] /\ counts'[j] = counts[j]
        BY <1>2, <3>2 DEF Goes, TypeOK
      <4>2. j > lastJob' => j > lastJob
        BY <1>2 DEF TypeOK, Jobs
      <4>3. QED
        BY <4>1, <4>2 DEF JobsInv
    <3>3. QED
      BY <3>1, <3>2
  <2>7. QED
    BY <1>1, <2>2, <2>3, <2>5, <2>6
<1>3. CASE bulkLock # NoJob /\ cpc' = [cpc EXCEPT ![c] = "status"]
           /\ UNCHANGED <<bulkLock, lastJob, jpc>>
  <2>1. TypeOK' /\ HasSeen'
    BY <1>3 DEF TypeOK, HasSeen, CallerState
  <2>2. OneOperation' /\ JobsInv'
    BY <1>3 DEF OneOperation, JobsInv
  <2>3. QED
    BY <1>1, <2>1, <2>2
<1>4. QED
  BY <1>2, <1>3

\* A status request changes nothing that belongs to a goroutine.
LEMMA AnswerKeeps ==
  ASSUME BulkInv, NEW c \in Callers, Asks(c) \/ Answer(c)
  PROVE  BulkInv'
<1> USE DEF BulkInv
<1>1. OneOperation' /\ JobsInv'
  BY DEF OneOperation, JobsInv, Asks, Answer, ReadsState, ChecksLock, MarksInterrupted,
         redisVars, jobVars
<1>2. CASE Asks(c) \/ ReadsState(c)
  <2>1. TypeOK' /\ HasSeen'
    BY <1>2 DEF TypeOK, HasSeen, Asks, ReadsState, CallerState, redisVars, jobVars
  <2>2. SucceededMeansAll' /\ EveryItemCounted'
    BY <1>2, NothingClaimed DEF Asks, ReadsState, redisVars
  <2>3. QED
    BY <1>1, <2>1, <2>2
<1>3. CASE ChecksLock(c)
  <2>1. TypeOK' /\ HasSeen'
    BY <1>3 DEF TypeOK, HasSeen, ChecksLock, Answers, CallerState, redisVars, jobVars
  <2>2. SucceededMeansAll' /\ EveryItemCounted'
    BY <1>3, NothingClaimed DEF ChecksLock, redisVars
  <2>3. QED
    BY <1>1, <2>1, <2>2
<1>4. CASE MarksInterrupted(c)
  <2> DEFINE b == [seen[c] EXCEPT !.status = "interrupted"]
  <2>1. seen[c] \in BulkState
    BY <1>4 DEF HasSeen, MarksInterrupted
  <2>2. b \in BulkState /\ b # None /\ b.status = "interrupted"
    BY <2>1, BulkAssumption DEF BulkAssumption, BulkState, Status
  <2>3. bulkState' \in {bulkState, b} /\ (Fails("write") \/ UNCHANGED faults)
    BY <1>4 DEF MarksInterrupted, Save
  <2> HIDE DEF b
  <2>4. TypeOK' /\ HasSeen'
    <3>1. faults' \in 0..MaxFaults
      BY <2>3, FaultsBounded
    <3>2. cpc' \in [Callers -> CallerState] /\ seen' \in [Callers -> BulkState \cup {None}]
      BY <1>4 DEF MarksInterrupted, Answers, TypeOK, CallerState
    <3>3. QED
      BY <1>4, <2>2, <2>3, <3>1, <3>2 DEF MarksInterrupted, Answers, TypeOK, HasSeen, jobVars
  <2>5. SucceededMeansAll' /\ EveryItemCounted'
    BY <2>2, <2>3, NothingClaimed
  <2>6. QED
    BY <1>1, <2>4, <2>5
<1>5. QED
  BY <1>2, <1>3, <1>4 DEF Answer

\* Time and the death of the process.
LEMMA EnvironmentKeeps ==
  ASSUME BulkInv, LockExpires \/ StateExpires \/ Crash
  PROVE  BulkInv'
<1> USE DEF BulkInv
<1>1. SucceededMeansAll' /\ EveryItemCounted'
  BY NothingClaimed DEF LockExpires, StateExpires, Crash, redisVars
<1>2. CASE LockExpires
  <2>1. TypeOK' /\ HasSeen' /\ JobsInv'
    BY <1>2 DEF LockExpires, TypeOK, HasSeen, JobsInv, jobVars, callerVars
  <2>2. OneOperation'
    BY <1>2 DEF LockExpires, LockTTLElapsed, OneOperation, jobVars
  <2>3. QED
    BY <1>1, <2>1, <2>2
<1>3. CASE StateExpires
  <2>1. TypeOK' /\ HasSeen' /\ JobsInv' /\ OneOperation'
    BY <1>3 DEF StateExpires, TypeOK, HasSeen, JobsInv, OneOperation, jobVars, callerVars
  <2>2. QED
    BY <1>1, <2>1
<1>4. CASE Crash
  <2>1. faults' \in 0..MaxFaults
    BY <1>4, FaultsBounded DEF Crash
  <2>2. TypeOK'
    BY <1>4, <2>1 DEF Crash, TypeOK, JobState, CallerState, redisVars
  <2>3. HasSeen' /\ OneOperation' /\ JobsInv'
    BY <1>4 DEF Crash, HasSeen, OneOperation, JobsInv, Tallied, redisVars
  <2>4. QED
    BY <1>1, <2>2, <2>3
<1>5. QED
  BY <1>2, <1>3, <1>4

LEMMA BulkInvStep == BulkInv /\ [Next]_vars => BulkInv'
<1> SUFFICES ASSUME BulkInv, [Next]_vars PROVE BulkInv'
  OBVIOUS
<1>1. CASE \E j \in Jobs : Job(j)
  BY <1>1, JobCounts, RecordsOutcomeKeeps, ReleasesKeeps DEF Job
<1>2. CASE \E c \in Callers : Begin(c) \/ Asks(c) \/ Answer(c)
  BY <1>2, BeginKeeps, AnswerKeeps
<1>3. CASE LockExpires \/ StateExpires \/ Crash
  BY <1>3, EnvironmentKeeps
<1>4. CASE UNCHANGED vars
  BY <1>4 DEF vars, redisVars, jobVars, callerVars, BulkInv, TypeOK, HasSeen, OneOperation,
              JobsInv, SucceededMeansAll, EveryItemCounted
<1>5. QED
  BY <1>1, <1>2, <1>3, <1>4 DEF Next

LEMMA BulkInvHolds == Spec => []BulkInv
<1>1. QED
  BY BulkInvInit, BulkInvStep, PTL DEF Spec

\* Two bulk refreshes never work at once: the lock of beginBulkCacheRefresh is
\* held for as long as the goroutine of StartWarmAllCache runs.
THEOREM OneBulkRefresh == Spec => []OneOperation
<1>1. BulkInv => OneOperation
  BY DEF BulkInv
<1>2. QED
  BY <1>1, BulkInvHolds, PTL

\* What finishBulkCacheRefresh recorded is honest: no success while an entry
\* failed or was not reached, and every entry started counted once.
THEOREM OutcomesHonest == Spec => [](SucceededMeansAll /\ EveryItemCounted)
<1>1. BulkInv => SucceededMeansAll /\ EveryItemCounted
  BY DEF BulkInv
<1>2. QED
  BY <1>1, BulkInvHolds, PTL

\* The counters stay within the number of entries, one failure more for a list of providers that
\* was not loaded or for the three hours that are over (runWarmAllCache), and the state names an
\* operation that was numbered.
THEOREM BulkTyped == Spec => []TypeOK
<1>1. BulkInv => TypeOK
  BY DEF BulkInv
<1>2. QED
  BY <1>1, BulkInvHolds, PTL
=============================================================================
