---------------------------- MODULE BulkRefresh ----------------------------
(***************************************************************************)
(* The administrator's bulk cache refresh (internal/proxy: cache_bulk,     *)
(* cache_warm).                                                            *)
(*                                                                         *)
(* A start request takes a Redis lock, records the operation's state in    *)
(* Redis and leaves the work to a detached goroutine, which warms the      *)
(* entries one after the other, records its counters after each step, and  *)
(* at last records the outcome and releases the lock.  Status requests     *)
(* read the state at any time; one that finds an operation without its     *)
(* lock rewrites the state as "interrupted".                               *)
(*                                                                         *)
(* Every Redis command is a step of its own.  Operation identifiers are    *)
(* numbered in the order the lock was taken.                               *)
(*                                                                         *)
(* Definitions named Faulty... are wrong on purpose: each is what a slip   *)
(* in the code would make of the definition that follows it, and shows     *)
(* that a property notices.                                                *)
(***************************************************************************)
EXTENDS Naturals

CONSTANTS
  Callers,     \* start and status requests under way at once
  NumItems,    \* entries to warm: five per provider that caches
  MaxJobs,     \* bound: operations
  Faults,      \* "crash": the process dies; "write": a command that writes fails
  MaxFaults,   \* bound: faults
  None         \* no state

Jobs == 1..MaxJobs
NoJob == 0

\* What BulkCacheState records, apart from times and messages.
Outcomes == {"succeeded", "partial", "failed"}
Status == {"refreshing", "interrupted"} \cup Outcomes
Counts == [started : 0..NumItems, succeeded : 0..NumItems, failed : 0..NumItems + 1,
           skipped : 0..NumItems]
BulkState == [status : Status, id : Jobs, counts : Counts]

ASSUME BulkAssumption ==
  /\ NumItems \in Nat
  /\ MaxJobs \in Nat
  /\ MaxFaults \in Nat
  /\ Faults \subseteq {"crash", "write"}
  /\ None \notin BulkState

JobState == {"none", "first", "list", "item", "warm", "final", "release", "gone"}
CallerState == {"idle", "status", "check", "mark"}

VARIABLES
  bulkLock,   \* the operation the lock key names
  bulkState,  \* the persisted state
  lastJob,    \* operations numbered so far
  jpc,        \* where the goroutine of an operation is
  counts,     \* its counters
  cpc,        \* where a request is
  seen,       \* the state a status request has read
  faults      \* faults so far

redisVars == <<bulkLock, bulkState>>
jobVars == <<lastJob, jpc, counts>>
callerVars == <<cpc, seen>>
vars == <<redisVars, jobVars, callerVars, faults>>

TypeOK ==
  /\ bulkLock \in Jobs \cup {NoJob}
  /\ bulkState \in BulkState \cup {None}
  /\ lastJob \in 0..MaxJobs
  /\ jpc \in [Jobs -> JobState]
  /\ counts \in [Jobs -> Counts]
  /\ cpc \in [Callers -> CallerState]
  /\ seen \in [Callers -> BulkState \cup {None}]
  /\ faults \in 0..MaxFaults

Zero == [started |-> 0, succeeded |-> 0, failed |-> 0, skipped |-> 0]

Init ==
  /\ bulkLock = NoJob
  /\ bulkState = None
  /\ lastJob = 0
  /\ jpc = [j \in Jobs |-> "none"]
  /\ counts = [j \in Jobs |-> Zero]
  /\ cpc = [c \in Callers |-> "idle"]
  /\ seen = [c \in Callers |-> None]
  /\ faults = 0

State(s, j, n) == [status |-> s, id |-> j, counts |-> n]

Fails(f) == f \in Faults /\ faults < MaxFaults /\ faults' = faults + 1

\* saveBulkCacheState: the SET may fail; only the first save looks at that.
Save(state) ==
  \/ bulkState' = state /\ UNCHANGED faults
  \/ Fails("write") /\ UNCHANGED bulkState

Goes(j, p) == jpc' = [jpc EXCEPT ![j] = p]
-----------------------------------------------------------------------------
(***************************************************************************)
(* beginBulkCacheRefresh.                                                  *)
(***************************************************************************)
FaultyCanLock == bulkState = None \/ bulkState.status # "refreshing"
CanLock == bulkLock = NoJob

\* SetNX: the request owns the lock, or reports the operation that does.
Begin(c) ==
  /\ cpc[c] = "idle"
  /\ \/ /\ CanLock
        /\ lastJob < MaxJobs
        /\ lastJob' = lastJob + 1
        /\ bulkLock' = lastJob + 1
        /\ Goes(lastJob + 1, "first")
        /\ UNCHANGED cpc
     \/ /\ bulkLock # NoJob
        /\ cpc' = [cpc EXCEPT ![c] = "status"]
        /\ UNCHANGED <<bulkLock, lastJob, jpc>>
  /\ UNCHANGED <<bulkState, counts, seen, faults>>

\* The first save.  If it fails the lock is released and nothing is started.
RecordsStart(j) ==
  /\ jpc[j] = "first"
  /\ \/ bulkState' = State("refreshing", j, Zero) /\ Goes(j, "list") /\ UNCHANGED faults
     \/ Fails("write") /\ UNCHANGED bulkState /\ Goes(j, "release")
  /\ UNCHANGED <<bulkLock, lastJob, counts, callerVars>>
-----------------------------------------------------------------------------
(***************************************************************************)
(* runWarmAllCache.                                                        *)
(***************************************************************************)
\* Every change of the counters is followed by a save.
Count(j, n) ==
  /\ counts' = [counts EXCEPT ![j] = n]
  /\ Save(State("refreshing", j, n))

\* The providers are loaded, or the operation fails at once.
ListsProviders(j) ==
  /\ jpc[j] = "list"
  /\ \/ Goes(j, "item") /\ UNCHANGED <<counts, bulkState, faults>>
     \/ Goes(j, "final") /\ Count(j, [counts[j] EXCEPT !.failed = @ + 1])
  /\ UNCHANGED <<bulkLock, lastJob, callerVars>>

FaultyNoneLeft(n) == n.started > NumItems
NoneLeft(n) == n.started = NumItems

\* The next entry is started, unless there is none left.
StartsItem(j) ==
  /\ jpc[j] = "item"
  /\ IF NoneLeft(counts[j])
     THEN Goes(j, "final") /\ UNCHANGED <<counts, bulkState, faults>>
     ELSE Goes(j, "warm") /\ Count(j, [counts[j] EXCEPT !.started = @ + 1])
  /\ UNCHANGED <<bulkLock, lastJob, callerVars>>

FaultyTimesOut(j) ==
  /\ jpc[j] = "item"
  /\ Goes(j, "final")
  /\ UNCHANGED <<bulkLock, bulkState, counts, lastJob, callerVars, faults>>

\* The three hours are over before the next entry.
TimesOut(j) ==
  /\ jpc[j] = "item"
  /\ ~NoneLeft(counts[j])
  /\ Goes(j, "final")
  /\ Count(j, [counts[j] EXCEPT !.failed = @ + 1])
  /\ UNCHANGED <<bulkLock, lastJob, callerVars>>

\* warmOne succeeded, failed, or found the entry's own lock taken.
Counted(n) ==
  {[n EXCEPT !.succeeded = @ + 1], [n EXCEPT !.failed = @ + 1], [n EXCEPT !.skipped = @ + 1]}

WarmsItem(j) ==
  /\ jpc[j] = "warm"
  /\ Goes(j, "item")
  /\ \E n \in Counted(counts[j]) : Count(j, n)
  /\ UNCHANGED <<bulkLock, lastJob, callerVars>>
-----------------------------------------------------------------------------
(***************************************************************************)
(* finishBulkCacheRefresh.                                                 *)
(***************************************************************************)
Outcome(n) ==
  IF n.failed = 0 THEN "succeeded"
  ELSE IF n.succeeded = 0 /\ n.skipped = 0 THEN "failed"
  ELSE "partial"

\* The outcome is saved before the lock is released.
RecordsOutcome(j) ==
  /\ jpc[j] = "final"
  /\ Goes(j, "release")
  /\ \/ /\ bulkState' = State(Outcome(counts[j]), j, counts[j])
        /\ UNCHANGED faults
     \/ Fails("write") /\ UNCHANGED bulkState
  /\ UNCHANGED <<bulkLock, lastJob, counts, callerVars>>

\* The release script deletes the lock only if it is this operation's.
Releases(j) ==
  /\ jpc[j] = "release"
  /\ Goes(j, "gone")
  /\ \/ bulkLock' = (IF bulkLock = j THEN NoJob ELSE bulkLock) /\ UNCHANGED faults
     \/ Fails("write") /\ UNCHANGED bulkLock
  /\ UNCHANGED <<bulkState, lastJob, counts, callerVars>>
-----------------------------------------------------------------------------
(***************************************************************************)
(* CacheBulkStatus.                                                        *)
(***************************************************************************)
Asks(c) ==
  /\ cpc[c] = "idle"
  /\ cpc' = [cpc EXCEPT ![c] = "status"]
  /\ UNCHANGED <<redisVars, jobVars, seen, faults>>

\* GET of the state.  Only an operation said to be refreshing is looked into.
ReadsState(c) ==
  /\ cpc[c] = "status"
  /\ IF bulkState # None /\ bulkState.status = "refreshing"
     THEN /\ cpc' = [cpc EXCEPT ![c] = "check"]
          /\ seen' = [seen EXCEPT ![c] = bulkState]
     ELSE cpc' = [cpc EXCEPT ![c] = "idle"] /\ UNCHANGED seen
  /\ UNCHANGED <<redisVars, jobVars, faults>>

Answers(c) ==
  /\ cpc' = [cpc EXCEPT ![c] = "idle"]
  /\ seen' = [seen EXCEPT ![c] = None]

FaultyChecksLock(c) ==
  /\ cpc[c] = "check"
  /\ Answers(c)
  /\ UNCHANGED <<redisVars, jobVars, faults>>

\* EXISTS of the lock, whoever holds it.
ChecksLock(c) ==
  /\ cpc[c] = "check"
  /\ IF bulkLock # NoJob
     THEN Answers(c)
     ELSE cpc' = [cpc EXCEPT ![c] = "mark"] /\ UNCHANGED seen
  /\ UNCHANGED <<redisVars, jobVars, faults>>

\* The state that was read is written back as interrupted.
MarksInterrupted(c) ==
  /\ cpc[c] = "mark"
  /\ Save([seen[c] EXCEPT !.status = "interrupted"])
  /\ Answers(c)
  /\ UNCHANGED <<bulkLock, jobVars>>
-----------------------------------------------------------------------------
(***************************************************************************)
(* Time and crashes.                                                       *)
(***************************************************************************)
\* The lock's TTL (3 h 10 min) is longer than an operation may take (3 h): it
\* expires only when the goroutine is gone.
LockTTLElapsed(j) == jpc[j] = "gone"

LockExpires ==
  /\ bulkLock # NoJob
  /\ LockTTLElapsed(bulkLock)
  /\ bulkLock' = NoJob
  /\ UNCHANGED <<bulkState, jobVars, callerVars, faults>>

\* The state's TTL (3 h 15 min while refreshing, seven days after) is longer
\* than the lock's.
StateExpires ==
  /\ bulkState # None
  /\ jpc[bulkState.id] = "gone" /\ bulkLock # bulkState.id
  /\ bulkState' = None
  /\ UNCHANGED <<bulkLock, jobVars, callerVars, faults>>

\* The process dies: no goroutine and no request survives.
Crash ==
  /\ Fails("crash")
  /\ jpc' = [j \in Jobs |-> IF jpc[j] = "none" THEN "none" ELSE "gone"]
  /\ cpc' = [c \in Callers |-> "idle"]
  /\ seen' = [c \in Callers |-> None]
  /\ UNCHANGED <<redisVars, lastJob, counts>>
-----------------------------------------------------------------------------
Job(j) ==
  \/ RecordsStart(j) \/ ListsProviders(j) \/ StartsItem(j) \/ TimesOut(j) \/ WarmsItem(j)
  \/ RecordsOutcome(j) \/ Releases(j)

Answer(c) == ReadsState(c) \/ ChecksLock(c) \/ MarksInterrupted(c)

Next ==
  \/ \E j \in Jobs : Job(j)
  \/ \E c \in Callers : Begin(c) \/ Asks(c) \/ Answer(c)
  \/ LockExpires
  \/ StateExpires
  \/ Crash

Spec == Init /\ [][Next]_vars

(***************************************************************************)
(* Goroutines and requests run to their end (each Redis command and each   *)
(* fetch has a deadline), the lock expires, and the dashboard keeps asking *)
(* for the status.  The state's own expiry is not relied on.               *)
(***************************************************************************)
FairSpec ==
  /\ Spec
  /\ \A j \in Jobs : WF_vars(Job(j))
  /\ \A c \in Callers : WF_vars(Answer(c)) /\ WF_vars(Asks(c))
  /\ WF_vars(LockExpires)
-----------------------------------------------------------------------------
(***************************************************************************)
(* Properties.                                                             *)
(***************************************************************************)
\* "A Redis bulk lock prevents a second manual bulk refresh from racing the
\* first one": an operation that works holds the lock.
OneOperation ==
  \A j \in Jobs : jpc[j] \notin {"none", "gone"} => bulkLock = j

\* The outcome is honest: nothing is said to have succeeded before every entry
\* was refreshed or left to a refresh already running.
SucceededMeansAll ==
  bulkState # None /\ bulkState.status = "succeeded" =>
    /\ bulkState.counts.failed = 0
    /\ bulkState.counts.succeeded + bulkState.counts.skipped = NumItems

\* A recorded outcome accounts for every entry that was started, once.
EveryItemCounted ==
  bulkState # None /\ bulkState.status \in Outcomes =>
    LET n == bulkState.counts IN
    n.succeeded + n.failed + n.skipped \in {n.started, n.started + 1}

\* The status is not "refreshing" for ever, even if the process dies or the
\* outcome cannot be saved.
RefreshingEnds ==
  (bulkState # None /\ bulkState.status = "refreshing") ~>
    (bulkState = None \/ bulkState.status # "refreshing")

\* The lock of an operation goes, whether it ends or dies.
BulkLockFreed == []<>(bulkLock = NoJob)

\* An operation ends for the dashboard and for the next one (bulkState, bulkLock).
OperationEnds == RefreshingEnds /\ BulkLockFreed

=============================================================================
