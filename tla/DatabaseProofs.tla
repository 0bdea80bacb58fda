--------------------------- MODULE DatabaseProofs ---------------------------
(***************************************************************************)
(* Theorems about Database, for any callers, providers, number of          *)
(* snapshots kept and number of faults.                                    *)
(***************************************************************************)
EXTENDS Database, FiniteSetTheorems, SequenceTheorems, TLAPS

DbTyped ==
  /\ found \in BOOLEAN
  /\ guarded \in BOOLEAN
  /\ settings \in BOOLEAN
  /\ admin \in BOOLEAN
  /\ completed \in BOOLEAN
  /\ initialized \in BOOLEAN
  /\ timer \in BOOLEAN
  /\ default \in SUBSET Providers
  /\ plain \in SUBSET Providers
  /\ client \in [Providers -> {"none", "plain", "hashed"}]
  /\ pc \in Attempt \cup {"none"}
  /\ todo \in SUBSET Providers
  /\ calls \in [Callers -> {"idle", "waiting", "ready", "rejected"}]
  /\ seed \in Seeds
  /\ faults \in 0..MaxFaults

\* A migration is recorded when those before it are, and an attempt is where
\* the records say.
Versioned ==
  /\ applied \in {{}, {1}, {1, 2}, {1, 2, 3}, {1, 2, 3, 4}}
  /\ pc \in {"check", "snapshot", "verify"} => 4 \notin applied
  /\ pc \in {"tables", "record1"} => applied = {}
  /\ pc \in {"one default", "index", "record2"} => applied = {1}
  /\ pc \in {"users", "copy", "record3"} => applied = {1, 2}
  /\ pc \in {"column", "hash", "wipe", "guard", "record4"} => applied = {1, 2, 3}
  /\ pc \in {"settings", "admin", "flag", "finish"} => applied = {1, 2, 3, 4}

\* A database that is open was opened to the end.
Opened ==
  /\ initialized => /\ pc = "none" /\ applied = {1, 2, 3, 4}
                    /\ timer /\ settings /\ (admin => completed)
  /\ pc \in {"admin", "flag", "finish"} => settings
  /\ pc = "finish" => (admin => completed)

\* What a recorded migration has done, and the one under way so far.
Migrated ==
  /\ 2 \in applied \/ pc = "record2" => Cardinality(default) <= 1
  /\ 3 \in applied \/ pc = "record3" => \A p \in plain : client[p] # "none"
  /\ pc = "copy" => todo \subseteq plain /\ \A p \in plain \ todo : client[p] # "none"
  /\ pc = "hash" => /\ \A p \in todo : client[p] # "none"
                    /\ \A p \in Providers \ todo : client[p] # "plain"
  /\ 4 \in applied \/ pc \in {"wipe", "guard", "record4"} =>
       \A p \in Providers : client[p] # "plain"
  /\ 4 \in applied \/ pc \in {"guard", "record4"} => plain = {}
  /\ 4 \in applied \/ pc = "record4" => guarded

DbInv ==
  /\ DbTyped
  /\ Versioned
  /\ Opened
  /\ Migrated
  /\ ClientsKept

LEMMA Afters ==
  /\ After({}) = "tables"
  /\ After({1}) = "one default"
  /\ After({1, 2}) = "users"
  /\ After({1, 2, 3}) = "column"
  /\ After({1, 2, 3, 4}) = "settings"
BY DEF After

\* The schema version is the last migration that is recorded.
LEMMA VersionIsLast ==
  ASSUME Versioned
  PROVE  Version < Latest <=> 4 \notin applied
<1>1. CASE applied = {}
  BY <1>1 DEF Version, Latest
<1>2. CASE applied \in {{1}, {1, 2}, {1, 2, 3}}
  <2>1. \E v \in applied : \A w \in applied : w <= v
    <3>1. CASE applied = {1}
      BY <3>1
    <3>2. CASE applied = {1, 2}
      BY <3>2
    <3>3. CASE applied = {1, 2, 3}
      BY <3>3
    <3>4. QED
      BY <1>2, <3>1, <3>2, <3>3
  <2>2. Version \in applied
    BY <1>2, <2>1 DEF Version
  <2>3. Version \in {1, 2, 3} /\ 4 \notin applied
    BY <1>2, <2>2
  <2>4. QED
    BY <2>3 DEF Latest
<1>3. CASE applied = {1, 2, 3, 4}
  <2>1. \E v \in applied : \A w \in applied : w <= v
    BY <1>3
  <2>2. Version \in applied /\ \A w \in applied : w <= Version
    BY <1>3, <2>1 DEF Version
  <2>3. Version \in {1, 2, 3, 4} /\ 4 <= Version
    BY <1>3, <2>2
  <2>4. QED
    BY <1>3, <2>3 DEF Latest
<1>4. QED
  BY <1>1, <1>2, <1>3 DEF Versioned

LEMMA InitVersion ==
  ASSUME Init
  PROVE  \E v \in 0..Latest :
           /\ \/ v = 0 /\ applied = {}
              \/ v = 1 /\ applied = {1} /\ found
              \/ v = 2 /\ applied = {1, 2} /\ found
              \/ v = 3 /\ applied = {1, 2, 3} /\ found
              \/ v = 4 /\ applied = {1, 2, 3, 4} /\ found
           /\ default \in SUBSET Providers
           /\ v >= 2 => Cardinality(default) <= 1
           /\ found \in BOOLEAN /\ admin \in BOOLEAN
           /\ ~found => default = {}
           /\ plain = IF found /\ v < 4 THEN Providers ELSE {}
           /\ client = [p \in Providers |-> IF ~found \/ v < 3 THEN "none"
                                            ELSE IF v = 3 THEN "plain" ELSE "hashed"]
           /\ guarded = (v = 4)
           /\ settings = found
<1>1. PICK v \in 0..Latest :
        /\ applied = 1..v
        /\ found \in (IF v = 0 THEN BOOLEAN ELSE {TRUE})
        /\ default \in {D \in SUBSET Providers : v >= 2 => Cardinality(D) <= 1}
        /\ ~found => default = {}
        /\ plain = IF found /\ v < 4 THEN Providers ELSE {}
        /\ client = [p \in Providers |-> CASE ~found \/ v < 3 -> "none"
                                           [] v = 3 -> "plain"
                                           [] v = 4 -> "hashed"]
        /\ guarded = (v = 4)
        /\ settings = found
        /\ admin \in (IF found THEN BOOLEAN ELSE {FALSE})
  BY DEF Init
<1>2. v \in {0, 1, 2, 3, 4}
  BY DEF Latest
<1>3. found \in BOOLEAN /\ admin \in BOOLEAN /\ (v # 0 => found)
  BY <1>1
<1>4. /\ v = 0 => applied = {}
      /\ v = 1 => applied = {1}
      /\ v = 2 => applied = {1, 2}
      /\ v = 3 => applied = {1, 2, 3}
      /\ v = 4 => applied = {1, 2, 3, 4}
  BY <1>1
<1>5. client = [p \in Providers |-> IF ~found \/ v < 3 THEN "none"
                                    ELSE IF v = 3 THEN "plain" ELSE "hashed"]
  <2>1. CASE v \in {0, 1, 2}
    BY <1>1, <2>1
  <2>2. CASE v = 3
    BY <1>1, <1>3, <2>2
  <2>3. CASE v = 4
    BY <1>1, <1>3, <2>3
  <2>4. QED
    BY <1>2, <2>1, <2>2, <2>3
<1>6. QED
  BY <1>1, <1>2, <1>3, <1>4, <1>5

LEMMA DbInvInit == Init => DbInv
<1> SUFFICES ASSUME Init PROVE DbInv
  OBVIOUS
<1>1. PICK v \in 0..Latest :
        /\ \/ v = 0 /\ applied = {}
           \/ v = 1 /\ applied = {1} /\ found
           \/ v = 2 /\ applied = {1, 2} /\ found
           \/ v = 3 /\ applied = {1, 2, 3} /\ found
           \/ v = 4 /\ applied = {1, 2, 3, 4} /\ found
        /\ default \in SUBSET Providers
        /\ v >= 2 => Cardinality(default) <= 1
        /\ found \in BOOLEAN /\ admin \in BOOLEAN
        /\ ~found => default = {}
        /\ plain = IF found /\ v < 4 THEN Providers ELSE {}
        /\ client = [p \in Providers |-> IF ~found \/ v < 3 THEN "none"
                                         ELSE IF v = 3 THEN "plain" ELSE "hashed"]
        /\ guarded = (v = 4)
        /\ settings = found
  BY InitVersion
<1>2. /\ completed = admin /\ pc = "none" /\ todo = {} /\ initialized = FALSE /\ timer = FALSE
      /\ calls = [c \in Callers |-> "idle"] /\ seed \in Seeds /\ legacy = Now /\ faults = 0
  BY DEF Init
<1>3. DbTyped
  <2>1. /\ guarded \in BOOLEAN /\ settings \in BOOLEAN /\ completed \in BOOLEAN
        /\ initialized \in BOOLEAN /\ timer \in BOOLEAN
    BY <1>1, <1>2
  <2>2. client \in [Providers -> {"none", "plain", "hashed"}] /\ plain \in SUBSET Providers
    BY <1>1
  <2>3. calls \in [Callers -> {"idle", "waiting", "ready", "rejected"}]
    BY <1>2
  <2>4. faults \in 0..MaxFaults
    BY <1>2, DatabaseAssumption DEF DatabaseAssumption
  <2>5. QED
    BY <1>1, <1>2, <2>1, <2>2, <2>3, <2>4 DEF DbTyped
<1>4. Versioned /\ Opened
  BY <1>1, <1>2 DEF Versioned, Opened
<1>5. Migrated
  <2>1. CASE v = 4
    <3>1. guarded /\ found
      <4>1. guarded = (v = 4)
        BY <1>1
      <4>2. guarded
        BY <2>1, <4>1
      <4>3. found
        BY <1>1, <2>1
      <4>4. QED
        BY <4>2, <4>3
    <3>2. plain = {}
      BY <1>1, <2>1
    <3>3. \A p \in Providers : client[p] = "hashed"
      BY <1>1, <2>1, <3>1
    <3>4. Cardinality(default) <= 1
      BY <1>1, <2>1
    <3>5. QED
      BY <1>2, <3>1, <3>2, <3>3, <3>4 DEF Migrated
  <2>2. CASE v = 3
    BY <1>1, <1>2, <2>2 DEF Migrated
  <2>3. CASE v \in {0, 1, 2}
    BY <1>1, <1>2, <2>3 DEF Migrated
  <2>4. QED
    BY <1>1, <2>1, <2>2, <2>3
<1>6. ClientsKept
  BY <1>2 DEF ClientsKept, Now
<1>7. QED
  BY <1>3, <1>4, <1>5, <1>6 DEF DbInv

\* An attempt breaks off, or has not begun; what is in the file stays.
LEMMA BreaksOff ==
  ASSUME DbInv, UNCHANGED <<file, legacy, seed>>, pc' = "none", todo' = {},
         calls' \in [Callers -> {"idle", "waiting", "ready", "rejected"}],
         faults' \in 0..MaxFaults,
         initialized' = FALSE \/ (initialized' = initialized /\ timer' = timer),
         timer' \in BOOLEAN
  PROVE  DbInv'
<1> USE DEF DbInv, file, rows
<1>1. DbTyped'
  BY DEF DbTyped
<1>2. Versioned'
  BY DEF Versioned
<1>3. Opened'
  BY DEF Opened, DbTyped
<1>4. Migrated'
  BY DEF Migrated, DbTyped, Versioned
<1>5. ClientsKept'
  BY DEF ClientsKept
<1>6. QED
  BY <1>1, <1>2, <1>3, <1>4, <1>5

LEMMA AnswersTyped ==
  ASSUME DbTyped, NEW a \in {"ready", "rejected"}, Answers(a)
  PROVE  calls' \in [Callers -> {"idle", "waiting", "ready", "rejected"}]
BY DEF DbTyped, Answers

\* The steps before and after the migrations.
LEMMA OpeningNext ==
  ASSUME DbInv,
         \/ \E c \in Callers : Call(c)
         \/ Open \/ CheckSource \/ Snapshot \/ Verify
         \/ CreateSettings \/ SeedAdmin \/ SetFlag \/ Finish
         \/ StatementFails \/ Killed
  PROVE  DbInv'
<1> USE DEF DbInv, file, rows, environment, Quiet, Goes
<1>1. ASSUME NEW c \in Callers, Call(c) PROVE DbInv'
  <2>1. DbTyped'
    <3>1. calls' \in [Callers -> {"idle", "waiting", "ready", "rejected"}]
      BY <1>1 DEF Call, DbTyped
    <3>2. pc' \in Attempt \cup {"none"}
      BY <1>1 DEF Call, DbTyped, Attempt
    <3>3. UNCHANGED <<file, todo, initialized, timer, environment, faults>>
      BY <1>1 DEF Call
    <3>4. QED
      BY <3>1, <3>2, <3>3 DEF DbTyped
  <2>2. Versioned' /\ Opened' /\ Migrated'
    BY <1>1 DEF Call, Versioned, Opened, Migrated
  <2>3. ClientsKept'
    BY <1>1 DEF Call, ClientsKept
  <2>4. QED
    BY <2>1, <2>2, <2>3
<1>2. CASE Open
  <2>1. pc' = (IF found /\ 4 \notin applied THEN "check" ELSE After(applied))
    BY <1>2, VersionIsLast DEF Open
  <2>2. /\ pc = "open" /\ found' = TRUE
        /\ UNCHANGED <<applied, rows, guarded, settings, admin, completed, todo, initialized,
                       timer, calls, seed, legacy, faults>>
    BY <1>2 DEF Open
  <2>3. /\ pc' \in {"check", "tables", "one default", "users", "column", "settings"}
        /\ pc' = "check" => 4 \notin applied
        /\ pc' = "tables" => applied = {}
        /\ pc' = "one default" => applied = {1}
        /\ pc' = "users" => applied = {1, 2}
        /\ pc' = "column" => applied = {1, 2, 3}
        /\ pc' = "settings" => applied = {1, 2, 3, 4}
    BY <2>1, Afters DEF Versioned
  <2>4. DbTyped'
    BY <2>2, <2>3 DEF DbTyped, Attempt
  <2>5. Versioned'
    BY <2>2, <2>3 DEF Versioned
  <2>6. Opened' /\ Migrated' /\ ClientsKept'
    BY <2>2, <2>3 DEF Opened, Migrated, ClientsKept
  <2>7. QED
    BY <2>4, <2>5, <2>6
<1>3. CASE CheckSource \/ Snapshot
  <2>1. /\ UNCHANGED <<file, todo, initialized, timer, calls, environment, faults>>
        /\ pc \in {"check", "snapshot"} /\ pc' \in {"snapshot", "verify"}
    BY <1>3 DEF CheckSource, Snapshot
  <2>2. DbTyped'
    BY <2>1 DEF DbTyped, Attempt
  <2>3. Versioned' /\ Opened' /\ Migrated' /\ ClientsKept'
    BY <2>1 DEF Versioned, Opened, Migrated, ClientsKept
  <2>4. QED
    BY <2>2, <2>3
<1>4. CASE Verify
  <2>1. CASE pc' = After(applied) /\ UNCHANGED <<todo, initialized, timer, calls, faults>>
    <3>1. pc = "verify" /\ UNCHANGED <<file, environment>>
      BY <1>4 DEF Verify
    <3>2. /\ pc' \in {"tables", "one default", "users", "column"}
          /\ pc' = "tables" => applied = {}
          /\ pc' = "one default" => applied = {1}
          /\ pc' = "users" => applied = {1, 2}
          /\ pc' = "column" => applied = {1, 2, 3}
      BY <2>1, <3>1, Afters DEF Versioned
    <3>3. DbTyped'
      BY <2>1, <3>1, <3>2 DEF DbTyped, Attempt
    <3>4. Versioned'
      BY <2>1, <3>1, <3>2 DEF Versioned
    <3>5. Opened' /\ Migrated' /\ ClientsKept'
      BY <2>1, <3>1, <3>2 DEF Opened, Migrated, ClientsKept
    <3>6. QED
      BY <3>3, <3>4, <3>5
  <2>2. CASE faults < MaxFaults /\ faults' = faults + 1 /\ Rejects
    <3>1. calls' \in [Callers -> {"idle", "waiting", "ready", "rejected"}]
      BY <2>2, AnswersTyped DEF Rejects
    <3>2. faults' \in 0..MaxFaults
      BY <2>2, DatabaseAssumption DEF DatabaseAssumption, DbTyped
    <3>3. QED
      BY <1>4, <2>2, <3>1, <3>2, BreaksOff DEF Verify, Rejects, DbTyped
  <2>3. QED
    BY <1>4, <2>1, <2>2 DEF Verify
<1>5. CASE CreateSettings \/ SetFlag
  <2>1. /\ UNCHANGED <<found, applied, rows, guarded, admin, todo, initialized, timer, calls,
                       environment, faults>>
        /\ settings' = TRUE \/ settings' = settings
        /\ completed' = TRUE \/ completed' = completed
        /\ \/ pc = "settings" /\ pc' = "admin" /\ settings'
           \/ pc = "flag" /\ pc' = "finish" /\ completed' /\ settings' = settings
    BY <1>5 DEF CreateSettings, SetFlag
  <2>2. DbTyped'
    BY <2>1 DEF DbTyped, Attempt
  <2>3. Versioned'
    BY <2>1 DEF Versioned
  <2>4. Opened'
    BY <2>1 DEF Opened
  <2>5. Migrated' /\ ClientsKept'
    BY <2>1 DEF Versioned, Migrated, ClientsKept
  <2>6. QED
    BY <2>2, <2>3, <2>4, <2>5
<1>6. CASE SeedAdmin
  <2>1. /\ pc = "admin"
        /\ UNCHANGED <<found, applied, rows, guarded, settings, environment, faults>>
    BY <1>6 DEF SeedAdmin
  <2>2. CASE Rejects /\ UNCHANGED <<admin, completed>>
    <3>1. calls' \in [Callers -> {"idle", "waiting", "ready", "rejected"}]
      BY <2>2, AnswersTyped DEF Rejects
    <3>2. QED
      BY <2>1, <2>2, <3>1, BreaksOff DEF Rejects, DbTyped
  <2>3. CASE /\ UNCHANGED <<todo, initialized, timer, calls>>
             /\ admin' \in BOOLEAN /\ completed' \in BOOLEAN
             /\ pc' \in {"flag", "finish"}
             /\ pc' = "finish" => (admin' => completed')
    <3>1. DbTyped'
      BY <2>1, <2>3 DEF DbTyped, Attempt
    <3>2. Versioned'
      BY <2>1, <2>3 DEF Versioned
    <3>3. Opened'
      BY <2>1, <2>3 DEF Opened
    <3>4. Migrated' /\ ClientsKept'
      BY <2>1, <2>3 DEF Versioned, Migrated, ClientsKept
    <3>5. QED
      BY <3>1, <3>2, <3>3, <3>4
  <2>4. QED
    BY <1>6, <2>2, <2>3 DEF SeedAdmin, DbTyped
<1>7. CASE Finish
  <2>1. /\ pc = "finish" /\ pc' = "none" /\ initialized' = TRUE /\ timer' = TRUE
        /\ UNCHANGED <<file, todo, environment, faults>>
    BY <1>7 DEF Finish
  <2>2. DbTyped'
    BY <1>7, <2>1, AnswersTyped DEF Finish, DbTyped
  <2>3. Versioned' /\ Opened'
    BY <2>1 DEF Versioned, Opened
  <2>4. Migrated' /\ ClientsKept'
    BY <2>1 DEF Migrated, ClientsKept
  <2>5. QED
    BY <2>2, <2>3, <2>4
<1>8. CASE StatementFails
  <2>1. calls' \in [Callers -> {"idle", "waiting", "ready", "rejected"}]
    BY <1>8, AnswersTyped DEF StatementFails, Rejects
  <2>2. faults' \in 0..MaxFaults
    BY <1>8, DatabaseAssumption DEF StatementFails, DatabaseAssumption, DbTyped
  <2>3. QED
    BY <1>8, <2>1, <2>2, BreaksOff DEF StatementFails, Rejects, DbTyped
<1>9. CASE Killed
  <2>1. faults' \in 0..MaxFaults
    BY <1>9, DatabaseAssumption DEF Killed, DatabaseAssumption, DbTyped
  <2>2. QED
    BY <1>9, <2>1, BreaksOff DEF Killed, DbTyped
<1>10. QED
  BY <1>1, <1>2, <1>3, <1>4, <1>5, <1>6, <1>7, <1>8, <1>9

\* A step of the migrations changes neither who waits nor what was there.
Migrating == {"tables", "record1", "one default", "index", "record2", "users", "copy", "record3",
              "column", "hash", "wipe", "guard", "record4"}
Within == UNCHANGED <<found, settings, admin, completed, initialized, timer, calls, environment, faults>>

LEMMA FirstOnly ==
  ASSUME NEW S, S = {1}
  PROVE  2 \notin S /\ 3 \notin S /\ 4 \notin S
OBVIOUS

LEMMA MigrationsNext ==
  ASSUME DbInv,
         \/ CreateTables \/ RecordMigration \/ KeepOneDefault \/ CreateIndexes
         \/ CreateUsersTable \/ CopyClient \/ AddHashColumn \/ HashPassword
         \/ WipeLegacy \/ CreateTriggers
  PROVE  DbInv'
<1> USE DEF DbInv, Goes, rows
<1>1. Within
  BY DEF CreateTables, RecordMigration, Record, KeepOneDefault, CreateIndexes, CreateUsersTable,
         CopyClient, AddHashColumn, HashPassword, WipeLegacy, CreateTriggers, Quiet, Within, file
<1> DEFINE Moves(p, q) == pc = p /\ pc' = q
<1>2. pc \in Migrating
  BY DEF CreateTables, RecordMigration, KeepOneDefault, CreateIndexes, CreateUsersTable,
         CopyClient, AddHashColumn, HashPassword, WipeLegacy, CreateTriggers, Migrating
<1>3. ASSUME pc' \in Migrating \cup {"settings"},
             default' \in SUBSET Providers, plain' \in SUBSET Providers, guarded' \in BOOLEAN,
             client' \in [Providers -> {"none", "plain", "hashed"}], todo' \in SUBSET Providers
      PROVE  DbTyped' /\ Opened'
  <2>1. pc' \in Attempt \cup {"none"}
    BY <1>3 DEF Migrating, Attempt
  <2>2. DbTyped'
    BY <1>1, <1>3, <2>1 DEF Within, environment, DbTyped
  <2>3. Opened'
    BY <1>1, <1>2, <1>3 DEF Within, Opened, Migrating
  <2>4. QED
    BY <2>2, <2>3
<1>4. CASE CreateTables \/ CreateIndexes
  <2>1. /\ UNCHANGED <<applied, default, plain, client, guarded, todo>>
        /\ \/ Moves("tables", "record1")
           \/ Moves("index", "record2") /\ Cardinality(default) <= 1
    BY <1>4 DEF CreateTables, CreateIndexes, Quiet, file
  <2>2. DbTyped' /\ Opened'
    BY <1>3, <2>1 DEF Migrating, DbTyped
  <2>3. Versioned' /\ Migrated'
    BY <2>1 DEF Versioned, Migrated
  <2>4. ClientsKept'
    BY <1>1, <2>1 DEF ClientsKept, Within, environment
  <2>5. QED
    BY <2>2, <2>3, <2>4
<1>5. CASE RecordMigration
  <2>1. /\ UNCHANGED <<default, plain, client, guarded, todo>>
        /\ \/ Moves("record1", "one default") /\ applied' = {1}
           \/ Moves("record2", "users") /\ applied' = {1, 2}
           \/ Moves("record3", "column") /\ applied' = {1, 2, 3}
           \/ Moves("record4", "settings") /\ applied' = {1, 2, 3, 4}
    <3>1. CASE pc = "record1" /\ Record(1)
      <4>1. applied \cup {1} = {1}
        BY <3>1 DEF Versioned
      <4>2. QED
        BY <3>1, <4>1, Afters DEF Record, Quiet
    <3>2. CASE pc = "record2" /\ Record(2)
      <4>1. applied \cup {2} = {1, 2}
        BY <3>2 DEF Versioned
      <4>2. QED
        BY <3>2, <4>1, Afters DEF Record, Quiet
    <3>3. CASE pc = "record3" /\ Record(3)
      <4>1. applied \cup {3} = {1, 2, 3}
        BY <3>3 DEF Versioned
      <4>2. QED
        BY <3>3, <4>1, Afters DEF Record, Quiet
    <3>4. CASE pc = "record4" /\ Record(4)
      <4>1. applied \cup {4} = {1, 2, 3, 4}
        BY <3>4 DEF Versioned
      <4>2. QED
        BY <3>4, <4>1, Afters DEF Record, Quiet
    <3>5. QED
      BY <1>5, <3>1, <3>2, <3>3, <3>4 DEF RecordMigration
  <2>2. DbTyped' /\ Opened'
    BY <1>3, <2>1 DEF Migrating, DbTyped
  <2>3. Versioned'
    BY <2>1 DEF Versioned
  <2>4. Migrated'
    <3>1. CASE Moves("record1", "one default") /\ applied' = {1}
      <4>1. 2 \notin applied' /\ 3 \notin applied' /\ 4 \notin applied'
        BY <3>1, FirstOnly
      <4>2. QED
        BY <2>1, <3>1, <4>1 DEF Migrated
    <3>2. CASE Moves("record2", "users") /\ applied' = {1, 2}
      BY <2>1, <3>2 DEF Migrated
    <3>3. CASE Moves("record3", "column") /\ applied' = {1, 2, 3}
      BY <2>1, <3>3 DEF Migrated, Versioned
    <3>4. CASE Moves("record4", "settings") /\ applied' = {1, 2, 3, 4}
      BY <2>1, <3>4 DEF Migrated, Versioned
    <3>5. QED
      BY <2>1, <3>1, <3>2, <3>3, <3>4
  <2>5. ClientsKept'
    BY <1>1, <2>1 DEF ClientsKept, Within, environment
  <2>6. QED
    BY <2>2, <2>3, <2>4, <2>5
<1>6. CASE KeepOneDefault
  <2>1. PICK p \in Providers : default' = (IF default = {} THEN {} ELSE {p})
    BY <1>6 DEF KeepOneDefault
  <2>2. /\ default' \subseteq default /\ Moves("one default", "index")
        /\ UNCHANGED <<applied, plain, client, guarded, todo>>
    BY <1>6 DEF KeepOneDefault, Quiet
  <2>3. DbTyped' /\ Opened'
    BY <1>3, <2>2 DEF Migrating, DbTyped
  <2>4. Versioned'
    BY <2>2 DEF Versioned
  <2>5. Migrated'
    <3>1. applied' = {1}
      BY <2>2 DEF Versioned
    <3>2. 2 \notin applied' /\ 3 \notin applied' /\ 4 \notin applied'
      BY <3>1, FirstOnly
    <3>3. QED
      BY <2>2, <3>2 DEF Migrated
  <2>6. ClientsKept'
    BY <1>1, <2>2 DEF ClientsKept, Within, environment
  <2>7. QED
    BY <2>3, <2>4, <2>5, <2>6
<1>7. CASE CreateUsersTable \/ AddHashColumn
  <2>1. /\ UNCHANGED <<applied, default, plain, client, guarded>>
        /\ \/ Moves("users", "copy") /\ todo' = plain
           \/ Moves("column", "hash") /\ todo' = {p \in Providers : client[p] # "none"}
    BY <1>7 DEF CreateUsersTable, AddHashColumn, file
  <2>2. DbTyped' /\ Opened'
    BY <1>3, <2>1 DEF Migrating, DbTyped
  <2>3. Versioned'
    BY <2>1 DEF Versioned
  <2>4. Migrated'
    BY <2>1 DEF Migrated, Versioned, DbTyped
  <2>5. ClientsKept'
    BY <1>1, <2>1 DEF ClientsKept, Within, environment
  <2>6. QED
    BY <2>2, <2>3, <2>4, <2>5
<1>8. CASE (CopyClient \/ HashPassword) /\ todo = {} /\ UNCHANGED <<client, todo>>
  <2>1. /\ UNCHANGED <<applied, default, plain, guarded>>
        /\ Moves("copy", "record3") \/ Moves("hash", "wipe")
    BY <1>8 DEF CopyClient, HashPassword
  <2>2. DbTyped' /\ Opened'
    BY <1>3, <1>8, <2>1 DEF Migrating, DbTyped
  <2>3. Versioned'
    BY <2>1 DEF Versioned
  <2>4. Migrated'
    BY <1>8, <2>1 DEF Migrated, DbTyped
  <2>5. ClientsKept'
    BY <1>1, <1>8, <2>1 DEF ClientsKept, Within, environment
  <2>6. QED
    BY <2>2, <2>3, <2>4, <2>5
<1>9. ASSUME NEW p \in todo, todo' = todo \ {p}, UNCHANGED <<applied, default, plain, guarded, pc>>,
             \/ pc = "copy" /\ client' = [client EXCEPT ![p] = IF @ = "none" THEN "plain" ELSE @]
             \/ pc = "hash" /\ client' = [client EXCEPT ![p] = "hashed"]
      PROVE  DbInv'
  <2>1. /\ client' \in [Providers -> {"none", "plain", "hashed"}]
        /\ client'[p] # "none"
        /\ \A q \in Providers \ {p} : client'[q] = client[q]
        /\ pc = "hash" => client'[p] # "plain"
        /\ p \in Providers
    BY <1>9 DEF DbTyped
  <2>2. DbTyped' /\ Opened'
    BY <1>2, <1>3, <1>9, <2>1 DEF DbTyped
  <2>3. Versioned'
    BY <1>9 DEF Versioned
  <2>4. Migrated'
    <3>1. CASE pc = "copy"
      BY <1>9, <2>1, <3>1 DEF Migrated, Versioned, DbTyped
    <3>2. CASE pc = "hash"
      BY <1>9, <2>1, <3>2 DEF Migrated, Versioned, DbTyped
    <3>3. QED
      BY <1>9, <3>1, <3>2
  <2>5. ClientsKept'
    BY <1>1, <1>9, <2>1 DEF ClientsKept, Within, environment
  <2>6. QED
    BY <2>2, <2>3, <2>4, <2>5
<1>10. CASE CopyClient \/ HashPassword
  <2>1. UNCHANGED <<applied, default, plain, guarded>>
    BY <1>10 DEF CopyClient, HashPassword
  <2>2. CASE todo = {} /\ UNCHANGED <<client, todo>>
    BY <1>8, <1>10, <2>2
  <2>3. CASE \E p \in todo :
               /\ todo' = todo \ {p}
               /\ UNCHANGED pc
               /\ \/ pc = "copy" /\ client' = [client EXCEPT ![p] = IF @ = "none" THEN "plain" ELSE @]
                  \/ pc = "hash" /\ client' = [client EXCEPT ![p] = "hashed"]
    BY <1>9, <2>1, <2>3
  <2>4. QED
    BY <1>10, <2>2, <2>3 DEF CopyClient, HashPassword
<1>11. CASE WipeLegacy
  <2>1. /\ UNCHANGED <<applied, default, client, guarded, todo>>
        /\ Moves("wipe", "guard") /\ plain' = {}
    BY <1>11 DEF WipeLegacy, Quiet
  <2>2. DbTyped' /\ Opened'
    BY <1>3, <2>1 DEF Migrating, DbTyped
  <2>3. Versioned' /\ Migrated'
    BY <2>1 DEF Versioned, Migrated
  <2>4. \A p \in plain : client[p] # "none"
    BY <2>1 DEF Versioned, Migrated
  <2>5. ClientsKept'
    BY <1>1, <2>1, <2>4 DEF ClientsKept, Within, environment
  <2>6. QED
    BY <2>2, <2>3, <2>5
<1>12. CASE CreateTriggers
  <2>1. /\ UNCHANGED <<applied, default, plain, client, todo>>
        /\ Moves("guard", "record4") /\ guarded' = TRUE
    BY <1>12 DEF CreateTriggers, Quiet
  <2>2. DbTyped' /\ Opened'
    BY <1>3, <2>1 DEF Migrating, DbTyped
  <2>3. Versioned' /\ Migrated'
    BY <2>1 DEF Versioned, Migrated
  <2>4. ClientsKept'
    BY <1>1, <2>1 DEF ClientsKept, Within, environment
  <2>5. QED
    BY <2>2, <2>3, <2>4
<1>13. QED
  BY <1>4, <1>5, <1>6, <1>7, <1>10, <1>11, <1>12

LEMMA DbInvNext == DbInv /\ [Next]_vars => DbInv'
<1> SUFFICES ASSUME DbInv, [Next]_vars PROVE DbInv'
  OBVIOUS
<1>1. CASE UNCHANGED vars
  <2>1. UNCHANGED <<found, applied, default, plain, client, guarded, settings, admin, completed,
                    pc, todo, initialized, timer, calls, seed, legacy, faults>>
    BY <1>1 DEF vars, file, rows, process, environment
  <2>2. DbTyped'
    BY <2>1 DEF DbInv, DbTyped
  <2>3. Versioned'
    BY <2>1 DEF DbInv, Versioned
  <2>4. Opened' /\ Migrated' /\ ClientsKept'
    BY <2>1 DEF DbInv, Opened, Migrated, ClientsKept
  <2>5. QED
    BY <2>2, <2>3, <2>4 DEF DbInv
<1>2. CASE Next
  BY <1>2, OpeningNext, MigrationsNext DEF Next, Proceed, RunMigrations
<1>3. QED
  BY <1>1, <1>2

LEMMA DbCorrect == Spec => []DbInv
BY DbInvInit, DbInvNext, PTL DEF Spec

\* No client loses its password, whichever statement of migrations 3 and 4
\* fails and whenever the process is killed (lib/db/migrations).
THEOREM PasswordsKept == Spec => []ClientsKept
<1>1. DbInv => ClientsKept
  BY DEF DbInv
<1>2. QED
  BY <1>1, DbCorrect, PTL

\* What handlers rely on after initDatabase holds, however many attempts it
\* took: complete migrations, no plain text, one default provider at most.
THEOREM ReadyIsMigrated == Spec => []ReadyMeansMigrated
<1>1. DbInv => ReadyMeansMigrated
  <2> SUFFICES ASSUME DbInv, initialized
               PROVE  /\ applied = 1..Latest /\ guarded /\ settings
                      /\ plain = {} /\ \A p \in Providers : client[p] # "plain"
                      /\ Cardinality(default) <= 1
                      /\ admin => completed
    BY DEF ReadyMeansMigrated
  <2>1. applied = {1, 2, 3, 4} /\ settings /\ (admin => completed)
    BY DEF DbInv, Opened
  <2>2. 1..Latest = {1, 2, 3, 4}
    BY DEF Latest
  <2>3. QED
    BY <2>1, <2>2 DEF DbInv, Migrated
<1>2. QED
  BY <1>1, DbCorrect, PTL
-----------------------------------------------------------------------------
(***************************************************************************)
(* The snapshots.                                                          *)
(***************************************************************************)
\* A snapshot that is not verified yet is the newest, and shows the rows.
BackupsTyped ==
  /\ legacy \in Content
  /\ backups \in Seq(Content)
  /\ Len(backups) <= MaxBackups + faults + (IF pc = "verify" THEN 1 ELSE 0)
  /\ pc = "verify" => backups # <<>> /\ backups[1] = Now

\* A database without rows stays one, and needs no snapshot.
Empty == [default |-> {}, plain |-> {}, client |-> [p \in Providers |-> "none"]]

EmptyStays ==
  /\ ~found => legacy = Empty
  /\ legacy = Empty => Now = Empty

\* Every attempt that broke off put at most one snapshot in front of the first.
Depth ==
  IF pc \in {"none", "open", "check", "snapshot"} /\ 4 \notin applied THEN faults ELSE faults + 1

OriginalSaved ==
  faults < MaxBackups /\ (Now # legacy \/ (pc \in Migrating /\ legacy # Empty)) =>
    \E i \in 1..Len(backups) : i <= Depth /\ backups[i] = legacy

BackupInv == BackupsTyped /\ EmptyStays /\ OriginalSaved

\* VACUUM INTO, pruneMigrationBackups and the removal of a bad snapshot.
LEMMA PushFacts ==
  ASSUME NEW s \in Seq(Content), NEW x \in Content
  PROVE  /\ <<x>> \o s \in Seq(Content)
         /\ Len(s) \in Nat
         /\ Len(<<x>> \o s) = Len(s) + 1
         /\ <<x>> \o s # <<>>
         /\ (<<x>> \o s)[1] = x
         /\ \A i \in 1..Len(s) : (<<x>> \o s)[i + 1] = s[i]
<1>1. <<x>> \in Seq(Content) /\ Len(<<x>>) = 1 /\ <<x>>[1] = x
  OBVIOUS
<1>2. Len(s) \in Nat
  BY LenProperties
<1>3. <<x>> \o s \in Seq(Content) /\ Len(<<x>> \o s) = Len(s) + 1
  BY <1>1, <1>2, ConcatProperties
<1>4. <<x>> \o s # <<>>
  BY <1>2, <1>3, EmptySeq
<1>5. (<<x>> \o s)[1] = x
  BY <1>1, <1>2, <1>3
<1>6. ASSUME NEW i \in 1..Len(s) PROVE (<<x>> \o s)[i + 1] = s[i]
  BY <1>1, <1>2, <1>3
<1>7. QED
  BY <1>2, <1>3, <1>4, <1>5, <1>6

LEMMA PruneFacts ==
  ASSUME NEW s \in Seq(Content)
  PROVE  /\ Prune(s) \in Seq(Content)
         /\ Len(Prune(s)) \in Nat /\ Len(Prune(s)) <= MaxBackups
         /\ \A i \in 1..Len(s) : i <= MaxBackups => i \in 1..Len(Prune(s)) /\ Prune(s)[i] = s[i]
<1> DEFINE n == IF Len(s) < MaxBackups THEN Len(s) ELSE MaxBackups
<1>1. Len(s) \in Nat /\ MaxBackups \in Nat
  BY LenProperties, DatabaseAssumption DEF DatabaseAssumption
<1>2. n \in 0..Len(s) /\ n <= MaxBackups /\ \A i \in 1..Len(s) : i <= MaxBackups => i <= n
  BY <1>1
<1>3. Prune(s) = SubSeq(s, 1, n)
  BY DEF Prune
<1> HIDE DEF n
<1>4. SubSeq(s, 1, n) \in Seq(Content) /\ Len(SubSeq(s, 1, n)) = n
  BY <1>1, <1>2
<1>5. \A i \in 1..n : SubSeq(s, 1, n)[i] = s[i]
  BY <1>1, <1>2
<1>6. QED
  BY <1>1, <1>2, <1>3, <1>4, <1>5

LEMMA DropFacts ==
  ASSUME NEW s \in Seq(Content), s # <<>>
  PROVE  /\ Tail(s) \in Seq(Content)
         /\ Len(s) \in Nat \ {0}
         /\ Len(Tail(s)) = Len(s) - 1
         /\ \A i \in 2..Len(s) : i - 1 \in 1..Len(Tail(s)) /\ Tail(s)[i - 1] = s[i]
<1>1. Len(s) \in Nat \ {0}
  BY EmptySeq
<1>2. /\ Tail(s) \in Seq(Content) /\ Len(Tail(s)) = Len(s) - 1
      /\ \A i \in 1..Len(Tail(s)) : Tail(s)[i] = s[i + 1]
  BY HeadTailProperties
<1>3. ASSUME NEW i \in 2..Len(s)
      PROVE  i - 1 \in 1..Len(Tail(s)) /\ Tail(s)[i - 1] = s[i]
  <2>1. i - 1 \in 1..Len(Tail(s)) /\ (i - 1) + 1 = i
    BY <1>1, <1>2
  <2>2. QED
    BY <1>2, <2>1
<1>4. QED
  BY <1>1, <1>2, <1>3

LEMMA NowTyped == DbTyped => Now \in Content
BY DEF DbTyped, Now, Content

LEMMA BackupInvInit == Init => BackupInv
<1> SUFFICES ASSUME Init PROVE BackupInv
  OBVIOUS
<1>1. backups = <<>> /\ legacy = Now /\ pc = "none" /\ faults = 0
  BY DEF Init
<1>2. BackupsTyped
  BY <1>1, EmptySeq, DbInvInit, NowTyped, DatabaseAssumption
  DEF BackupsTyped, DbInv, DatabaseAssumption
<1>3. EmptyStays
  <2>1. ASSUME ~found PROVE default = {} /\ plain = {} /\ client = [p \in Providers |-> "none"]
    BY <2>1, InitVersion
  <2>2. QED
    BY <1>1, <2>1 DEF EmptyStays, Now, Empty
<1>4. OriginalSaved
  BY <1>1 DEF OriginalSaved, Migrating
<1>5. QED
  BY <1>2, <1>3, <1>4 DEF BackupInv

\* The rows of a database that has none do not change.
LEMMA EmptyRows ==
  ASSUME DbInv, Now = Empty,
         \/ CreateTables \/ RecordMigration \/ KeepOneDefault \/ CreateIndexes
         \/ CreateUsersTable \/ CopyClient \/ AddHashColumn \/ HashPassword
         \/ WipeLegacy \/ CreateTriggers
  PROVE  Now' = Empty
<1>1. default = {} /\ plain = {} /\ client = [p \in Providers |-> "none"]
  BY DEF Now, Empty
<1>2. default' = {} /\ plain' = {}
  BY <1>1 DEF CreateTables, RecordMigration, Record, KeepOneDefault, CreateIndexes, CreateUsersTable,
         CopyClient, AddHashColumn, HashPassword, WipeLegacy, CreateTriggers, Quiet, file, rows
<1>3. \/ client' = client
      \/ \E p \in todo : pc \in {"copy", "hash"}
  BY DEF CreateTables, RecordMigration, Record, KeepOneDefault, CreateIndexes, CreateUsersTable,
         CopyClient, AddHashColumn, HashPassword, WipeLegacy, CreateTriggers, Quiet, file, rows
<1>4. pc \in {"copy", "hash"} => todo = {}
  BY <1>1 DEF DbInv, DbTyped, Migrated
<1>5. QED
  BY <1>1, <1>2, <1>3, <1>4 DEF Now, Empty

LEMMA MigrationsKeepBackups ==
  ASSUME DbInv, BackupInv,
         \/ CreateTables \/ RecordMigration \/ KeepOneDefault \/ CreateIndexes
         \/ CreateUsersTable \/ CopyClient \/ AddHashColumn \/ HashPassword
         \/ WipeLegacy \/ CreateTriggers
  PROVE  BackupInv'
<1>1. UNCHANGED <<found, backups, legacy, faults>> /\ pc \in Migrating
  BY DEF CreateTables, RecordMigration, Record, KeepOneDefault, CreateIndexes, CreateUsersTable,
         CopyClient, AddHashColumn, HashPassword, WipeLegacy, CreateTriggers, Quiet, file,
         environment, Migrating
<1>2. pc' \notin {"none", "open", "check", "snapshot", "verify"}
  BY Afters
  DEF CreateTables, RecordMigration, Record, KeepOneDefault, CreateIndexes, CreateUsersTable,
      CopyClient, AddHashColumn, HashPassword, WipeLegacy, CreateTriggers, Goes, After
<1>3. BackupsTyped'
  BY <1>1, <1>2 DEF BackupInv, BackupsTyped, Migrating
<1>4. EmptyStays'
  BY <1>1, EmptyRows DEF BackupInv, EmptyStays, Empty
<1>5. OriginalSaved'
  <2>1. SUFFICES ASSUME faults < MaxBackups, Now' # legacy \/ legacy # Empty
                 PROVE  \E i \in 1..Len(backups) : i <= faults + 1 /\ backups[i] = legacy
    BY <1>1, <1>2 DEF OriginalSaved, Depth, Empty
  <2>2. legacy # Empty
    BY <1>1, <1>4, <2>1 DEF EmptyStays, Empty
  <2>3. Depth = faults + 1
    BY <1>1 DEF Depth, Migrating
  <2>4. QED
    BY <1>1, <2>1, <2>2, <2>3 DEF BackupInv, OriginalSaved
<1>6. QED
  BY <1>3, <1>4, <1>5 DEF BackupInv

\* A step that changes neither the rows nor the snapshots.
LEMMA SameRows ==
  ASSUME DbInv, BackupInv, UNCHANGED <<rows, backups, legacy, applied>>, found' = found \/ found' = TRUE,
         faults' \in {faults, faults + 1},
         pc = "verify" => faults' = faults + 1,
         pc' # "verify",
         pc' \in Migrating => pc \in Migrating \/ legacy = Empty,
         Depth <= Depth'
  PROVE  BackupInv'
<1>1. Now' = Now /\ faults \in Nat
  BY DatabaseAssumption DEF rows, Now, DbInv, DbTyped, DatabaseAssumption
<1>2. BackupsTyped'
  <2>1. Len(backups) \in Nat /\ MaxBackups \in Nat
    BY LenProperties, DatabaseAssumption DEF DatabaseAssumption, BackupInv, BackupsTyped
  <2>2. Len(backups) <= MaxBackups + faults'
    BY <1>1, <2>1 DEF BackupInv, BackupsTyped
  <2>3. QED
    BY <1>1, <2>1, <2>2 DEF BackupInv, BackupsTyped, Content
<1>3. EmptyStays'
  BY <1>1 DEF BackupInv, EmptyStays, Empty
<1>4. OriginalSaved'
  <2>1. SUFFICES ASSUME faults' < MaxBackups, Now' # legacy \/ (pc' \in Migrating /\ legacy # Empty)
                 PROVE  \E i \in 1..Len(backups) : i <= Depth' /\ backups[i] = legacy
    BY DEF OriginalSaved, Empty, Migrating
  <2>2. faults < MaxBackups
    BY <1>1, <2>1, DatabaseAssumption DEF DatabaseAssumption
  <2>3. Now # legacy \/ (pc \in Migrating /\ legacy # Empty)
    BY <1>1, <2>1
  <2>4. PICK i \in 1..Len(backups) : i <= Depth /\ backups[i] = legacy
    BY <2>2, <2>3 DEF BackupInv, OriginalSaved
  <2>5. Depth \in Nat /\ Depth' \in Nat /\ i \in Nat
    <3>1. faults + 1 \in Nat /\ faults' + 1 \in Nat /\ faults' \in Nat /\ i \in Nat
      <4>1. CASE faults' = faults
        BY <1>1, <4>1
      <4>2. CASE faults' = faults + 1
        BY <1>1, <4>2
      <4>3. QED
        BY <4>1, <4>2
    <3>2. Depth \in {faults, faults + 1} /\ Depth' \in {faults', faults' + 1}
      BY DEF Depth
    <3>3. QED
      BY <1>1, <3>1, <3>2
  <2>6. i <= Depth'
    BY <2>4, <2>5
  <2>7. QED
    BY <2>4, <2>6
<1>5. QED
  BY <1>2, <1>3, <1>4 DEF BackupInv

LEMMA BreaksOffDeeper ==
  ASSUME DbInv, pc' = "none", faults' = faults + 1, UNCHANGED applied
  PROVE  Depth <= Depth'
<1>1. faults \in Nat
  BY DatabaseAssumption DEF DatabaseAssumption, DbInv, DbTyped
<1>2. QED
  BY <1>1 DEF Depth

LEMMA VerifiedTyped ==
  ASSUME legacy' \in Content, backups' \in Seq(Content), pc' # "verify",
         faults' \in Nat, MaxBackups \in Nat, Len(backups') <= MaxBackups + faults'
  PROVE  BackupsTyped'
<1>1. Content' = Content
  BY DEF Content
<1>2. MaxBackups + faults' + (IF pc' = "verify" THEN 1 ELSE 0) = MaxBackups + faults'
  OBVIOUS
<1>3. QED
  BY <1>1, <1>2 DEF BackupsTyped

\* A snapshot that broke off is one more in front of the first, and costs one fault.
LEMMA UnfinishedKeepsBackups ==
  ASSUME DbInv, BackupInv, pc = "snapshot", backups' = <<Unfinished>> \o backups,
         pc' = "none", faults' = faults + 1, UNCHANGED <<rows, legacy, applied, found>>
  PROVE  BackupInv'
<1>1. /\ Now' = Now /\ Unfinished \in Content
      /\ faults \in Nat /\ MaxBackups \in Nat
  BY DatabaseAssumption DEF rows, Now, Unfinished, Content, DbInv, DbTyped, DatabaseAssumption
<1>2. backups \in Seq(Content) /\ Len(backups) <= MaxBackups + faults
  BY <1>1, LenProperties DEF BackupInv, BackupsTyped
<1>3. /\ backups' \in Seq(Content) /\ Len(backups) \in Nat /\ Len(backups') = Len(backups) + 1
      /\ \A i \in 1..Len(backups) : backups'[i + 1] = backups[i]
  BY <1>1, <1>2, PushFacts
<1>4. BackupsTyped'
  <2>1. Len(backups') <= MaxBackups + faults'
    BY <1>1, <1>2, <1>3
  <2>2. legacy' \in Content /\ faults' \in Nat
    BY <1>1 DEF BackupInv, BackupsTyped
  <2>3. QED
    BY <1>1, <1>3, <2>1, <2>2, VerifiedTyped
<1>5. EmptyStays'
  BY <1>1 DEF BackupInv, EmptyStays, Empty
<1>6. OriginalSaved'
  <2>1. Depth = faults /\ Depth' = faults + 1
    BY DEF Depth, DbInv, Versioned
  <2>2. SUFFICES ASSUME faults' < MaxBackups, Now' # legacy
                 PROVE  \E i \in 1..Len(backups') : i <= faults + 1 /\ backups'[i] = legacy
    BY <2>1 DEF OriginalSaved, Migrating
  <2>3. PICK i \in 1..Len(backups) : i <= faults /\ backups[i] = legacy
    BY <1>1, <2>1, <2>2 DEF BackupInv, OriginalSaved
  <2>4. i + 1 \in 1..Len(backups') /\ i + 1 <= faults + 1
    BY <1>1, <1>3, <2>3
  <2>5. QED
    BY <1>3, <2>3, <2>4
<1>7. QED
  BY <1>4, <1>5, <1>6 DEF BackupInv

LEMMA OpeningKeepsBackups ==
  ASSUME DbInv, BackupInv,
         \/ \E c \in Callers : Call(c)
         \/ Open \/ CheckSource
         \/ CreateSettings \/ SeedAdmin \/ SetFlag \/ Finish
         \/ StatementFails \/ Killed
  PROVE  BackupInv'
<1> USE DEF file, environment, Quiet, Goes
<1>0. faults \in Nat
  BY DatabaseAssumption DEF DatabaseAssumption, DbInv, DbTyped
<1>1. ASSUME NEW c \in Callers, Call(c) PROVE BackupInv'
  <2>1. /\ UNCHANGED <<rows, backups, legacy, applied, found, faults>>
        /\ pc' = pc \/ (pc = "none" /\ pc' = "open")
    BY <1>1 DEF Call
  <2>2. Depth' = Depth
    BY <2>1 DEF Depth
  <2>3. CASE pc' = pc
    BY <2>1, <2>3 DEF BackupInv, BackupsTyped, EmptyStays, OriginalSaved, Depth, Now, Empty,
                      Migrating, rows, Content
  <2>4. CASE pc = "none" /\ pc' = "open"
    <3>1. Depth <= Depth'
      BY <1>0, <2>2 DEF Depth
    <3>2. QED
      BY <2>1, <2>4, <3>1, SameRows DEF Migrating
  <2>5. QED
    BY <2>1, <2>3, <2>4
<1>2. CASE Open
  <2>1. pc' = (IF found /\ 4 \notin applied THEN "check" ELSE After(applied))
    BY <1>2, VersionIsLast DEF Open, DbInv
  <2>2. /\ pc = "open" /\ found' = TRUE
        /\ UNCHANGED <<rows, backups, legacy, applied, faults>>
    BY <1>2 DEF Open
  <2>3. pc' # "verify"
    BY <2>1 DEF After
  <2>4. pc' \in Migrating => ~found
    BY <2>1, Afters DEF DbInv, Versioned, Migrating
  <2>5. pc' \in {"none", "open", "check", "snapshot"} \/ Depth' = faults + 1
    BY <2>2 DEF Depth
  <2>6. Depth <= Depth'
    BY <1>0, <2>1, <2>2 DEF Depth
  <2>7. QED
    BY <2>2, <2>3, <2>4, <2>6, SameRows DEF BackupInv, EmptyStays
<1>3. CASE CheckSource
  <2>1. /\ pc = "check" /\ pc' = "snapshot"
        /\ UNCHANGED <<rows, backups, legacy, applied, found, faults>>
    BY <1>3 DEF CheckSource
  <2>2. Depth <= Depth'
    BY <1>0, <2>1 DEF Depth
  <2>3. QED
    BY <2>1, <2>2, SameRows DEF Migrating
<1>4. CASE CreateSettings \/ SeedAdmin \/ SetFlag \/ Finish
  <2>1. /\ pc \in {"settings", "admin", "flag", "finish"}
        /\ pc' \in {"admin", "flag", "finish", "none"}
        /\ UNCHANGED <<rows, backups, legacy, applied, found, faults>>
    BY <1>4 DEF CreateSettings, SeedAdmin, SetFlag, Finish, Rejects
  <2>2. applied = {1, 2, 3, 4}
    BY <2>1 DEF DbInv, Versioned
  <2>3. Depth <= Depth'
    BY <1>0, <2>1, <2>2 DEF Depth
  <2>4. QED
    BY <2>1, <2>3, SameRows DEF Migrating
<1>5. CASE StatementFails \/ Killed
  <2>1. /\ pc' = "none" /\ faults' = faults + 1 /\ LeavesBackups
        /\ UNCHANGED <<rows, legacy, applied, found>>
    BY <1>5 DEF StatementFails, Killed, Rejects
  <2>2. CASE UNCHANGED backups
    BY <2>1, <2>2, BreaksOffDeeper, SameRows DEF Migrating
  <2>3. CASE pc = "snapshot" /\ backups' = <<Unfinished>> \o backups
    BY <2>1, <2>3, UnfinishedKeepsBackups
  <2>4. QED
    BY <2>1, <2>2, <2>3 DEF LeavesBackups
<1>6. QED
  BY <1>1, <1>2, <1>3, <1>4, <1>5

LEMMA SnapshotKeepsBackups ==
  ASSUME DbInv, BackupInv, Snapshot
  PROVE  BackupInv'
<1>1. /\ pc = "snapshot" /\ pc' = "verify" /\ backups' = <<Now>> \o backups
      /\ UNCHANGED <<rows, legacy, found, applied, faults>>
  BY DEF Snapshot, Goes, file, environment
<1>2. Now' = Now /\ Now \in Content /\ faults \in Nat /\ MaxBackups \in Nat
  BY <1>1, NowTyped, DatabaseAssumption DEF rows, Now, DbInv, DbTyped, DatabaseAssumption
<1>3. backups \in Seq(Content) /\ Len(backups) <= MaxBackups + faults
  BY <1>1, <1>2, LenProperties DEF BackupInv, BackupsTyped
<1>4. /\ backups' \in Seq(Content) /\ Len(backups) \in Nat /\ Len(backups') = Len(backups) + 1
      /\ backups' # <<>> /\ backups'[1] = Now
      /\ \A i \in 1..Len(backups) : backups'[i + 1] = backups[i]
  BY <1>1, <1>2, <1>3, PushFacts
<1>5. BackupsTyped'
  <2>1. Len(backups') <= MaxBackups + faults + 1
    BY <1>2, <1>3, <1>4
  <2>2. QED
    BY <1>1, <1>2, <1>4, <2>1 DEF BackupInv, BackupsTyped, Content
<1>6. EmptyStays'
  BY <1>1, <1>2 DEF BackupInv, EmptyStays, Empty
<1>7. OriginalSaved'
  <2>1. SUFFICES ASSUME faults < MaxBackups, Now # legacy
                 PROVE  \E i \in 1..Len(backups') : i <= faults + 1 /\ backups'[i] = legacy
    BY <1>1, <1>2 DEF OriginalSaved, Depth, Migrating
  <2>2. Depth = faults
    BY <1>1 DEF Depth, DbInv, Versioned
  <2>3. PICK i \in 1..Len(backups) : i <= faults /\ backups[i] = legacy
    BY <2>1, <2>2 DEF BackupInv, OriginalSaved
  <2>4. i + 1 \in 1..Len(backups') /\ i + 1 <= faults + 1
    BY <1>2, <1>4, <2>3
  <2>5. QED
    BY <1>4, <2>3, <2>4
<1>8. QED
  BY <1>5, <1>6, <1>7 DEF BackupInv

LEMMA VerifyKeepsBackups ==
  ASSUME DbInv, BackupInv, Verify
  PROVE  BackupInv'
<1>1. pc = "verify" /\ UNCHANGED <<rows, legacy, found, applied>>
  BY DEF Verify, file, environment
<1>2. Now' = Now /\ faults \in Nat /\ MaxBackups \in Nat \ {0}
  BY <1>1, DatabaseAssumption DEF rows, Now, DbInv, DbTyped, DatabaseAssumption
<1>3. /\ backups \in Seq(Content) /\ backups # <<>> /\ backups[1] = Now
      /\ Len(backups) <= MaxBackups + faults + 1
  BY <1>1 DEF BackupInv, BackupsTyped
<1>4. Len(backups) \in Nat \ {0} /\ 4 \notin applied
  BY <1>1, <1>3, EmptySeq DEF DbInv, Versioned
<1>5. EmptyStays'
  BY <1>1, <1>2 DEF BackupInv, EmptyStays, Empty
<1>6. ASSUME faults < MaxBackups
      PROVE  \E i \in 1..Len(backups) :
               i <= faults + 1 /\ backups[i] = legacy /\ (Now # legacy => i # 1)
  <2>1. CASE Now = legacy
    <3>1. 1 \in 1..Len(backups) /\ 1 <= faults + 1
      BY <1>2, <1>4
    <3>2. QED
      BY <1>3, <2>1, <3>1
  <2>2. CASE Now # legacy
    <3>1. Depth = faults + 1
      BY <1>1 DEF Depth
    <3>2. PICK i \in 1..Len(backups) : i <= faults + 1 /\ backups[i] = legacy
      BY <1>6, <2>2, <3>1 DEF BackupInv, OriginalSaved
    <3>3. QED
      BY <1>3, <2>2, <3>2
  <2>3. QED
    BY <2>1, <2>2
<1>7. CASE backups' = Prune(backups) /\ pc' = After(applied) /\ UNCHANGED faults
  <2>1. pc' \in {"tables", "one default", "users", "column"}
    BY <1>1, <1>4, <1>7, Afters DEF DbInv, Versioned
  <2>2. /\ backups' \in Seq(Content) /\ Len(backups') \in Nat /\ Len(backups') <= MaxBackups
        /\ \A i \in 1..Len(backups) : i <= MaxBackups => i \in 1..Len(backups') /\ backups'[i] = backups[i]
    BY <1>3, <1>7, PruneFacts
  <2>3. BackupsTyped'
    <3>1. Len(backups') <= MaxBackups + faults
      BY <1>2, <2>2
    <3>2. QED
      BY <1>1, <1>2, <1>7, <2>1, <2>2, <3>1, VerifiedTyped DEF BackupInv, BackupsTyped
  <2>4. OriginalSaved'
    <3>1. SUFFICES ASSUME faults < MaxBackups
                   PROVE  \E i \in 1..Len(backups') : i <= faults + 1 /\ backups'[i] = legacy
      BY <1>1, <1>7, <2>1 DEF OriginalSaved, Depth
    <3>2. PICK i \in 1..Len(backups) : i <= faults + 1 /\ backups[i] = legacy
      BY <1>6, <3>1
    <3>3. i <= MaxBackups
      BY <1>2, <3>1, <3>2
    <3>4. QED
      BY <2>2, <3>2, <3>3
  <2>5. QED
    BY <1>5, <2>3, <2>4 DEF BackupInv
<1>8. CASE faults' = faults + 1 /\ backups' = Tail(backups) /\ Rejects
  <2>1. /\ backups' \in Seq(Content) /\ Len(backups') = Len(backups) - 1
        /\ \A i \in 2..Len(backups) : i - 1 \in 1..Len(backups') /\ backups'[i - 1] = backups[i]
    BY <1>3, <1>8, DropFacts
  <2>2. pc' = "none"
    BY <1>8 DEF Rejects, Goes
  <2>3. BackupsTyped'
    <3>1. Len(backups') <= MaxBackups + faults'
      BY <1>2, <1>3, <1>4, <1>8, <2>1
    <3>2. QED
      BY <1>1, <1>2, <1>8, <2>1, <2>2, <3>1, VerifiedTyped DEF BackupInv, BackupsTyped
  <2>4. OriginalSaved'
    <3>1. SUFFICES ASSUME faults < MaxBackups, Now # legacy
                   PROVE  \E i \in 1..Len(backups') : i <= faults + 1 /\ backups'[i] = legacy
      BY <1>1, <1>2, <1>4, <1>8, <2>2 DEF OriginalSaved, Depth, Migrating
    <3>2. PICK i \in 1..Len(backups) : i <= faults + 1 /\ backups[i] = legacy /\ i # 1
      BY <1>6, <3>1
    <3>3. i \in 2..Len(backups) /\ i - 1 <= faults + 1
      BY <1>2, <1>4, <3>2
    <3>4. QED
      BY <2>1, <3>2, <3>3
  <2>5. QED
    BY <1>5, <2>3, <2>4 DEF BackupInv
<1>9. QED
  BY <1>7, <1>8 DEF Verify, Goes

LEMMA BackupInvNext == DbInv /\ BackupInv /\ [Next]_vars => BackupInv'
<1> SUFFICES ASSUME DbInv, BackupInv, [Next]_vars PROVE BackupInv'
  OBVIOUS
<1>1. CASE UNCHANGED vars
  <2>1. UNCHANGED <<found, applied, rows, backups, pc, legacy, faults>> /\ Now' = Now
    BY <1>1 DEF vars, file, rows, process, environment, Now
  <2>2. QED
    BY <2>1 DEF BackupInv, BackupsTyped, EmptyStays, OriginalSaved, Depth, Empty, Migrating, Content
<1>2. CASE Next
  BY <1>2, OpeningKeepsBackups, MigrationsKeepBackups, SnapshotKeepsBackups, VerifyKeepsBackups
  DEF Next, Proceed, RunMigrations
<1>3. QED
  BY <1>1, <1>2

LEMMA BackupsCorrect == Spec => []BackupInv
BY BackupInvInit, BackupInvNext, DbCorrect, PTL DEF Spec

\* "verifies the snapshot, and only then applies the migration" (README.md):
\* fewer attempts than MAX_MIGRATION_BACKUPS that broke off leave a snapshot of
\* the database as it was found (snapshotDatabase, pruneMigrationBackups).
THEOREM OriginalIsKept == Spec => []OriginalKept
<1>1. DbInv /\ BackupInv => OriginalKept
  BY DEF BackupInv, OriginalSaved, OriginalKept
<1>2. QED
  BY <1>1, DbCorrect, BackupsCorrect, PTL

\* The variables keep their types, the records of the migrations have no holes,
\* and the number of snapshots stays bounded, failed attempts included.
THEOREM DatabaseTyped == Spec => []TypeOK
<1>1. DbInv /\ BackupInv => TypeOK
  <2> SUFFICES ASSUME DbInv, BackupInv PROVE TypeOK
    OBVIOUS
  <2>1. {found, guarded, settings, admin, completed, initialized, timer} \subseteq BOOLEAN
    BY DEF DbInv, DbTyped
  <2>2. \E v \in 0..Latest : applied = 1..v
    <3>1. 1..0 = {} /\ 1..1 = {1} /\ 1..2 = {1, 2} /\ 1..3 = {1, 2, 3} /\ 1..4 = {1, 2, 3, 4}
      OBVIOUS
    <3>2. {0, 1, 2, 3, 4} \subseteq 0..Latest
      BY DEF Latest
    <3>3. QED
      BY <3>1, <3>2 DEF DbInv, Versioned
  <2>3. Len(backups) <= MaxBackups + faults + 1
    <3>1. Len(backups) \in Nat /\ MaxBackups \in Nat /\ faults \in Nat
      BY LenProperties, DatabaseAssumption
      DEF DatabaseAssumption, BackupInv, BackupsTyped, DbInv, DbTyped
    <3>2. QED
      BY <3>1 DEF BackupInv, BackupsTyped
  <2>4. Now \in Content
    BY NowTyped DEF DbInv
  <2>5. initialized => timer
    BY DEF DbInv, Opened
  <2>6. QED
    BY <2>1, <2>2, <2>3, <2>4, <2>5 DEF DbInv, DbTyped, BackupInv, BackupsTyped, TypeOK
<1>2. QED
  BY <1>1, DbCorrect, BackupsCorrect, PTL
=============================================================================
