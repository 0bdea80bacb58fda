------------------------------ MODULE Database ------------------------------
(***************************************************************************)
(* Opening the database (lib/db): initDatabase, which every request of the *)
(* administration UI awaits first, the snapshot taken before a pending     *)
(* migration, the four migrations, and the rows a fresh database gets.     *)
(*                                                                         *)
(* One attempt at a time runs, shared by the callers that wait for it.     *)
(* Every statement can fail, which ends the attempt, and the process can   *)
(* be killed between any two of them; what was written stays.  A later     *)
(* caller starts another attempt from what is there.                       *)
(*                                                                         *)
(* A provider of an old database has one client, whose password stands in  *)
(* plain text in the provider's row; migration 3 copies it to a row of its *)
(* own and migration 4 hashes it.                                          *)
(***************************************************************************)
EXTENDS Naturals, Sequences, FiniteSets

CONSTANTS
  Callers,     \* requests that await initDatabase
  Providers,   \* providers of the database that is found
  Seeds,       \* INITIAL_ADMIN_PASSWORD: "none", "short" or "long"
  MaxBackups,  \* MAX_MIGRATION_BACKUPS
  MaxFaults    \* bound: failed statements and kills

ASSUME DatabaseAssumption ==
  /\ Seeds \subseteq {"none", "short", "long"}
  /\ MaxBackups \in Nat \ {0}
  /\ MaxFaults \in Nat

Latest == 4  \* LATEST_SCHEMA_VERSION

VARIABLES
  \* the database file
  found,      \* databaseExisted: there is a file with content
  applied,    \* schema_migrations
  default,    \* the providers with is_default = 1
  plain,      \* the providers with a local_password
  client,     \* the row of each provider's client in provider_users
  guarded,    \* the triggers that refuse plain text are installed
  settings,   \* the settings row exists
  admin,      \* users has an administrator
  completed,  \* initial_setup_completed
  \* files beside it
  backups,    \* snapshots, the newest first: each the rows it holds
  \* the process
  pc,         \* where the attempt awaits
  todo,       \* the rows the loop of a migration has still to visit
  initialized,
  timer,      \* housekeeping runs
  calls,      \* the callers
  \* the environment and bookkeeping
  seed,
  legacy,     \* history: the database that was found
  faults

rows == <<default, plain, client>>
file == <<found, applied, rows, guarded, settings, admin, completed>>
process == <<pc, todo, initialized, timer, calls>>
environment == <<seed, legacy>>
vars == <<file, backups, process, environment, faults>>

Attempt == {"open", "check", "snapshot", "verify", "tables", "record1", "one default", "index",
            "record2", "users", "copy", "record3", "column", "hash", "wipe", "guard", "record4",
            "settings", "admin", "flag", "finish"}
Content == [default : SUBSET Providers, plain : SUBSET Providers,
            client : [Providers -> {"none", "plain", "hashed"}]]
Now == [default |-> default, plain |-> plain, client |-> client]
Version == IF applied = {} THEN 0 ELSE CHOOSE v \in applied : \A w \in applied : w <= v

TypeOK ==
  /\ {found, guarded, settings, admin, completed, initialized, timer} \subseteq BOOLEAN
  /\ \E v \in 0..Latest : applied = 1..v
  /\ Now \in Content
  /\ backups \in Seq(Content) /\ Len(backups) <= MaxBackups + faults + 1
  /\ pc \in Attempt \cup {"none"}
  /\ todo \subseteq Providers
  /\ calls \in [Callers -> {"idle", "waiting", "ready", "rejected"}]
  /\ initialized => timer
  /\ seed \in Seeds
  /\ legacy \in Content
  /\ faults \in 0..MaxFaults

\* A new file, or one an older release has left at schema version v.
Init ==
  /\ \E v \in 0..Latest :
       /\ applied = 1..v
       /\ found \in (IF v = 0 THEN BOOLEAN ELSE {TRUE})
       /\ default \in {D \in SUBSET Providers : v >= 2 => Cardinality(D) <= 1}
       /\ ~found => default = {}
       /\ plain = IF found /\ v < 4 THEN Providers ELSE {}
       /\ client = [p \in Providers |-> CASE ~found \/ v < 3 -> "none"
                                          [] v = 3 -> "plain"
                                          [] v = 4 -> "hashed"]
       /\ guarded = (v = 4)
       /\ settings = found
       /\ admin \in (IF found THEN BOOLEAN ELSE {FALSE})
  /\ completed = admin
  /\ backups = <<>>
  /\ pc = "none"
  /\ todo = {}
  /\ initialized = FALSE
  /\ timer = FALSE
  /\ calls = [c \in Callers |-> "idle"]
  /\ seed \in Seeds
  /\ legacy = Now
  /\ faults = 0

Goes(p) == pc' = p

\* The next migration that is not recorded, or what follows the migrations.
After(v) ==
  CASE 1 \notin v -> "tables"
    [] 1 \in v /\ 2 \notin v -> "one default"
    [] {1, 2} \subseteq v /\ 3 \notin v -> "users"
    [] {1, 2, 3} \subseteq v /\ 4 \notin v -> "column"
    [] OTHER -> "settings"
-----------------------------------------------------------------------------
(***************************************************************************)
(* initDatabase.                                                           *)
(***************************************************************************)
\* A rejected promise is kept: later callers get the same rejection.
FaultyCall(c) ==
  /\ calls[c] \in {"idle", "ready", "rejected"}
  /\ IF initialized
     THEN calls' = [calls EXCEPT ![c] = "ready"] /\ UNCHANGED pc
     ELSE IF pc = "none" /\ \E d \in Callers : calls[d] = "rejected"
     THEN calls' = [calls EXCEPT ![c] = "rejected"] /\ UNCHANGED pc
     ELSE /\ calls' = [calls EXCEPT ![c] = "waiting"]
          /\ IF pc = "none" THEN Goes("open") ELSE UNCHANGED pc
  /\ UNCHANGED <<file, backups, todo, initialized, timer, environment, faults>>

\* A caller joins the attempt that runs, or starts one.
Call(c) ==
  /\ calls[c] # "waiting"
  /\ IF initialized
     THEN calls' = [calls EXCEPT ![c] = "ready"] /\ UNCHANGED pc
     ELSE /\ calls' = [calls EXCEPT ![c] = "waiting"]
          /\ IF pc = "none" THEN Goes("open") ELSE UNCHANGED pc
  /\ UNCHANGED <<file, backups, todo, initialized, timer, environment, faults>>

Answers(a) == calls' = [c \in Callers |-> IF calls[c] = "waiting" THEN a ELSE calls[c]]

\* The attempt throws: its callers are rejected and the next one tries again.
Rejects ==
  /\ Goes("none")
  /\ todo' = {}
  /\ Answers("rejected")
  /\ UNCHANGED <<initialized, timer>>

\* A snapshot is taken of a database that has no version only.
FaultyOpen ==
  /\ pc = "open"
  /\ found' = TRUE
  /\ Goes(IF found /\ applied = {} THEN "check" ELSE After(applied))
  /\ UNCHANGED <<applied, rows, guarded, settings, admin, completed, backups, todo, initialized,
                 timer, calls, environment, faults>>

\* PRAGMAs, and whether a snapshot is due; schema_migrations is there from now on.
Open ==
  /\ pc = "open"
  /\ found' = TRUE
  /\ Goes(IF found /\ Version < Latest THEN "check" ELSE After(applied))
  /\ UNCHANGED <<applied, rows, guarded, settings, admin, completed, backups, todo, initialized,
                 timer, calls, environment, faults>>

\* assertDatabaseHealthy and the checkpoint.
CheckSource ==
  /\ pc = "check"
  /\ Goes("snapshot")
  /\ UNCHANGED <<file, backups, todo, initialized, timer, calls, environment, faults>>

\* VACUUM INTO.
Snapshot ==
  /\ pc = "snapshot"
  /\ backups' = <<Now>> \o backups
  /\ Goes("verify")
  /\ UNCHANGED <<file, todo, initialized, timer, calls, environment, faults>>

\* pruneMigrationBackups keeps the newest ones.
Prune(s) == SubSeq(s, 1, IF Len(s) < MaxBackups THEN Len(s) ELSE MaxBackups)

\* The snapshot is checked; a bad one is removed and the attempt throws.
Verify ==
  /\ pc = "verify"
  /\ \/ /\ backups' = Prune(backups)
        /\ Goes(After(applied))
        /\ UNCHANGED <<todo, initialized, timer, calls, faults>>
     \/ /\ faults < MaxFaults /\ faults' = faults + 1
        /\ backups' = Tail(backups)
        /\ Rejects
  /\ UNCHANGED <<file, environment>>
-----------------------------------------------------------------------------
(***************************************************************************)
(* runMigrations: each migration, then its record.                         *)
(***************************************************************************)
Quiet == UNCHANGED <<backups, todo, initialized, timer, calls, environment, faults>>

\* The tables and indexes of the first release, if they are not there.
CreateTables ==
  /\ pc = "tables"
  /\ Goes("record1")
  /\ Quiet /\ UNCHANGED file

Record(v) ==
  /\ applied' = applied \cup {v}
  /\ Goes(After(applied \cup {v}))
  /\ Quiet /\ UNCHANGED <<found, rows, guarded, settings, admin, completed>>

RecordMigration ==
  \/ pc = "record1" /\ Record(1)
  \/ pc = "record2" /\ Record(2)
  \/ pc = "record3" /\ Record(3)
  \/ pc = "record4" /\ Record(4)

\* The default that was updated last stays.
KeepOneDefault ==
  /\ pc = "one default"
  /\ \E p \in Providers : default' = (IF default = {} THEN {} ELSE {p}) /\ default' \subseteq default
  /\ Goes("index")
  /\ Quiet /\ UNCHANGED <<found, applied, plain, client, guarded, settings, admin, completed>>

\* The unique index is refused while two rows are default.
CreateIndexes ==
  /\ pc = "index" /\ Cardinality(default) <= 1
  /\ Goes("record2")
  /\ Quiet /\ UNCHANGED file

\* Migration 3 is recorded before its rows are copied.
FaultyRecordFirst ==
  /\ pc = "users"
  /\ todo' = plain
  /\ applied' = applied \cup {3}
  /\ Goes("copy")
  /\ UNCHANGED <<found, rows, guarded, settings, admin, completed,
                 backups, initialized, timer, calls, environment, faults>>

\* provider_users, and the providers to visit.
CreateUsersTable ==
  /\ pc = "users"
  /\ todo' = plain
  /\ Goes("copy")
  /\ UNCHANGED <<file, backups, initialized, timer, calls, environment, faults>>

\* One row each; a client that has a row already is passed over.
CopyClient ==
  /\ pc = "copy"
  /\ \/ /\ todo = {} /\ Goes("record3")
        /\ UNCHANGED <<client, todo>>
     \/ \E p \in todo :
          /\ todo' = todo \ {p}
          /\ client' = [client EXCEPT ![p] = IF @ = "none" THEN "plain" ELSE @]
          /\ UNCHANGED pc
  /\ UNCHANGED <<found, applied, default, plain, guarded, settings, admin, completed, backups,
                 initialized, timer, calls, environment, faults>>

AddHashColumn ==
  /\ pc = "column"
  /\ todo' = {p \in Providers : client[p] # "none"}
  /\ Goes("hash")
  /\ UNCHANGED <<file, backups, initialized, timer, calls, environment, faults>>

\* The hash is written with the plain text removed in one UPDATE.
HashPassword ==
  /\ pc = "hash"
  /\ \/ /\ todo = {} /\ Goes("wipe")
        /\ UNCHANGED <<client, todo>>
     \/ \E p \in todo :
          /\ todo' = todo \ {p}
          /\ client' = [client EXCEPT ![p] = "hashed"]
          /\ UNCHANGED pc
  /\ UNCHANGED <<found, applied, default, plain, guarded, settings, admin, completed, backups,
                 initialized, timer, calls, environment, faults>>

\* The wipe is left to the next edit of a provider.
FaultyWipe ==
  /\ pc = "wipe"
  /\ Goes("guard")
  /\ Quiet /\ UNCHANGED file

\* UPDATE iptv_providers SET local_password = ''.
WipeLegacy ==
  /\ pc = "wipe"
  /\ plain' = {}
  /\ Goes("guard")
  /\ Quiet /\ UNCHANGED <<found, applied, default, client, guarded, settings, admin, completed>>

CreateTriggers ==
  /\ pc = "guard"
  /\ guarded' = TRUE
  /\ Goes("record4")
  /\ Quiet /\ UNCHANGED <<found, applied, rows, settings, admin, completed>>
-----------------------------------------------------------------------------
(***************************************************************************)
(* The rows a fresh database gets.                                         *)
(***************************************************************************)
CreateSettings ==
  /\ pc = "settings"
  /\ settings' = TRUE
  /\ Goes("admin")
  /\ Quiet /\ UNCHANGED <<found, applied, rows, guarded, admin, completed>>

\* COUNT(*) FROM users: the flag is repaired, or the configured administrator is added.
SeedAdmin ==
  /\ pc = "admin"
  /\ IF admin \/ seed = "none"
     THEN /\ completed' = (completed \/ admin)
          /\ Goes("finish")
          /\ UNCHANGED <<admin, todo, initialized, timer, calls>>
     ELSE IF seed = "short"
     THEN Rejects /\ UNCHANGED <<admin, completed>>
     ELSE /\ admin' = TRUE
          /\ Goes("flag")
          /\ UNCHANGED <<completed, todo, initialized, timer, calls>>
  /\ UNCHANGED <<found, applied, rows, guarded, settings, backups, environment, faults>>

\* initial_setup_completed, and a log entry.
SetFlag ==
  /\ pc = "flag"
  /\ completed' = TRUE
  /\ Goes("finish")
  /\ Quiet /\ UNCHANGED <<found, applied, rows, guarded, settings, admin>>

\* The housekeeping is left to the caller.
FaultyFinish ==
  /\ pc = "finish"
  /\ initialized' = TRUE
  /\ Answers("ready")
  /\ Goes("none")
  /\ UNCHANGED <<file, backups, todo, timer, environment, faults>>

\* startBackgroundHousekeeping keeps one timer.
Finish ==
  /\ pc = "finish"
  /\ initialized' = TRUE
  /\ timer' = TRUE
  /\ Answers("ready")
  /\ Goes("none")
  /\ UNCHANGED <<file, backups, todo, environment, faults>>
-----------------------------------------------------------------------------
(***************************************************************************)
(* Faults.                                                                 *)
(***************************************************************************)
\* A VACUUM INTO that breaks off may leave a file with a part of the rows (here, with none), which
\* pruneMigrationBackups counts.
Unfinished == [default |-> {}, plain |-> {}, client |-> [p \in Providers |-> "none"]]
LeavesBackups ==
  \/ UNCHANGED backups
  \/ pc = "snapshot" /\ backups' = <<Unfinished>> \o backups

StatementFails ==
  /\ pc # "none" /\ faults < MaxFaults
  /\ faults' = faults + 1
  /\ Rejects
  /\ LeavesBackups
  /\ UNCHANGED <<file, environment>>

\* The process is killed and started again.
Killed ==
  /\ faults < MaxFaults
  /\ faults' = faults + 1
  /\ Goes("none")
  /\ todo' = {}
  /\ initialized' = FALSE
  /\ timer' = FALSE
  /\ calls' = [c \in Callers |-> "idle"]
  /\ LeavesBackups
  /\ UNCHANGED <<file, environment>>

RunMigrations ==
  \/ CreateTables \/ RecordMigration \/ KeepOneDefault \/ CreateIndexes
  \/ CreateUsersTable \/ CopyClient \/ AddHashColumn \/ HashPassword \/ WipeLegacy \/ CreateTriggers
  \/ CreateSettings \/ SeedAdmin \/ SetFlag

Proceed == Open \/ CheckSource \/ Snapshot \/ Verify \/ RunMigrations \/ Finish

Next ==
  \/ \E c \in Callers : Call(c)
  \/ Proceed
  \/ StatementFails
  \/ Killed

Spec == Init /\ [][Next]_vars

\* Statements end, and requests keep coming: the Go core asks for the providers every 30 seconds.
FairSpec == Spec /\ WF_vars(Proceed) /\ \A c \in Callers : WF_vars(Call(c))
-----------------------------------------------------------------------------
\* No client loses its password: wherever an attempt breaks off, the password of every client of
\* the database that was found is in the provider's row or in the client's own.
ClientsKept ==
  \A p \in Providers :
    p \in legacy.plain \/ legacy.client[p] # "none" => p \in plain \/ client[p] # "none"

\* What handlers rely on after initDatabase: every migration is complete, not only recorded, no
\* password is in plain text and none can be written, one provider at most is the default, and
\* an administrator who exists is not asked to set up again.
ReadyMeansMigrated ==
  initialized =>
    /\ applied = 1..Latest /\ guarded /\ settings
    /\ plain = {} /\ \A p \in Providers : client[p] # "plain"
    /\ Cardinality(default) <= 1
    /\ admin => completed

\* "verifies the snapshot, and only then applies the migration" (README.md): from the first change
\* of its rows on, the database as it was found is in a snapshot, through every attempt that
\* breaks off; MAX_MIGRATION_BACKUPS attempts prune it away (pruneMigrationBackups).
OriginalKept == Now # legacy /\ faults < MaxBackups => \E i \in 1..Len(backups) : backups[i] = legacy

\* Whatever statements fail and however often the process is killed, the database is open in the
\* end, unless the configured administrator password is refused (the catch of initDatabase).
Recovers == seed # "short" \/ admin => <>[]initialized
=============================================================================
