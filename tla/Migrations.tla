------------------------------ MODULE Migrations ------------------------------
(***************************************************************************)
(* migrate of app/db/migrations.py, as "python -m app.cli migrate" runs it *)
(* in a process of its own: several may run at the same time, of different *)
(* releases, and each may fail or be killed anywhere.  A script is known   *)
(* by its number; its changes and its row in schema_migrations belong to   *)
(* one transaction, which holds an advisory lock to its end.               *)
(***************************************************************************)
EXTENDS Naturals, Sequences, FiniteSets

CONSTANTS
    Migrators,          \* slots for the processes that migrate
    Newest              \* number of the last script of the newest release

VARIABLES
    table,              \* whether the table schema_migrations is there
    versions,           \* its rows
    changes,            \* the scripts whose changes the schema has, in the order they ran
    migrator            \* the processes

migrationVars == <<table, versions, changes, migrator>>

ASSUME MigrationsAssumption == Newest \in Nat \ {0}

Scripts == 1 .. Newest
Migrator == [pc : {"idle", "check", "create", "lock", "read", "script", "record", "done",
                   "failed"},
             release : 0 .. Newest, known : SUBSET Scripts, ran : Seq(Scripts),
             rows : SUBSET Scripts, error : {"none", "catalog", "exists", "other"}]
NoMigrator == [pc |-> "idle", release |-> 0, known |-> {}, ran |-> << >>, rows |-> {},
               error |-> "none"]

InitMigrations ==
    /\ table = FALSE
    /\ versions = {} /\ changes = << >>
    /\ migrator = [m \in Migrators |-> NoMigrator]

GoOn(m, pc) == migrator' = [migrator EXCEPT ![m].pc = pc]

\* The process gives up, and its transaction is rolled back.
GiveUp(m, error) == migrator' = [migrator EXCEPT ![m].pc = "failed", ![m].error = error]

InMigration(m) == migrator[m].pc \in {"read", "script", "record"}

Pending(m) == (1 .. migrator[m].release) \ (migrator[m].known \cup migrator[m].rows)

Applied(script) == \E i \in DOMAIN changes : changes[i] = script

-----------------------------------------------------------------------------

\* A process knows the scripts of its release.
StartMigrator(m) ==
    /\ migrator[m].pc = "idle"
    /\ \E release \in Scripts :
         migrator' = [migrator EXCEPT ![m].pc = "check", ![m].release = release]
    /\ UNCHANGED <<table, versions, changes>>

\* CREATE TABLE IF NOT EXISTS looks for the table before it makes it ...
CheckTable(m) ==
    /\ migrator[m].pc = "check"
    /\ GoOn(m, IF table THEN "lock" ELSE "create")
    /\ UNCHANGED <<table, versions, changes>>

\* ... and fails when another process has made it meanwhile.
CreateTable(m) ==
    /\ migrator[m].pc = "create"
    /\ IF table THEN GiveUp(m, "catalog") ELSE GoOn(m, "lock")
    /\ table' = TRUE
    /\ UNCHANGED <<versions, changes>>

\* Mutant: the lock is a shared one.
LockShared(m) ==
    /\ migrator[m].pc = "lock"
    /\ GoOn(m, "read")
    /\ UNCHANGED <<table, versions, changes>>

\* pg_advisory_xact_lock
Lock(m) ==
    /\ migrator[m].pc = "lock"
    /\ \A x \in Migrators : ~InMigration(x)
    /\ GoOn(m, "read")
    /\ UNCHANGED <<table, versions, changes>>

ReadVersions(m) ==
    /\ migrator[m].pc = "read"
    /\ migrator' = [migrator EXCEPT ![m].pc = "script", ![m].known = versions]
    /\ UNCHANGED <<table, versions, changes>>

\* Mutant: the script is committed at once.
RunScriptAlone(m) ==
    /\ migrator[m].pc = "script" /\ Pending(m) # {}
    /\ \E script \in Pending(m) :
         /\ \A other \in Pending(m) : script <= other
         /\ IF Applied(script) THEN GiveUp(m, "exists") /\ UNCHANGED changes
            ELSE GoOn(m, "record") /\ changes' = Append(changes, script)
    /\ UNCHANGED <<table, versions>>

\* The first script that is not recorded runs; what it creates must not be there yet.
RunScript(m) ==
    /\ migrator[m].pc = "script" /\ Pending(m) # {}
    /\ \E script \in Pending(m) :
         /\ \A other \in Pending(m) : script <= other
         /\ IF Applied(script) THEN GiveUp(m, "exists")
            ELSE migrator' = [migrator EXCEPT ![m].pc = "record",
                                              ![m].ran = Append(@, script)]
    /\ UNCHANGED <<table, versions, changes>>

RecordScript(m) ==
    /\ migrator[m].pc = "record"
    /\ migrator' = [migrator EXCEPT ![m].pc = "script",
                                    ![m].rows = @ \cup {migrator[m].ran[Len(migrator[m].ran)]}]
    /\ UNCHANGED <<table, versions, changes>>

\* Mutant: the transaction ends after each script, and nobody looks for more.
CommitEarly(m) ==
    /\ migrator[m].pc = "script" /\ migrator[m].rows # {}
    /\ versions' = versions \cup migrator[m].rows
    /\ changes' = changes \o migrator[m].ran
    /\ GoOn(m, "done") \/ GiveUp(m, "other")
    /\ UNCHANGED table

\* The commit, whose confirmation may be lost.
CommitMigration(m) ==
    /\ migrator[m].pc = "script" /\ Pending(m) = {}
    /\ versions' = versions \cup migrator[m].rows
    /\ changes' = changes \o migrator[m].ran
    /\ GoOn(m, "done") \/ GiveUp(m, "other")
    /\ UNCHANGED table

\* The database fails, a statement takes too long, or the process is killed.
MigrationFails(m) ==
    /\ migrator[m].pc \notin {"idle", "done", "failed"}
    /\ GiveUp(m, "other")
    /\ UNCHANGED <<table, versions, changes>>

EndMigrator(m) ==
    /\ migrator[m].pc \in {"done", "failed"}
    /\ migrator' = [migrator EXCEPT ![m] = NoMigrator]
    /\ UNCHANGED <<table, versions, changes>>

MigrationStep(m) ==
    \/ CheckTable(m) \/ CreateTable(m) \/ Lock(m) \/ ReadVersions(m)
    \/ RunScript(m) \/ RecordScript(m) \/ CommitMigration(m) \/ MigrationFails(m)
    \/ EndMigrator(m)

MigrationNext == \E m \in Migrators : StartMigrator(m) \/ MigrationStep(m)

\* The migrators alone.
MigrationSpec == InitMigrations /\ [][MigrationNext]_migrationVars

-----------------------------------------------------------------------------
(* Properties *)

\* The processes and the table have the shape the code gives them.
MigrationsTypeOK ==
    /\ table \in BOOLEAN /\ (versions # {} => table)
    /\ versions \subseteq Scripts /\ changes \in Seq(Scripts)
    /\ migrator \in [Migrators -> Migrator]

\* The schema has the changes of the first scripts, each made once and in the order of
\* their numbers, and schema_migrations names just these, wherever processes stop
\* (migrations.py:18-27).
SchemaWhole ==
    /\ \A i \in DOMAIN changes : changes[i] = i
    /\ versions = 1 .. Len(changes)

\* Two processes that start together do not run into each other's scripts: what one does is
\* known to the other once it has the lock (migrations.py:19-21).
NoScriptTwice == \A m \in Migrators : migrator[m].error # "exists"

\* A process that reports its scripts as applied leaves all scripts of its release recorded.
ReportIsTrue ==
    \A m \in Migrators : migrator[m].pc = "done" => 1 .. migrator[m].release \subseteq versions
=============================================================================
