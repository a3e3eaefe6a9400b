--------------------------- MODULE MigrationsProofs ---------------------------
(***************************************************************************)
(* Proofs about Migrations, for any number of processes and of scripts:    *)
(* the schema is whole, no script meets what another process has done, and *)
(* what is reported as applied is.                                         *)
(***************************************************************************)
EXTENDS Migrations, TLAPS

-----------------------------------------------------------------------------
(* The inductive invariant *)

InTransaction(process) == process.pc \in {"read", "script", "record"}

\* Only one process at a time is in its transaction.
OneInTransaction ==
    \A m, x \in Migrators :
        InTransaction(migrator[m]) /\ InTransaction(migrator[x]) => m = x

\* What a process in its transaction knows is what is committed, and what it has run
\* continues that; it has recorded all of it but, at "record", the last script.
Good(process) ==
    LET committed == Len(changes)
        run == Len(process.ran) IN
    /\ process.pc \in {"idle", "check", "create", "lock", "read"} =>
         process.ran = << >> /\ process.rows = {}
    /\ process.pc \in {"script", "record"} =>
         /\ process.known = versions
         /\ \A i \in 1 .. run : process.ran[i] = committed + i
    /\ process.pc = "script" => process.rows = (committed + 1) .. (committed + run)
    /\ process.pc = "record" =>
         run > 0 /\ process.rows = (committed + 1) .. (committed + run - 1)
    /\ process.pc = "done" => 1 .. process.release \subseteq versions
    /\ process.error # "exists"

\* The types that the proofs need.
Shape ==
    /\ versions \subseteq Scripts /\ changes \in Seq(Scripts)
    /\ migrator \in [Migrators -> Migrator]

IInv ==
    /\ Shape /\ SchemaWhole /\ OneInTransaction
    /\ \A m \in Migrators : Good(migrator[m])

-----------------------------------------------------------------------------
(* Steps *)

\* At the start there is nothing.
LEMMA InitInv == InitMigrations => IInv
<1> SUFFICES ASSUME InitMigrations PROVE IInv
  OBVIOUS
<1>1. NoMigrator \in Migrator /\ Good(NoMigrator) /\ ~InTransaction(NoMigrator)
  BY MigrationsAssumption DEF NoMigrator, Migrator, Scripts, Good, InTransaction
<1>2. Shape
  BY <1>1 DEF InitMigrations, Shape
<1>3. SchemaWhole
  BY DEF InitMigrations, SchemaWhole
<1>4. QED
  BY <1>1, <1>2, <1>3 DEF InitMigrations, IInv, OneInTransaction

\* A step of one process that commits nothing.
LEMMA OneMoves ==
    ASSUME IInv, NEW m \in Migrators, NEW next \in Migrator,
           migrator' = [migrator EXCEPT ![m] = next], UNCHANGED <<versions, changes>>,
           Good(next),
           InTransaction(next) =>
             InTransaction(migrator[m]) \/ \A x \in Migrators : ~InTransaction(migrator[x])
    PROVE  IInv'
<1>1. /\ migrator' \in [Migrators -> Migrator] /\ migrator'[m] = next
      /\ \A x \in Migrators \ {m} : migrator'[x] = migrator[x]
  BY DEF IInv, Shape
<1>2. Shape'
  BY <1>1 DEF IInv, Shape
<1>3. SchemaWhole'
  BY DEF IInv, SchemaWhole
<1>4. OneInTransaction'
  BY <1>1 DEF IInv, OneInTransaction, InTransaction
<1>5. ASSUME NEW x \in Migrators PROVE Good(migrator[x])'
  <2>1. CASE x = m
    BY <1>1, <2>1 DEF Good
  <2>2. CASE x # m
    BY <1>1, <2>2 DEF IInv, Good
  <2>3. QED
    BY <2>1, <2>2
<1>6. QED
  BY <1>2, <1>3, <1>4, <1>5 DEF IInv

\* What holds of a process in its transaction.
LEMMA Running ==
    ASSUME IInv, NEW m \in Migrators
    PROVE  /\ migrator[m] \in Migrator /\ Good(migrator[m])
           /\ Len(changes) \in Nat /\ Len(migrator[m].ran) \in Nat
           /\ migrator[m].ran \in Seq(Scripts) /\ migrator[m].rows \subseteq Scripts
           /\ migrator[m].release \in 0 .. Newest
BY DEF IInv, Shape, Migrator

\* A process that gives up commits nothing.
LEMMA GivesUp ==
    ASSUME IInv, NEW m \in Migrators, GiveUp(m, "other") \/ GiveUp(m, "catalog"),
           UNCHANGED <<versions, changes>>
    PROVE  IInv'
<1>1. PICK error \in {"other", "catalog"} : GiveUp(m, error)
  OBVIOUS
<1> DEFINE next == [migrator[m] EXCEPT !.pc = "failed", !.error = error]
<1>2. /\ next \in Migrator /\ Good(next) /\ ~InTransaction(next)
  BY Running DEF Migrator, Good, InTransaction
<1>3. migrator' = [migrator EXCEPT ![m] = next]
  BY <1>1 DEF GiveUp
<1> HIDE DEF next
<1>4. QED
  BY <1>2, <1>3, OneMoves

\* The next script to run is the one after all that are committed or have been run.
LEMMA NextScript ==
    ASSUME IInv, NEW m \in Migrators, migrator[m].pc = "script",
           NEW script \in Pending(m), \A other \in Pending(m) : script <= other
    PROVE  /\ script = Len(changes) + Len(migrator[m].ran) + 1 /\ script \in Scripts
           /\ ~Applied(script)
<1> DEFINE committed == Len(changes)
           run == Len(migrator[m].ran)
<1>1. /\ committed \in Nat /\ run \in Nat /\ migrator[m].release \in 0 .. Newest
      /\ migrator[m].known = 1 .. committed
      /\ migrator[m].rows = (committed + 1) .. (committed + run)
  BY Running DEF Good, IInv, SchemaWhole
<1> HIDE DEF committed, run
<1>2. Pending(m) = (committed + run + 1) .. migrator[m].release
  BY <1>1 DEF Pending
<1>3. script = committed + run + 1
  BY <1>1, <1>2
<1>4. script \in Scripts
  BY <1>1, <1>2, MigrationsAssumption DEF Scripts
<1>5. ~Applied(script)
  <2>1. SUFFICES ASSUME NEW i \in DOMAIN changes, changes[i] = script PROVE FALSE
    BY DEF Applied
  <2>2. i \in 1 .. committed /\ changes[i] = i
    BY <2>1 DEF IInv, Shape, SchemaWhole, committed
  <2>3. QED
    BY <1>1, <1>3, <2>1, <2>2
<1>6. QED
  BY <1>3, <1>4, <1>5 DEF committed, run

\* The script runs, and meets nothing that is there already.
LEMMA RunScriptInv ==
    ASSUME IInv, NEW m \in Migrators, RunScript(m)
    PROVE  IInv'
<1>1. migrator[m].pc = "script"
  BY DEF RunScript
<1>2. PICK script \in Pending(m) :
        /\ \A other \in Pending(m) : script <= other
        /\ IF Applied(script) THEN GiveUp(m, "exists")
           ELSE migrator' = [migrator EXCEPT ![m].pc = "record", ![m].ran = Append(@, script)]
  BY DEF RunScript
<1>3. /\ script = Len(changes) + Len(migrator[m].ran) + 1 /\ script \in Scripts
      /\ ~Applied(script)
  BY <1>1, <1>2, NextScript
<1> DEFINE ran == Append(migrator[m].ran, script)
           next == [migrator[m] EXCEPT !.pc = "record", !.ran = ran]
<1>4. migrator' = [migrator EXCEPT ![m] = next]
  BY <1>2, <1>3
<1>5. /\ ran \in Seq(Scripts) /\ Len(ran) = Len(migrator[m].ran) + 1
      /\ \A i \in 1 .. Len(ran) : ran[i] = Len(changes) + i
  <2>1. /\ migrator[m].ran \in Seq(Scripts) /\ script \in Scripts
        /\ Len(migrator[m].ran) \in Nat /\ Len(changes) \in Nat
    BY <1>3, Running
  <2>2. \A i \in 1 .. Len(migrator[m].ran) : migrator[m].ran[i] = Len(changes) + i
    BY <1>1, Running DEF Good
  <2>3. /\ ran \in Seq(Scripts) /\ Len(ran) = Len(migrator[m].ran) + 1
        /\ \A i \in 1 .. Len(ran) :
             ran[i] = IF i <= Len(migrator[m].ran) THEN migrator[m].ran[i] ELSE script
    BY <2>1
  <2> HIDE DEF ran
  <2>4. ASSUME NEW i \in 1 .. Len(ran) PROVE ran[i] = Len(changes) + i
    <3>1. CASE i <= Len(migrator[m].ran)
      BY <2>1, <2>2, <2>3, <3>1
    <3>2. CASE i = Len(migrator[m].ran) + 1
      BY <1>3, <2>1, <2>3, <3>2
    <3>3. QED
      BY <2>1, <2>3, <3>1, <3>2
  <2>5. QED
    BY <2>3, <2>4
<1> HIDE DEF ran
<1>6. next \in Migrator
  BY <1>5, Running DEF Migrator
<1>7. Good(next)
  <2>1. /\ next.pc = "record" /\ next.ran = ran
        /\ next.known = migrator[m].known /\ next.rows = migrator[m].rows
        /\ next.error = migrator[m].error
    BY Running DEF Migrator
  <2>2. /\ migrator[m].known = versions /\ migrator[m].error # "exists"
        /\ migrator[m].rows =
             (Len(changes) + 1) .. (Len(changes) + Len(migrator[m].ran))
    BY <1>1, Running DEF Good
  <2>3. /\ Len(ran) > 0
        /\ Len(changes) + Len(migrator[m].ran) = Len(changes) + Len(ran) - 1
    BY <1>5, Running
  <2> HIDE DEF next
  <2>4. QED
    BY <1>5, <2>1, <2>2, <2>3 DEF Good
<1>8. InTransaction(migrator[m])
  BY <1>1 DEF InTransaction
<1>9. UNCHANGED <<versions, changes>>
  BY DEF RunScript
<1> HIDE DEF next
<1>10. QED
  BY <1>4, <1>6, <1>7, <1>8, <1>9, OneMoves

\* The row names the script that has just run.
LEMMA RecordScriptInv ==
    ASSUME IInv, NEW m \in Migrators, RecordScript(m)
    PROVE  IInv'
<1> DEFINE ran == migrator[m].ran
           rows == migrator[m].rows \cup {ran[Len(ran)]}
           next == [migrator[m] EXCEPT !.pc = "script", !.rows = rows]
<1>1. migrator[m].pc = "record" /\ migrator' = [migrator EXCEPT ![m] = next]
      /\ UNCHANGED <<versions, changes>>
  BY DEF RecordScript
<1>2. /\ Len(ran) \in Nat /\ Len(ran) > 0 /\ ran \in Seq(Scripts) /\ Len(changes) \in Nat
      /\ migrator[m].rows = (Len(changes) + 1) .. (Len(changes) + Len(ran) - 1)
      /\ ran[Len(ran)] = Len(changes) + Len(ran)
  <2>1. /\ Len(ran) \in Nat /\ ran \in Seq(Scripts) /\ Len(changes) \in Nat
    BY Running
  <2>2. /\ Len(ran) > 0 /\ \A i \in 1 .. Len(ran) : ran[i] = Len(changes) + i
        /\ migrator[m].rows = (Len(changes) + 1) .. (Len(changes) + Len(ran) - 1)
    BY <1>1, Running DEF Good
  <2>3. QED
    BY <2>1, <2>2
<1>3. rows \subseteq Scripts
  BY <1>2, Running
<1>4. rows = (Len(changes) + 1) .. (Len(changes) + Len(ran))
  <2> DEFINE committed == Len(changes)
             run == Len(ran)
  <2>1. /\ committed \in Nat /\ run \in Nat /\ run > 0
        /\ rows = (committed + 1) .. (committed + run - 1) \cup {committed + run}
    BY <1>2
  <2> HIDE DEF committed, run, rows
  <2>2. rows = (committed + 1) .. (committed + run)
    BY <2>1
  <2>3. QED
    BY <2>2 DEF committed, run
<1> HIDE DEF rows
<1>5. next \in Migrator
  BY <1>3, Running DEF Migrator
<1>6. Good(next)
  BY <1>1, <1>4, Running DEF Good, Migrator
<1>7. InTransaction(migrator[m])
  BY <1>1 DEF InTransaction
<1> HIDE DEF next
<1>8. QED
  BY <1>1, <1>5, <1>6, <1>7, OneMoves
\* All scripts of the release are committed, in the order of their numbers.
LEMMA CommitMigrationInv ==
    ASSUME IInv, NEW m \in Migrators, CommitMigration(m)
    PROVE  IInv'
<1> DEFINE committed == Len(changes)
           ran == migrator[m].ran
           run == Len(ran)
<1>1. /\ migrator[m].pc = "script" /\ Pending(m) = {}
      /\ versions' = versions \cup migrator[m].rows /\ changes' = changes \o ran
  BY DEF CommitMigration
<1>2. PICK next \in {[migrator[m] EXCEPT !.pc = "done"],
                    [migrator[m] EXCEPT !.pc = "failed", !.error = "other"]} :
        migrator' = [migrator EXCEPT ![m] = next]
  BY DEF CommitMigration, GoOn, GiveUp
<1>3. /\ committed \in Nat /\ run \in Nat /\ ran \in Seq(Scripts) /\ changes \in Seq(Scripts)
      /\ migrator[m].release \in 0 .. Newest /\ migrator[m].rows \subseteq Scripts
      /\ versions \subseteq Scripts
  BY Running DEF IInv, Shape
<1>4. /\ \A i \in 1 .. committed : changes[i] = i
      /\ \A i \in 1 .. run : ran[i] = committed + i
      /\ versions = 1 .. committed /\ migrator[m].known = versions
      /\ migrator[m].rows = (committed + 1) .. (committed + run)
      /\ migrator[m].error # "exists"
  BY <1>1, <1>3, Running DEF Good, IInv, SchemaWhole
<1>5. /\ changes' \in Seq(Scripts) /\ Len(changes') = committed + run
      /\ \A i \in 1 .. (committed + run) :
           changes'[i] = IF i <= committed THEN changes[i] ELSE ran[i - committed]
  BY <1>1, <1>3
<1> HIDE DEF committed, ran, run
<1>6. versions' = 1 .. (committed + run)
  BY <1>1, <1>3, <1>4
<1>7. SchemaWhole'
  <2>1. ASSUME NEW i \in 1 .. (committed + run) PROVE changes'[i] = i
    <3>1. CASE i <= committed
      BY <1>3, <1>4, <1>5, <3>1
    <3>2. CASE i > committed
      <4>1. i - committed \in 1 .. run /\ committed + (i - committed) = i
        BY <1>3, <3>2
      <4>2. QED
        BY <1>3, <1>4, <1>5, <3>2, <4>1
    <3>3. QED
      BY <1>3, <3>1, <3>2
  <2>2. DOMAIN changes' = 1 .. (committed + run)
    BY <1>3, <1>5
  <2>3. QED
    BY <1>5, <1>6, <2>1, <2>2 DEF SchemaWhole
<1>8. 1 .. migrator[m].release \subseteq versions'
  BY <1>1, <1>4 DEF Pending
<1>9. /\ next \in Migrator /\ next.pc \in {"done", "failed"} /\ ~InTransaction(next)
      /\ next.error # "exists" /\ next.release = migrator[m].release
  BY <1>2, <1>4, Running DEF Migrator, InTransaction
<1>10. /\ migrator' \in [Migrators -> Migrator] /\ migrator'[m] = next
       /\ \A x \in Migrators \ {m} : migrator'[x] = migrator[x]
  BY <1>2, <1>9 DEF IInv, Shape
<1>11. Shape'
  BY <1>1, <1>3, <1>5, <1>10 DEF Shape
<1>12. OneInTransaction'
  BY <1>9, <1>10 DEF IInv, OneInTransaction
<1>13. ASSUME NEW x \in Migrators PROVE Good(migrator[x])'
  <2>1. CASE x = m
    BY <1>8, <1>9, <1>10, <2>1 DEF Good
  <2>2. CASE x # m
    <3>1. ~InTransaction(migrator[x])
      BY <1>1, <2>2 DEF IInv, OneInTransaction, InTransaction
    <3>2. Good(migrator[x]) /\ migrator'[x] = migrator[x] /\ versions \subseteq versions'
      BY <1>1, <1>10, <2>2 DEF IInv
    <3>3. QED
      BY <3>1, <3>2 DEF Good, InTransaction
  <2>3. QED
    BY <2>1, <2>2
<1>14. QED
  BY <1>7, <1>11, <1>12, <1>13 DEF IInv

\* The steps that only move one process on.
LEMMA OtherStepsInv ==
    ASSUME IInv, NEW m \in Migrators,
           \/ StartMigrator(m) \/ CheckTable(m) \/ CreateTable(m) \/ Lock(m)
           \/ ReadVersions(m) \/ MigrationFails(m) \/ EndMigrator(m)
    PROVE  IInv'
<1>1. migrator[m] \in Migrator /\ Good(migrator[m])
  BY Running
<1>2. CASE StartMigrator(m)
  <2>1. PICK release \in Scripts :
          migrator' = [migrator EXCEPT ![m].pc = "check", ![m].release = release]
    BY <1>2 DEF StartMigrator
  <2> DEFINE next == [migrator[m] EXCEPT !.pc = "check", !.release = release]
  <2>2. next \in Migrator /\ ~InTransaction(next)
    <3>1. release \in 0 .. Newest
      BY MigrationsAssumption DEF Scripts
    <3>2. QED
      BY <1>1, <3>1 DEF Migrator, InTransaction
  <2>3. /\ next.pc = "check" /\ next.ran = << >> /\ next.rows = {}
        /\ next.error # "exists"
    BY <1>1, <1>2 DEF StartMigrator, Migrator, Good
  <2>4. migrator' = [migrator EXCEPT ![m] = next] /\ UNCHANGED <<versions, changes>>
    BY <1>2, <2>1 DEF StartMigrator
  <2> HIDE DEF next
  <2>5. Good(next)
    BY <2>3 DEF Good
  <2>6. QED
    BY <2>2, <2>4, <2>5, OneMoves
<1>3. ASSUME NEW pc \in {"lock", "create"}, migrator[m].pc \in {"check", "create"},
             GoOn(m, pc), UNCHANGED <<versions, changes>>
      PROVE  IInv'
  <2> DEFINE next == [migrator[m] EXCEPT !.pc = pc]
  <2>1. next \in Migrator /\ Good(next) /\ ~InTransaction(next)
    BY <1>1, <1>3 DEF Migrator, Good, InTransaction
  <2>2. migrator' = [migrator EXCEPT ![m] = next]
    BY <1>3 DEF GoOn
  <2> HIDE DEF next
  <2>3. QED
    BY <1>3, <2>1, <2>2, OneMoves
<1>4. CASE CheckTable(m)
  BY <1>3, <1>4 DEF CheckTable
<1>5. CASE CreateTable(m)
  BY <1>3, <1>5, GivesUp DEF CreateTable
<1>6. CASE Lock(m)
  <2> DEFINE next == [migrator[m] EXCEPT !.pc = "read"]
  <2>1. next \in Migrator /\ Good(next)
    BY <1>1, <1>6 DEF Lock, Migrator, Good
  <2>2. /\ migrator' = [migrator EXCEPT ![m] = next] /\ UNCHANGED <<versions, changes>>
        /\ \A x \in Migrators : ~InTransaction(migrator[x])
    BY <1>6 DEF Lock, GoOn, InMigration, InTransaction
  <2> HIDE DEF next
  <2>3. QED
    BY <2>1, <2>2, OneMoves
<1>7. CASE ReadVersions(m)
  <2> DEFINE next == [migrator[m] EXCEPT !.pc = "script", !.known = versions]
  <2>1. next \in Migrator /\ InTransaction(migrator[m])
    BY <1>1, <1>7 DEF ReadVersions, Migrator, InTransaction, IInv, Shape
  <2>2. /\ next.pc = "script" /\ next.known = versions /\ next.ran = << >>
        /\ next.rows = {} /\ next.error # "exists"
    BY <1>1, <1>7 DEF ReadVersions, Migrator, Good
  <2>3. migrator' = [migrator EXCEPT ![m] = next] /\ UNCHANGED <<versions, changes>>
    BY <1>7 DEF ReadVersions
  <2> HIDE DEF next
  <2>4. Good(next)
    BY <2>2, Running DEF Good
  <2>5. QED
    BY <2>1, <2>3, <2>4, OneMoves
<1>8. CASE MigrationFails(m)
  BY <1>8, GivesUp DEF MigrationFails
<1>9. CASE EndMigrator(m)
  <2>1. NoMigrator \in Migrator /\ Good(NoMigrator) /\ ~InTransaction(NoMigrator)
    BY MigrationsAssumption DEF NoMigrator, Migrator, Scripts, Good, InTransaction
  <2>2. QED
    BY <1>9, <2>1, OneMoves DEF EndMigrator
<1>10. QED
  BY <1>2, <1>4, <1>5, <1>6, <1>7, <1>8, <1>9

\* Every step of the processes keeps the invariant.
LEMMA StepInv == IInv /\ [MigrationNext]_migrationVars => IInv'
<1> SUFFICES ASSUME IInv, [MigrationNext]_migrationVars PROVE IInv'
  OBVIOUS
<1>1. ASSUME NEW m \in Migrators, StartMigrator(m) \/ MigrationStep(m) PROVE IInv'
  BY <1>1, RunScriptInv, RecordScriptInv, CommitMigrationInv, OtherStepsInv
  DEF MigrationStep
<1>2. CASE UNCHANGED migrationVars
  BY <1>2 DEF migrationVars, IInv, Shape, SchemaWhole, OneInTransaction, Good
<1>3. QED
  BY <1>1, <1>2 DEF MigrationNext

-----------------------------------------------------------------------------
(* The table of the versions *)

\* A process that has passed CREATE TABLE finds the table there, and so does one that reads
\* rows: nobody drops it.
TableInv ==
    /\ table \in BOOLEAN /\ (versions # {} => table)
    /\ \A m \in Migrators : migrator[m].pc \in {"lock", "read", "script", "record"} => table

\* The table stays once it is there.
LEMMA TableStep == IInv /\ TableInv /\ [MigrationNext]_migrationVars => TableInv'
<1> SUFFICES ASSUME IInv, TableInv, [MigrationNext]_migrationVars PROVE TableInv'
  OBVIOUS
<1>1. migrator \in [Migrators -> Migrator]
  BY DEF IInv, Shape
<1>2. ASSUME NEW m \in Migrators, StartMigrator(m) \/ MigrationFails(m) \/ EndMigrator(m)
      PROVE  TableInv'
  <2>1. /\ migrator'[m].pc \in {"check", "failed", "idle"}
        /\ \A x \in Migrators \ {m} : migrator'[x] = migrator[x]
        /\ UNCHANGED <<table, versions>>
    BY <1>1, <1>2 DEF StartMigrator, MigrationFails, GiveUp, EndMigrator, NoMigrator, Migrator
  <2>2. QED
    BY <2>1 DEF TableInv
<1>3. ASSUME NEW m \in Migrators, CheckTable(m) PROVE TableInv'
  BY <1>1, <1>3 DEF CheckTable, GoOn, TableInv, Migrator
<1>4. ASSUME NEW m \in Migrators, CreateTable(m) PROVE TableInv'
  BY <1>4 DEF CreateTable, TableInv
<1>5. ASSUME NEW m \in Migrators,
             \/ Lock(m) \/ ReadVersions(m) \/ RunScript(m) \/ RecordScript(m)
             \/ CommitMigration(m)
      PROVE  TableInv'
  <2>1. table /\ table' = table
    BY <1>5 DEF Lock, ReadVersions, RunScript, RecordScript, CommitMigration, TableInv
  <2>2. QED
    BY <2>1 DEF TableInv
<1>6. CASE UNCHANGED migrationVars
  BY <1>6 DEF migrationVars, TableInv
<1>7. QED
  BY <1>2, <1>3, <1>4, <1>5, <1>6 DEF MigrationNext, MigrationStep

-----------------------------------------------------------------------------
(* Theorems *)

\* The inductive invariant holds whatever the processes do.
LEMMA Invariant == MigrationSpec => []IInv
BY InitInv, StepInv, PTL DEF MigrationSpec

\* The processes and the table have the shape the code gives them; rows need their table.
THEOREM MigrationsTypeCorrect == MigrationSpec => []MigrationsTypeOK
<1>1. InitMigrations => TableInv
  <2> SUFFICES ASSUME InitMigrations PROVE TableInv
    OBVIOUS
  <2>1. table \in BOOLEAN /\ versions = {}
    BY DEF InitMigrations
  <2>2. ASSUME NEW m \in Migrators PROVE migrator[m].pc = "idle"
    BY DEF InitMigrations, NoMigrator
  <2>3. QED
    BY <2>1, <2>2 DEF TableInv
<1>2. IInv /\ TableInv => MigrationsTypeOK
  BY DEF IInv, Shape, TableInv, MigrationsTypeOK
<1>3. QED
  BY Invariant, TableStep, <1>1, <1>2, PTL DEF MigrationSpec

\* The schema is always that of the first scripts, each run once and in order, and its table
\* names just these, whatever process stops where (migrations.py:18-27).
THEOREM SchemaIsWhole == MigrationSpec => []SchemaWhole
<1>1. IInv => SchemaWhole
  BY DEF IInv
<1>2. QED
  BY Invariant, <1>1, PTL

\* No process runs a script into what another has made (migrations.py:19-21).
THEOREM NoScriptMeetsItself == MigrationSpec => []NoScriptTwice
<1>1. IInv => NoScriptTwice
  BY DEF IInv, NoScriptTwice, Good
<1>2. QED
  BY Invariant, <1>1, PTL

\* What "migrate" reports as applied is recorded, and stays so.
THEOREM ReportIsAlwaysTrue == MigrationSpec => []ReportIsTrue
<1>1. IInv => ReportIsTrue
  BY DEF IInv, ReportIsTrue, Good
<1>2. QED
  BY Invariant, <1>1, PTL
=============================================================================
