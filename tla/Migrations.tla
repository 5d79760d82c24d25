----------------------------- MODULE Migrations -----------------------------
(***************************************************************************)
(* app/db.go: the database migrations that every start of the server        *)
(* performs before anything else runs. Servers share one database and may   *)
(* start at the same time, crash at any moment and be started again.        *)
(*                                                                         *)
(* A migration is its position in dbMigrations, a database version is the   *)
(* position of the migration that it names, 0 (dbVersionZero) without one.  *)
(* Version Last + 1 stands for a database that a later release has changed. *)
(***************************************************************************)
EXTENDS Naturals

CONSTANTS
    Servers,    \* processes that use the database
    Last,       \* number of migrations that this release knows
    MaxFaults   \* bound: crashes and failing statements

ASSUME ConstantsAssumption == Last \in Nat \ {0} /\ MaxFaults \in Nat

dbMigrations == 1..Last
dbVersionZero == 0

VARIABLES
    schema,    \* migrations whose tables exist, as committed
    version,   \* value of the row "db-version" in the table masc
    pc,        \* where each server is in connectDB
    current,   \* currentVersion of performDBMigrations
    done,      \* last migration that the open transaction of a server has executed
    faults     \* crashes and failed statements so far

vars == <<schema, version, pc, current, done, faults>>

\* Databases that earlier releases, or a later one, have left behind.
Init ==
    /\ version \in 0..(Last + 1)
    /\ schema = 1..version
    /\ pc = [s \in Servers |-> "down"]
    /\ current = [s \in Servers |-> dbVersionZero]
    /\ done = [s \in Servers |-> 0]
    /\ faults = 0

-----------------------------------------------------------------------------
\* What the open transaction of a server has created: nobody else sees it.
Uncommitted(s) == {m \in dbMigrations : pc[s] = "migrate" /\ current[s] < m /\ m <= done[s]}

\* A crash or an error of the database. The open transaction is rolled back.
Fault(s, where) ==
    /\ faults < MaxFaults
    /\ faults' = faults + 1
    /\ pc' = [pc EXCEPT ![s] = where]
    /\ UNCHANGED <<schema, version, current, done>>

Step(s, to) ==
    /\ pc' = [pc EXCEPT ![s] = to]
    /\ UNCHANGED faults

\* connectDB opens the pool and sends its test query.
ConnectDB(s) ==
    /\ pc[s] \in {"down", "failed"}
    /\ Step(s, "connected")
    /\ UNCHANGED <<schema, version, current, done>>

\* The row is missing when its table is.
RetrieveCurrentDBVersion == IF 1 \in schema THEN version ELSE dbVersionZero

\* An unknown version is an error.
KnownVersion(v) == v = dbVersionZero \/ v \in dbMigrations

\* Mutant: off by one, the migration that follows is taken as done.
GetDBMigrationsToDoSkipping(v) == {m \in dbMigrations : m > v + 1}

\* The migrations after the current version, none when it is the latest one.
GetDBMigrationsToDo(v) == {m \in dbMigrations : m > v}

PerformDBMigrations(s) ==
    LET v == RetrieveCurrentDBVersion IN
    /\ pc[s] = "connected"
    /\ current' = [current EXCEPT ![s] = v]
    /\ done' = [done EXCEPT ![s] = v]
    /\ Step(s, IF ~KnownVersion(v) THEN "failed"
               ELSE IF GetDBMigrationsToDo(v) = {} THEN "up" ELSE "migrate")
    /\ UNCHANGED <<schema, version>>

\* Executes the next migration in the transaction. PostgreSQL makes the
\* creation of a table wait for another transaction that creates it; it fails
\* when the table exists or one it refers to does not.
ExecMigration(s) ==
    LET m == done[s] + 1 IN
    /\ pc[s] = "migrate"
    /\ m \in dbMigrations
    /\ \A o \in Servers \ {s} : m \notin Uncommitted(o)
    /\ IF m \notin schema /\ 1..(m - 1) \subseteq schema \cup Uncommitted(s)
       THEN done' = [done EXCEPT ![s] = m] /\ Step(s, "migrate")
       ELSE done' = done /\ Step(s, "failed")
    /\ UNCHANGED <<schema, version, current>>

CommitMigrations(s) ==
    /\ pc[s] = "migrate"
    /\ done[s] = Last
    /\ schema' = schema \cup Uncommitted(s)
    /\ Step(s, "version")
    /\ UNCHANGED <<version, current, done>>

\* Mutant: writes the version it has read.
UpdateDBVersionToCurrent(s) ==
    /\ pc[s] = "version"
    /\ version' = current[s]
    /\ Step(s, "up")
    /\ UNCHANGED <<schema, current, done>>

\* The second transaction: INSERT of the row after version zero, else UPDATE.
\* A row that is there already makes the INSERT fail; the error is dropped and
\* performDBMigrations returns nil.
UpdateDBVersion(s) ==
    /\ pc[s] = "version"
    /\ version' = IF current[s] = dbVersionZero /\ version # dbVersionZero
                  THEN version ELSE done[s]
    /\ Step(s, "up")
    /\ UNCHANGED <<schema, current, done>>

\* An error of any other statement: Boot returns it and the process ends.
DBError(s) ==
    /\ pc[s] \in {"connected", "migrate", "version"}
    /\ Fault(s, "failed")

\* An error of the statement that writes the version is dropped.
VersionErrorDropped(s) ==
    /\ pc[s] = "version"
    /\ Fault(s, "up")

Crash(s) ==
    /\ pc[s] # "down"
    /\ Fault(s, "down")

Next ==
    \E s \in Servers :
        \/ ConnectDB(s) \/ PerformDBMigrations(s) \/ ExecMigration(s)
        \/ CommitMigrations(s) \/ UpdateDBVersion(s)
        \/ DBError(s) \/ VersionErrorDropped(s) \/ Crash(s)

Spec == Init /\ [][Next]_vars

-----------------------------------------------------------------------------
TypeOK ==
    /\ schema \subseteq 1..(Last + 1)
    /\ version \in 0..(Last + 1)
    /\ pc \in [Servers -> {"down", "connected", "migrate", "version", "up", "failed"}]
    /\ current \in [Servers -> 0..(Last + 1)]
    /\ done \in [Servers -> 0..(Last + 1)]
    /\ faults \in 0..MaxFaults

\* The version never names a migration whose tables are missing, whatever
\* crashes and fails and whoever migrates at the same time: the two
\* transactions of performDBMigrations are ordered this way for it.
VersionIsApplied == 1..version \subseteq schema

\* A server that completed connectDB works on the complete schema of its
\* release, although it may have trusted a version that another server wrote
\* and goes on after a dropped error.
UpIsMigrated == \A s \in Servers : pc[s] = "up" => dbMigrations \subseteq schema

\* The database is stranded when its tables are ahead of its version and
\* nobody is about to write it: every later start repeats a migration, fails
\* and rolls back. Only a crash or an error between the two transactions does
\* it; servers that start at the same time do not.
Stranded ==
    /\ \A s \in Servers : pc[s] # "version"
    /\ \E m \in schema : m > version
StrandedNeedsFault == Stranded => faults > 0
=============================================================================
