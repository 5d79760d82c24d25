-------------------------- MODULE MigrationsProofs --------------------------
(***************************************************************************)
(* What TLAPS proves of Migrations, for any number of servers, migrations,  *)
(* crashes and errors.                                                      *)
(***************************************************************************)
EXTENDS Migrations, TLAPS

\* What a server in the middle of performDBMigrations may rely on: the tables
\* up to the version it has read stay, its own come on top of them.
ServerKnows(s) ==
    /\ pc[s] = "migrate" => /\ current[s] <= done[s] /\ done[s] <= Last
                            /\ 1..current[s] \subseteq schema
    /\ pc[s] = "version" => done[s] = Last /\ dbMigrations \subseteq schema
    /\ pc[s] = "up" => dbMigrations \subseteq schema

IInv ==
    /\ TypeOK
    /\ VersionIsApplied
    /\ \A s \in Servers : ServerKnows(s)

\* Every version that the database may start with tells of committed tables.
LEMMA InitInvariant == Init => IInv
BY ConstantsAssumption
   DEF Init, IInv, TypeOK, VersionIsApplied, ServerKnows, dbMigrations, dbVersionZero

\* Crashes and errors leave the database alone.
LEMMA FaultKeepsInvariant ==
    ASSUME IInv, NEW s \in Servers, NEW to \in {"failed", "down", "up"}, Fault(s, to),
           to = "up" => pc[s] = "version"
    PROVE  IInv'
<1>1. TypeOK'
  BY ConstantsAssumption DEF IInv, TypeOK, Fault
<1>2. VersionIsApplied'
  BY DEF IInv, VersionIsApplied, Fault
<1>3. \A o \in Servers : ServerKnows(o)'
  BY DEF IInv, TypeOK, ServerKnows, Fault
<1>4. QED BY <1>1, <1>2, <1>3 DEF IInv

\* A server reads the version and begins with its migrations.
LEMMA PerformKeepsInvariant ==
    ASSUME IInv, NEW s \in Servers, PerformDBMigrations(s)
    PROVE  IInv'
<1> DEFINE v == RetrieveCurrentDBVersion
<1>1. v \in 0..(Last + 1) /\ 1..v \subseteq schema
  BY ConstantsAssumption DEF IInv, TypeOK, VersionIsApplied, RetrieveCurrentDBVersion, dbVersionZero
<1>2. TypeOK'
  BY <1>1, ConstantsAssumption DEF IInv, TypeOK, PerformDBMigrations, Step
<1>3. VersionIsApplied'
  BY DEF IInv, VersionIsApplied, PerformDBMigrations
<1>4. ServerKnows(s)'
  <2>1. CASE ~KnownVersion(v)
    BY <2>1, <1>1 DEF IInv, TypeOK, ServerKnows, PerformDBMigrations, Step
  <2>2. CASE KnownVersion(v)
    <3>1. v <= Last
      BY <2>2, <1>1, ConstantsAssumption DEF KnownVersion, dbMigrations, dbVersionZero
    <3>2. GetDBMigrationsToDo(v) = {} => dbMigrations \subseteq schema
      BY <3>1, <1>1, ConstantsAssumption DEF GetDBMigrationsToDo, dbMigrations
    <3>3. QED BY <2>2, <3>1, <3>2, <1>1
              DEF IInv, TypeOK, ServerKnows, PerformDBMigrations, Step
  <2>3. QED BY <2>1, <2>2
<1>5. \A o \in Servers \ {s} : ServerKnows(o)'
  BY DEF IInv, TypeOK, ServerKnows, PerformDBMigrations, Step
<1>6. QED BY <1>2, <1>3, <1>4, <1>5 DEF IInv

\* After the commit every table up to Last exists: those up to the version
\* that was read, and those of the transaction.
LEMMA CommitKeepsInvariant ==
    ASSUME IInv, NEW s \in Servers, CommitMigrations(s)
    PROVE  IInv'
<1>1. schema \subseteq schema'
  BY DEF CommitMigrations
<1>2. dbMigrations \subseteq schema'
  BY ConstantsAssumption
     DEF IInv, TypeOK, ServerKnows, CommitMigrations, Uncommitted, dbMigrations
<1>3. TypeOK'
  <2>1. Uncommitted(s) \subseteq 1..(Last + 1)
    BY ConstantsAssumption DEF Uncommitted, dbMigrations
  <2>2. QED BY <2>1 DEF IInv, TypeOK, CommitMigrations, Step
<1>4. VersionIsApplied'
  BY <1>1 DEF IInv, VersionIsApplied, CommitMigrations
<1>5. \A o \in Servers : ServerKnows(o)'
  BY <1>1, <1>2 DEF IInv, TypeOK, ServerKnows, CommitMigrations, Step
<1>6. QED BY <1>3, <1>4, <1>5 DEF IInv

\* A server writes the version after its tables are committed.
LEMMA UpdateKeepsInvariant ==
    ASSUME IInv, NEW s \in Servers, UpdateDBVersion(s)
    PROVE  IInv'
<1>1. dbMigrations \subseteq schema /\ done[s] = Last
  BY DEF IInv, ServerKnows, UpdateDBVersion
<1>2. TypeOK'
  BY <1>1, ConstantsAssumption DEF IInv, TypeOK, UpdateDBVersion, Step
<1>3. VersionIsApplied'
  BY <1>1 DEF IInv, VersionIsApplied, UpdateDBVersion, dbMigrations
<1>4. \A o \in Servers : ServerKnows(o)'
  BY <1>1 DEF IInv, TypeOK, ServerKnows, UpdateDBVersion, Step
<1>5. QED BY <1>2, <1>3, <1>4 DEF IInv

\* Every step keeps the invariant.
LEMMA InductiveInvariant == IInv /\ [Next]_vars => IInv'
<1> SUFFICES ASSUME IInv, [Next]_vars PROVE IInv'
  OBVIOUS
<1>1. CASE UNCHANGED vars
  BY <1>1 DEF IInv, TypeOK, VersionIsApplied, ServerKnows, vars
<1>2. ASSUME NEW s \in Servers, ConnectDB(s) PROVE IInv'
  BY <1>2 DEF IInv, TypeOK, VersionIsApplied, ServerKnows, ConnectDB, Step
<1>3. ASSUME NEW s \in Servers, PerformDBMigrations(s) PROVE IInv'
  BY <1>3, PerformKeepsInvariant
<1>4. ASSUME NEW s \in Servers, ExecMigration(s) PROVE IInv'
  <2>1. TypeOK'
    BY <1>4, ConstantsAssumption DEF IInv, TypeOK, ExecMigration, Step, dbMigrations
  <2>2. VersionIsApplied'
    BY <1>4 DEF IInv, VersionIsApplied, ExecMigration
  <2>3. \A o \in Servers : ServerKnows(o)'
    BY <1>4, ConstantsAssumption
       DEF IInv, TypeOK, ServerKnows, ExecMigration, Step, dbMigrations
  <2>4. QED BY <2>1, <2>2, <2>3 DEF IInv
<1>5. ASSUME NEW s \in Servers, CommitMigrations(s) PROVE IInv'
  BY <1>5, CommitKeepsInvariant
<1>6. ASSUME NEW s \in Servers, UpdateDBVersion(s) PROVE IInv'
  BY <1>6, UpdateKeepsInvariant
<1>7. ASSUME NEW s \in Servers, DBError(s) PROVE IInv'
  BY <1>7, FaultKeepsInvariant DEF DBError
<1>8. ASSUME NEW s \in Servers, VersionErrorDropped(s) PROVE IInv'
  BY <1>8, FaultKeepsInvariant DEF VersionErrorDropped
<1>9. ASSUME NEW s \in Servers, Crash(s) PROVE IInv'
  BY <1>9, FaultKeepsInvariant DEF Crash
<1>10. QED BY <1>1, <1>2, <1>3, <1>4, <1>5, <1>6, <1>7, <1>8, <1>9 DEF Next

\* The database never claims a version whose tables are missing: for any
\* number of servers that migrate, crash and fail at any statement.
THEOREM VersionIsAlwaysApplied == Spec => []VersionIsApplied
<1>1. IInv => VersionIsApplied
  BY DEF IInv
<1>2. QED BY <1>1, InitInvariant, InductiveInvariant, PTL DEF Spec

\* No server leaves connectDB before the schema of its release is complete.
THEOREM UpIsAlwaysMigrated == Spec => []UpIsMigrated
<1>1. IInv => UpIsMigrated
  BY DEF IInv, ServerKnows, UpIsMigrated
<1>2. QED BY <1>1, InitInvariant, InductiveInvariant, PTL DEF Spec

\* The variables of the model keep their types.
THEOREM TypeIsCorrect == Spec => []TypeOK
<1>1. IInv => TypeOK
  BY DEF IInv
<1>2. QED BY <1>1, InitInvariant, InductiveInvariant, PTL DEF Spec

-----------------------------------------------------------------------------
\* Without crashes and errors the servers exclude each other: the first one to
\* create a table makes the others wait and fail, so that the version it has
\* read is still the one it replaces.
Creating(s) == pc[s] = "migrate" /\ current[s] < done[s]
Writing(s) == pc[s] = "version"
Busy(s) == Creating(s) \/ Writing(s)

OneMigrates ==
    /\ \A s \in Servers : pc[s] = "migrate" => current[s] <= version /\ current[s] < Last
    /\ \A s \in Servers : Busy(s) => current[s] = version
    /\ \A s, o \in Servers : Busy(s) /\ Busy(o) => s = o
    /\ (\E s \in Servers : Writing(s)) => schema = 1..Last
    /\ (\A s \in Servers : ~Writing(s)) => schema = 1..version

FaultFree == faults = 0 => OneMigrates

\* At the start no server is busy and the tables are those of the version.
LEMMA InitFaultFree == Init => FaultFree
BY ConstantsAssumption DEF Init, FaultFree, OneMigrates, Busy, Creating, Writing, dbVersionZero

\* A server that reads the version finds the one in the row.
LEMMA PerformKeepsOneMigrates ==
    ASSUME IInv, OneMigrates, NEW s \in Servers, PerformDBMigrations(s)
    PROVE  OneMigrates'
<1> DEFINE v == RetrieveCurrentDBVersion
<1>1. v \in Nat /\ v <= version
  BY ConstantsAssumption DEF IInv, TypeOK, RetrieveCurrentDBVersion, dbVersionZero
<1>2. pc'[s] = "migrate" => v < Last
  BY <1>1, ConstantsAssumption
     DEF IInv, TypeOK, PerformDBMigrations, Step, GetDBMigrationsToDo, dbMigrations
<1>3. pc'[s] # "version" /\ current'[s] = v /\ done'[s] = v
  BY DEF IInv, TypeOK, PerformDBMigrations, Step
<1>4. \A o \in Servers \ {s} : pc'[o] = pc[o] /\ current'[o] = current[o] /\ done'[o] = done[o]
  BY DEF IInv, TypeOK, PerformDBMigrations, Step
<1>5. ~Busy(s)' /\ ~Writing(s)'
  BY <1>1, <1>3 DEF Busy, Creating, Writing
<1>6. ~Writing(s)
  BY DEF PerformDBMigrations, Writing
<1>7. \A o \in Servers \ {s} : (Busy(o)' <=> Busy(o)) /\ (Writing(o)' <=> Writing(o))
  BY <1>4 DEF Busy, Creating, Writing
<1>8. version' = version /\ schema' = schema
  BY DEF PerformDBMigrations
<1>9. QED BY <1>1, <1>2, <1>3, <1>4, <1>5, <1>6, <1>7, <1>8 DEF OneMigrates

\* The creation of a table succeeds for a server only when no table is ahead
\* of the version and nobody else has begun.
LEMMA ExecKeepsOneMigrates ==
    ASSUME IInv, OneMigrates, NEW s \in Servers, ExecMigration(s)
    PROVE  OneMigrates'
<1> DEFINE m == done[s] + 1
<1>0. version \in Nat /\ current[s] \in Nat /\ done[s] \in Nat /\ Last \in Nat
      /\ current[s] <= done[s] /\ m <= Last /\ current[s] <= version
  BY ConstantsAssumption
     DEF IInv, TypeOK, ServerKnows, ExecMigration, OneMigrates, dbMigrations
<1>1. \A o \in Servers \ {s} : pc'[o] = pc[o] /\ current'[o] = current[o] /\ done'[o] = done[o]
  BY DEF IInv, TypeOK, ExecMigration, Step
<1>2. version' = version /\ schema' = schema /\ current' = current /\ pc[s] = "migrate"
  BY DEF ExecMigration
<1>3. \A o \in Servers \ {s} : (Busy(o)' <=> Busy(o)) /\ (Writing(o)' <=> Writing(o))
  BY <1>1 DEF Busy, Creating, Writing
<1>4. ~Writing(s)
  BY <1>2 DEF Writing
<1>5. CASE pc'[s] = "failed"
  <2>1. ~Busy(s)' /\ ~Writing(s)'
    BY <1>5 DEF Busy, Creating, Writing
  <2>2. QED BY <1>1, <1>2, <1>3, <1>4, <1>5, <2>1 DEF OneMigrates
<1>6. CASE pc'[s] = "migrate" /\ done'[s] = m /\ m \notin schema
  <2>1. \A o \in Servers : ~Writing(o)
    BY <1>6, <1>0 DEF OneMigrates
  <2>2. schema = 1..version
    BY <2>1 DEF OneMigrates
  <2>3. current[s] = version
    <3>1. CASE current[s] < done[s]
      BY <3>1, <1>2 DEF OneMigrates, Busy, Creating
    <3>2. CASE current[s] = done[s]
      BY <3>2, <2>2, <1>0, <1>6
    <3>3. QED BY <3>1, <3>2, <1>0
  <2>4. \A o \in Servers \ {s} : ~Busy(o)
    <3> SUFFICES ASSUME NEW o \in Servers \ {s}, Busy(o) PROVE FALSE
      OBVIOUS
    <3>1. Creating(o) /\ current[o] = version
      BY <2>1 DEF Busy, OneMigrates
    <3>2. CASE current[s] < done[s]
      BY <3>2, <1>2 DEF OneMigrates, Busy, Creating
    <3>3. CASE current[s] = done[s]
      <4>1. m \in dbMigrations /\ current[o] < m /\ m <= done[o] /\ pc[o] = "migrate"
        BY <3>1, <3>3, <2>3, <1>0 DEF Creating, IInv, TypeOK, dbMigrations
      <4>2. m \in Uncommitted(o)
        BY <4>1 DEF Uncommitted
      <4>3. QED BY <4>2 DEF ExecMigration
    <3>4. QED BY <3>2, <3>3, <1>0
  <2>5. \A o \in Servers : ~Writing(o)'
    BY <2>1, <1>3, <1>6 DEF Writing
  <2>6. current'[s] < Last
    BY <1>2 DEF OneMigrates
  <2>7. QED BY <1>0, <1>1, <1>2, <1>3, <1>6, <2>1, <2>2, <2>3, <2>4, <2>5, <2>6 DEF OneMigrates
<1>7. QED BY <1>5, <1>6 DEF ExecMigration, Step, IInv, TypeOK

\* The commit adds exactly the tables after the version.
LEMMA CommitKeepsOneMigrates ==
    ASSUME IInv, OneMigrates, NEW s \in Servers, CommitMigrations(s)
    PROVE  OneMigrates'
<1>1. pc[s] = "migrate" /\ done[s] = Last /\ current[s] < Last
  BY DEF CommitMigrations, OneMigrates
<1>2. Busy(s) /\ ~Writing(s)
  BY <1>1 DEF Busy, Creating, Writing
<1>3. \A o \in Servers \ {s} : ~Busy(o)
  BY <1>2 DEF OneMigrates
<1>4. current[s] = version /\ schema = 1..version
  BY <1>2, <1>3 DEF OneMigrates, Busy
<1>5. schema' = 1..Last
  BY <1>1, <1>4, ConstantsAssumption
     DEF CommitMigrations, Uncommitted, dbMigrations, IInv, TypeOK
<1>6. \A o \in Servers \ {s} : pc'[o] = pc[o]
  BY DEF IInv, TypeOK, CommitMigrations, Step
<1>7. pc'[s] = "version" /\ version' = version /\ current' = current /\ done' = done
  BY DEF IInv, TypeOK, CommitMigrations, Step
<1>8. \A o \in Servers \ {s} : ~Busy(o)'
  BY <1>3, <1>6, <1>7 DEF Busy, Creating, Writing
<1>9. Writing(s)'
  BY <1>7 DEF Writing
<1>10. QED BY <1>4, <1>5, <1>6, <1>7, <1>8, <1>9 DEF OneMigrates

\* The version that is written is the last one: the row still has the version
\* that the server has read, so its INSERT is not refused.
LEMMA UpdateKeepsOneMigrates ==
    ASSUME IInv, OneMigrates, NEW s \in Servers, UpdateDBVersion(s)
    PROVE  OneMigrates'
<1>1. Writing(s) /\ Busy(s) /\ done[s] = Last
  BY DEF UpdateDBVersion, Writing, Busy, IInv, ServerKnows
<1>2. current[s] = version /\ schema = 1..Last
  BY <1>1 DEF OneMigrates
<1>3. version' = Last /\ version <= Last /\ version \in Nat
  BY <1>1, <1>2, ConstantsAssumption
     DEF UpdateDBVersion, dbVersionZero, IInv, TypeOK, VersionIsApplied
<1>4. \A o \in Servers \ {s} : ~Busy(o)
  BY <1>1 DEF OneMigrates
<1>5. \A o \in Servers \ {s} : pc'[o] = pc[o]
  BY DEF IInv, TypeOK, UpdateDBVersion, Step
<1>6. pc'[s] = "up" /\ schema' = schema /\ current' = current /\ done' = done
  BY DEF IInv, TypeOK, UpdateDBVersion, Step
<1>7. \A o \in Servers : ~Busy(o)' /\ ~Writing(o)'
  BY <1>4, <1>5, <1>6 DEF Busy, Creating, Writing
<1>8. \A o \in Servers : pc'[o] = "migrate" => current'[o] <= version' /\ current'[o] < Last
  BY <1>3, <1>5, <1>6, ConstantsAssumption DEF OneMigrates, IInv, TypeOK
<1>9. QED BY <1>2, <1>3, <1>6, <1>7, <1>8 DEF OneMigrates

\* As long as there is no fault, every step keeps the exclusion.
LEMMA FaultFreeStep == IInv /\ FaultFree /\ [Next]_vars => FaultFree'
<1> SUFFICES ASSUME IInv, FaultFree, [Next]_vars PROVE FaultFree'
  OBVIOUS
<1>1. CASE UNCHANGED vars
  BY <1>1 DEF FaultFree, OneMigrates, Busy, Creating, Writing, vars
<1>2. ASSUME NEW s \in Servers, ConnectDB(s) PROVE FaultFree'
  <2>1. \A o \in Servers : (Busy(o)' => Busy(o)) /\ (Writing(o)' <=> Writing(o))
    BY <1>2 DEF IInv, TypeOK, ConnectDB, Step, Busy, Creating, Writing
  <2>2. \A o \in Servers : pc'[o] = "migrate" => pc[o] = "migrate"
    BY <1>2 DEF IInv, TypeOK, ConnectDB, Step
  <2>3. QED BY <1>2, <2>1, <2>2 DEF FaultFree, OneMigrates, ConnectDB, Step
<1>3. ASSUME NEW s \in Servers, PerformDBMigrations(s) PROVE FaultFree'
  BY <1>3, PerformKeepsOneMigrates DEF FaultFree, PerformDBMigrations, Step
<1>4. ASSUME NEW s \in Servers, ExecMigration(s) PROVE FaultFree'
  BY <1>4, ExecKeepsOneMigrates DEF FaultFree, ExecMigration, Step
<1>5. ASSUME NEW s \in Servers, CommitMigrations(s) PROVE FaultFree'
  BY <1>5, CommitKeepsOneMigrates DEF FaultFree, CommitMigrations, Step
<1>6. ASSUME NEW s \in Servers, UpdateDBVersion(s) PROVE FaultFree'
  BY <1>6, UpdateKeepsOneMigrates DEF FaultFree, UpdateDBVersion, Step
<1>7. ASSUME NEW s \in Servers, NEW to, Fault(s, to) PROVE FaultFree'
  BY <1>7, ConstantsAssumption DEF FaultFree, Fault, IInv, TypeOK
<1>8. QED BY <1>1, <1>2, <1>3, <1>4, <1>5, <1>6, <1>7
          DEF Next, DBError, VersionErrorDropped, Crash

\* Servers that start at the same time never strand the database: the tables
\* are ahead of the version, with nobody about to write it, only after a crash
\* or an error of the database.
THEOREM StrandedAlwaysNeedsFault == Spec => []StrandedNeedsFault
<1>1. IInv /\ FaultFree => StrandedNeedsFault
  BY ConstantsAssumption
     DEF IInv, TypeOK, FaultFree, OneMigrates, Writing, StrandedNeedsFault, Stranded
<1>2. QED BY <1>1, InitInvariant, InductiveInvariant, InitFaultFree, FaultFreeStep, PTL DEF Spec
=============================================================================
